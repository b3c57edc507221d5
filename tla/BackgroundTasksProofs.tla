------------------------ MODULE BackgroundTasksProofs ------------------------
(***************************************************************************)
(* The safety properties of BackgroundTasks, and that it implements         *)
(* TaskLifecycle, for every number of tasks, workers, callers, waiters and  *)
(* every limit.                                                             *)
(***************************************************************************)
EXTENDS BackgroundTasks, FiniteSetTheorems, TLAPS

-----------------------------------------------------------------------------
(* The inductive invariant.                                                *)

Statuses == {"none", "queued"} \cup Held \cup Terminal
Registered == Executing \cup Finishing \cup {"cleanup"}
Idle == {"off", "loop", "wait"}

RowTypes == [status : Statuses, revision : Nat, attempt : Nat, owner : Owners \cup {"none"},
             kind : Kinds \cup {"none"}, instance : Nat, stale : BOOLEAN, attached : BOOLEAN]

ProcTypes == [state : {"new", "running", "closing", "closed"}, instance : Nat \ {0},
              limit : Nat, perAgent : Nat, root : BOOLEAN, total : Int,
              byAgent : [Owners -> Int], wake : BOOLEAN,
              settings : Nat, cancels : Nat, faults : Nat]

WorkerTypes == [pc : Idle \cup Busy, task : Tasks \cup {None}, rev : Nat, seen : Statuses,
                ctx : BOOLEAN, stopping : BOOLEAN, outcome : {"none", "ok", "error"}]

CallerTypes == [pc : {"idle", "create", "signal", "lookup", "tell"}, task : Tasks \cup {None},
                terminal : BOOLEAN]

WaiterTypes == [pc : {"idle", "read", "blocked", "again"}, task : Tasks \cup {None}, woken : BOOLEAN]

Entries == [task : Tasks \cup {None}, rev : Nat, old : BOOLEAN]

Typed ==
    /\ row \in [Tasks -> RowTypes]
    /\ child \in [Tasks -> {"none", "running", "done", "stopped"}]
    /\ proc \in ProcTypes
    /\ active \in [Tasks -> Workers \cup {None}]
    /\ worker \in [Workers -> WorkerTypes]
    /\ caller \in [Callers -> CallerTypes]
    /\ waiter \in [Waiters -> WaiterTypes]
    /\ channel \in [Tasks -> SUBSET Waiters]
    /\ reaper \in [pc : {"idle", "sweep", "commit", "notify"}, list : SUBSET Entries, entry : Entries]
    /\ told \in SUBSET Tasks

\* A row that was started and is not to be started again.
Started(t) == t \in Tasks /\ row[t].status \notin {"none", "queued"}

\* What a row says by itself.
Recorded(t) ==
    /\ row[t].status = "none" => child[t] = "none"
    /\ row[t].status # "none" => row[t].owner \in Owners /\ row[t].kind \in Kinds
    /\ row[t].status \in Held => row[t].instance \in 1 .. proc.instance
    /\ row[t].stale => row[t].status \in Held

\* A worker has a task exactly while it is busy, is the only one to have it,
\* and is registered for it from the moment it executes until it is done.
Working(w) ==
    /\ worker[w].pc \in Busy <=> worker[w].task # None
    /\ worker[w].task # None => Started(worker[w].task)
    /\ worker[w].task # None /\ row[worker[w].task].status \in Held =>
          row[worker[w].task].instance = proc.instance
    /\ worker[w].pc \in Registered => active[worker[w].task] = w
    /\ worker[w].pc = "notify" => row[worker[w].task].status \in Terminal
    /\ worker[w].stopping => proc.root

Sole == \A v, w \in Workers : worker[v].task # None /\ worker[v].task = worker[w].task => v = w

Listed == \A t \in Tasks : active[t] # None =>
             worker[active[t]].task = t /\ worker[active[t]].pc \in Registered

\* Before the manager starts nobody works or waits.
Fresh ==
    proc.state = "new" =>
        (\A w \in Workers : worker[w].task = None) /\ (\A k \in Waiters : waiter[k].pc = "idle")

Holding ==
    /\ \A t \in Tasks : Recorded(t)
    /\ \A w \in Workers : Working(w)
    /\ Sole /\ Listed /\ Fresh

\* Those who tell of an end do so of an end.
Telling ==
    /\ \A k \in Callers :
          /\ caller[k].pc \in {"lookup", "tell"} <=> caller[k].task # None
          /\ caller[k].terminal => caller[k].task # None /\ row[caller[k].task].status \in Terminal
    /\ reaper.pc \in {"commit", "notify"} => Started(reaper.entry.task)
    /\ reaper.pc = "notify" => row[reaper.entry.task].status \in Terminal
    /\ \A t \in told : row[t].status \in Terminal

\* A waiter is on the channel until it is woken.
Listening ==
    \A k \in Waiters :
        /\ waiter[k].pc # "idle" => waiter[k].task # None
        /\ waiter[k].pc \in {"read", "blocked"} => waiter[k].woken \/ k \in channel[waiter[k].task]

\* A row gets old only once its worker is registered; so the reaper, when it
\* finds an old row unregistered, has found one that its worker gave up.
Sweeping ==
    /\ \A e \in reaper.list : Started(e.task)
    /\ \A w \in Workers : worker[w].pc = "claimed" =>
          /\ ~row[worker[w].task].stale
          /\ \A e \in reaper.list : e.task = worker[w].task => ~e.old
    /\ reaper.pc = "commit" =>
          \A w \in Workers : worker[w].task = reaper.entry.task => worker[w].pc = "release"

TaskInv ==
    /\ Typed /\ Holding /\ CountersMatch
    /\ NoOrphanRun
    /\ Telling /\ TerminalIsTold
    /\ Listening /\ NoLostNotify
    /\ NoLostWakeup
    /\ Sweeping

-----------------------------------------------------------------------------
(* What the store writes is a row.                                         *)

LEMMA AttachedTyped ==
    ASSUME NEW r \in RowTypes
    PROVE  Attached(r) \in RowTypes
<1>1. r.revision + 1 \in Nat
  BY DEF RowTypes
<1> QED
  BY <1>1 DEF RowTypes, Attached

LEMMA EndedTyped ==
    ASSUME NEW r \in RowTypes, NEW to \in Terminal
    PROVE  /\ Ended(r, to) \in RowTypes /\ Ended(r, to).status = to /\ ~Ended(r, to).stale
           /\ \A f \in {"owner", "kind", "attached"} : Ended(r, to)[f] = r[f]
<1>1. r.revision + 1 \in Nat /\ to \in Statuses
  BY DEF RowTypes, Statuses
<1> QED
  BY <1>1 DEF RowTypes, Ended

LEMMA ClaimedTyped ==
    ASSUME Typed, NEW r \in RowTypes
    PROVE  /\ Claimed(r) \in RowTypes /\ Claimed(r).status = "running" /\ ~Claimed(r).stale
           /\ Claimed(r).instance = proc.instance
           /\ \A f \in {"owner", "kind", "attached"} : Claimed(r)[f] = r[f]
<1>1. r.revision + 1 \in Nat /\ r.attempt + 1 \in Nat /\ proc.instance \in Nat /\ "running" \in Statuses
  BY DEF RowTypes, Statuses, Held, Typed, ProcTypes
<1> QED
  BY <1>1 DEF RowTypes, Claimed

-----------------------------------------------------------------------------
(* Steady steps: most of them leave the tasks with the workers that have    *)
(* them. What holds about tasks, workers and counters then goes on to hold. *)

RowKeeps(t) ==
    /\ row[t].status # "none" =>
          row'[t].status # "none" /\ row'[t].owner = row[t].owner /\ (row[t].attached => row'[t].attached)
    /\ Started(t) => Started(t)'
    /\ row[t].status \in Terminal => row'[t].status \in Terminal
    /\ row'[t].status \in Held => row[t].status \in Held /\ row'[t].instance = row[t].instance

WorkerKeeps(w) ==
    /\ worker'[w].task = worker[w].task
    /\ worker'[w].pc \in Busy <=> worker[w].pc \in Busy
    /\ worker'[w].pc \in Registered <=> worker[w].pc \in Registered
    /\ worker'[w].pc = "claimed" <=> worker[w].pc = "claimed"
    /\ worker'[w].pc = "notify" => row'[worker'[w].task].status \in Terminal
    /\ worker'[w].stopping => proc'.root

ProcKeeps ==
    /\ proc'.instance = proc.instance /\ proc'.total = proc.total /\ proc'.byAgent = proc.byAgent
    /\ proc'.state = "new" => proc.state = "new" /\ \A k \in Waiters : waiter'[k].pc = "idle"

Steady ==
    /\ \A t \in Tasks : RowKeeps(t) /\ Recorded(t)'
    /\ \A w \in Workers : WorkerKeeps(w)
    /\ active' = active /\ ProcKeeps

\* Who has what does not change, so neither does what is counted.
LEMMA SteadyHolds ==
    ASSUME Typed, Holding, CountersMatch, Steady
    PROVE  Holding' /\ CountersMatch'
<1>1. \A w \in Workers : worker[w].task # None => worker[w].task \in Tasks
  BY DEF Typed, WorkerTypes
<1>2. ASSUME NEW w \in Workers PROVE Working(w)'
  <2>1. Working(w) /\ WorkerKeeps(w)
    BY DEF Holding, Steady
  <2>2. CASE worker[w].task = None
    BY <2>1, <2>2 DEF Working, WorkerKeeps, Registered, Busy
  <2>3. CASE worker[w].task # None
    <3>1. RowKeeps(worker[w].task)
      BY <1>1, <2>3 DEF Steady
    <3> QED
      BY <2>1, <2>3, <3>1 DEF Working, WorkerKeeps, RowKeeps, Steady, ProcKeeps
  <2> QED
    BY <2>2, <2>3
<1>3. Sole'
  BY DEF Holding, Sole, Steady, WorkerKeeps
<1>4. Listed'
  BY DEF Holding, Listed, Steady, WorkerKeeps, Typed
<1>5. Fresh'
  BY DEF Holding, Fresh, Steady, ProcKeeps, WorkerKeeps
<1>6. BusyWorkers' = BusyWorkers
  BY DEF BusyWorkers, Steady, WorkerKeeps
<1>7. \A w \in BusyWorkers : row'[worker'[w].task].owner = row[worker[w].task].owner
  <2> SUFFICES ASSUME NEW w \in BusyWorkers PROVE row'[worker'[w].task].owner = row[worker[w].task].owner
    OBVIOUS
  <2>1. w \in Workers /\ Working(w) /\ worker[w].pc \in Busy
    BY DEF BusyWorkers, Holding
  <2>2. worker[w].task \in Tasks /\ row[worker[w].task].status # "none"
    BY <1>1, <2>1 DEF Working, Started
  <2> QED
    BY <2>1, <2>2 DEF Steady, WorkerKeeps, RowKeeps
<1>8. CountersMatch'
  <2>1. \A a : {w \in BusyWorkers' : row'[worker'[w].task].owner = a}
               = {w \in BusyWorkers : row[worker[w].task].owner = a}
    BY <1>6, <1>7
  <2> QED
    BY <1>6, <2>1 DEF CountersMatch, Steady, ProcKeeps
<1> QED
  BY <1>2, <1>3, <1>4, <1>5, <1>8 DEF Holding, Steady

\* The reaper's view stays right while it rests and nothing grows old.
LEMMA SteadySweeps ==
    ASSUME Typed, Holding, Sweeping, Steady, UNCHANGED reaper,
           \A t \in Tasks : row'[t].stale => row[t].stale
    PROVE  Sweeping'
<1>1. \A e \in reaper.list : Started(e.task)'
  BY DEF Sweeping, Started, Steady, RowKeeps
<1>2. ASSUME NEW w \in Workers, worker'[w].pc = "claimed"
      PROVE  ~row'[worker'[w].task].stale /\ \A e \in reaper.list : e.task = worker'[w].task => ~e.old
  <2>1. worker[w].pc = "claimed" /\ worker'[w].task = worker[w].task
    BY <1>2 DEF Steady, WorkerKeeps
  <2>2. worker[w].task \in Tasks
    BY <2>1 DEF Holding, Working, Started, Busy
  <2> QED
    BY <2>1, <2>2 DEF Sweeping
<1>3. ASSUME reaper.pc = "commit", NEW w \in Workers, worker'[w].task = reaper.entry.task
      PROVE  worker'[w].pc = "release"
  <2>1. worker[w].pc = "release"
    BY <1>3 DEF Sweeping, Steady, WorkerKeeps
  <2>2. worker'[w].pc \in Busy /\ worker'[w].pc \notin Registered /\ worker'[w].pc # "claimed"
    BY <2>1 DEF Steady, WorkerKeeps, Busy, Registered, Executing, Finishing
  <2> QED
    BY <2>2 DEF Busy, Registered, Executing, Finishing
<1> QED
  BY <1>1, <1>2, <1>3 DEF Sweeping

-----------------------------------------------------------------------------
(* Wake events and announcements through steps that leave them alone.       *)

\* Nothing is queued, no slot is freed and nobody looks away.
Calm ==
    /\ \A t \in Tasks : row'[t].status = "queued" =>
          row[t].status = "queued" /\ row'[t].attempt = row[t].attempt /\ row'[t].owner = row[t].owner
    /\ proc'.byAgent = proc.byAgent /\ proc'.total = proc.total
    /\ proc'.limit = proc.limit /\ proc'.perAgent = proc.perAgent
    /\ proc'.state = "running" => proc.state = "running"
    /\ proc.root => proc'.root
    /\ proc'.faults = 0 => proc.faults = 0
    /\ proc.wake => proc'.wake
    /\ \A w \in Workers : worker[w].pc \in {"loop", "claimed"} => worker'[w].pc \in {"loop", "claimed"}
    /\ \A k \in Callers : caller[k].pc = "signal" => caller'[k].pc = "signal"

LEMMA CalmKeeps == ASSUME NoLostWakeup, Calm PROVE NoLostWakeup'
BY DEF NoLostWakeup, Calm, Claimable

\* Whoever owes an announcement still does, and every end has somebody.
Announced ==
    /\ \A t \in Tasks : ToBeTold(t) => ToBeTold(t)'
    /\ \A t \in Tasks : row'[t].status \in Terminal => row[t].status \in Terminal \/ ToBeTold(t)'
    /\ proc'.instance = proc.instance
    /\ UNCHANGED <<waiter, told>>

LEMMA AnnouncedKeeps ==
    ASSUME Typed, Listening, TerminalIsTold, NoLostNotify, Announced
    PROVE  TerminalIsTold' /\ NoLostNotify'
<1>1. TerminalIsTold'
  BY DEF TerminalIsTold, Announced
<1>2. ASSUME NEW k \in Waiters, waiter[k].pc = "blocked", row'[waiter[k].task].status \in Terminal
      PROVE  waiter[k].woken \/ ToBeTold(waiter[k].task)'
  <2>1. waiter[k].task \in Tasks
    BY <1>2 DEF Listening, Typed, WaiterTypes
  <2> QED
    BY <1>2, <2>1 DEF NoLostNotify, Announced
<1>3. NoLostNotify'
  BY <1>2 DEF NoLostNotify, Announced
<1> QED
  BY <1>1, <1>3

LEMMA SteadyTells ==
    ASSUME Typed, Telling, Steady, UNCHANGED <<caller, reaper, told>>
    PROVE  Telling'
<1>1. ASSUME NEW k \in Callers, caller[k].terminal
      PROVE  row'[caller[k].task].status \in Terminal
  <2>1. caller[k].task \in Tasks /\ row[caller[k].task].status \in Terminal
    BY <1>1 DEF Telling, Typed, CallerTypes
  <2> QED
    BY <2>1 DEF Steady, RowKeeps
<1>2. reaper.pc \in {"commit", "notify"} => Started(reaper.entry.task)'
  BY DEF Telling, Started, Steady, RowKeeps
<1>3. reaper.pc = "notify" => row'[reaper.entry.task].status \in Terminal
  BY DEF Telling, Started, Steady, RowKeeps
<1>4. \A t \in told : row'[t].status \in Terminal
  BY DEF Telling, Typed, Steady, RowKeeps
<1> QED
  BY <1>1, <1>2, <1>3, <1>4 DEF Telling

-----------------------------------------------------------------------------
(* One worker goes on with its task.                                        *)

\* A step of the executor or of finish: the worker stays registered.
LEMMA ExecutionKeeps ==
    ASSUME TaskInv, NEW w \in Workers, NEW x \in WorkerTypes,
           worker' = [worker EXCEPT ![w] = x], x.task = worker[w].task,
           worker[w].pc \in Registered \ {"notify"}, x.pc \in Registered,
           x.stopping => proc.root,
           x.pc = "notify" => row'[x.task].status \in Terminal,
           proc' \in {proc, [proc EXCEPT !.faults = @ + 1]},
           row' \in [Tasks -> RowTypes], child' \in [Tasks -> {"none", "running", "done", "stopped"}],
           \A t \in Tasks :
              /\ RowKeeps(t) /\ Recorded(t)'
              /\ row'[t].status = "queued" => row'[t] = row[t]
              /\ row'[t].stale => row[t].stale
              /\ row'[t].status \in Terminal => row[t].status \in Terminal \/ (t = x.task /\ x.pc = "notify"),
           NoOrphanRun',
           UNCHANGED <<active, caller, waiter, channel, reaper, told>>
    PROVE  TaskInv'
<1> USE DEF TaskInv
<1>0. worker' \in [Workers -> WorkerTypes] /\ worker'[w] = x
      /\ \A v \in Workers : v # w => worker'[v] = worker[v]
  BY DEF Typed
<1>1. proc' \in ProcTypes /\ ProcKeeps /\ proc'.limit = proc.limit /\ proc'.perAgent = proc.perAgent
      /\ proc'.state = proc.state /\ proc'.root = proc.root /\ proc'.wake = proc.wake
      /\ (proc'.faults = 0 => proc.faults = 0)
  <2>1. proc.faults \in Nat /\ proc \in ProcTypes
    BY DEF Typed, ProcTypes
  <2>2. Fresh
    BY DEF Holding
  <2>3. CASE proc' = proc
    BY <2>1, <2>2, <2>3 DEF ProcKeeps, Fresh
  <2>4. CASE proc' = [proc EXCEPT !.faults = @ + 1]
    BY <2>1, <2>2, <2>4 DEF ProcKeeps, Fresh, ProcTypes
  <2> QED
    BY <2>3, <2>4
<1>2. Typed'
  BY <1>0, <1>1 DEF Typed
<1>3. ASSUME NEW v \in Workers PROVE WorkerKeeps(v)
  <2>1. CASE v = w
    <3>1. worker[w].pc \in Busy /\ x.pc \in Busy /\ worker[w].pc # "claimed" /\ x.pc # "claimed"
      BY DEF Busy, Registered, Executing, Finishing
    <3> QED
      BY <1>0, <1>1, <2>1, <3>1 DEF WorkerKeeps
  <2>2. CASE v # w
    <3>1. Working(v) /\ (worker[v].pc = "notify" => worker[v].task \in Tasks)
      BY DEF Holding, Working, Busy, Finishing, Started
    <3> QED
      BY <1>0, <1>1, <2>2, <3>1 DEF WorkerKeeps, Working, RowKeeps
  <2> QED
    BY <2>1, <2>2
<1>4. Steady
  BY <1>1, <1>3 DEF Steady
<1>5. Holding' /\ CountersMatch' /\ Sweeping' /\ Telling'
  BY <1>4, SteadyHolds, SteadySweeps, SteadyTells
<1>6. NoLostWakeup'
  <2>1. worker[w].pc \notin {"loop", "claimed"}
    BY DEF Registered, Executing, Finishing
  <2>2. Calm
    BY <1>0, <1>1, <2>1 DEF Calm, ProcKeeps
  <2> QED
    BY <2>2, CalmKeeps
<1>7. TerminalIsTold' /\ NoLostNotify'
  <2>1. Announced
    BY <1>0, <1>1 DEF Announced, ToBeTold, ProcKeeps
  <2> QED
    BY <2>1, AnnouncedKeeps
<1> QED
  BY <1>2, <1>5, <1>6, <1>7 DEF Listening

\* The same when the rows rest.
LEMMA RowsRest ==
    ASSUME TaskInv, row' = row, proc'.instance = proc.instance,
           \A t \in Tasks : row[t].status = "none" => child'[t] = "none"
    PROVE  \A t \in Tasks : RowKeeps(t) /\ Recorded(t)'
BY DEF TaskInv, Holding, Recorded, RowKeeps, Started, Held, Terminal

LEMMA FaultTyped ==
    ASSUME Typed, Fault
    PROVE  proc' = [proc EXCEPT !.faults = @ + 1] /\ proc'.instance = proc.instance
BY DEF Typed, ProcTypes, Fault

\* The executor returns, and has interrupted the child it may have left.
LEMMA ReturnKeeps ==
    ASSUME TaskInv, NEW w \in Workers, worker[w].pc \in Executing,
           NEW outcome \in {"ok", "error"}, Returned(w, outcome),
           row' = row, child' \in {child, Interrupted(worker[w].task)},
           worker[w].pc = "attach" => child' = Interrupted(worker[w].task),
           proc' \in {proc, [proc EXCEPT !.faults = @ + 1]},
           UNCHANGED <<active, caller, waiter, channel, reaper, told>>
    PROVE  TaskInv'
<1> DEFINE x == [Off EXCEPT !.pc = "finish", !.task = worker[w].task,
                            !.outcome = outcome, !.stopping = proc.root]
<1> USE DEF TaskInv
<1>1. worker[w].task \in Tasks /\ proc.root \in BOOLEAN /\ worker[w] \in WorkerTypes
  BY DEF Holding, Working, Started, Busy, Typed, ProcTypes
<1>2. x \in WorkerTypes /\ x.pc = "finish" /\ x.task = worker[w].task /\ (x.stopping => proc.root)
  BY <1>1 DEF Off, WorkerTypes, Busy, Finishing, Statuses
<1>3. worker' = [worker EXCEPT ![w] = x]
  BY DEF Returned
<1> HIDE DEF x
<1>4. proc'.instance = proc.instance
  BY DEF Typed, ProcTypes
<1>5. child' \in [Tasks -> {"none", "running", "done", "stopped"}]
      /\ \A t \in Tasks : child'[t] = child[t] \/ (child[t] = "running" /\ child'[t] = "stopped")
  BY <1>1 DEF Typed, Interrupted
<1>6. \A t \in Tasks : RowKeeps(t) /\ Recorded(t)'
  BY <1>4, <1>5, RowsRest DEF Holding, Recorded
<1>7. NoOrphanRun'
  <2> SUFFICES ASSUME NEW t \in Tasks, child'[t] = "running"
               PROVE  row[t].attached \/ \E v \in Workers : worker'[v].task = t /\ worker'[v].pc = "attach"
    BY DEF NoOrphanRun
  <2>1. child[t] = "running"
    BY <1>5
  <2>2. CASE row[t].attached
    BY <2>2
  <2>3. CASE ~row[t].attached
    <3>1. PICK v \in Workers : worker[v].task = t /\ worker[v].pc = "attach"
      BY <2>1, <2>3 DEF NoOrphanRun
    <3>2. v # w
      BY <3>1, <1>1, <2>1 DEF Interrupted, Typed
    <3> QED
      BY <1>3, <3>1, <3>2 DEF Typed
  <2> QED
    BY <2>2, <2>3
<1>8. row' \in [Tasks -> RowTypes]
  BY DEF Typed
<1>9. worker[w].pc \in Registered \ {"notify"} /\ x.pc \in Registered /\ x.pc # "notify"
  BY <1>2 DEF Registered, Executing, Finishing
<1> QED
  BY <1>2, <1>3, <1>5, <1>6, <1>7, <1>8, <1>9, ExecutionKeeps

\* The executor, or finish, goes on to another of its steps.
LEMMA GoKeeps ==
    ASSUME TaskInv, NEW w \in Workers, NEW pc \in Registered, Go(w, pc),
           worker[w].pc \in Registered \ {"notify", "attach"},
           pc = "notify" => row[worker[w].task].status \in Terminal,
           proc' \in {proc, [proc EXCEPT !.faults = @ + 1]},
           UNCHANGED <<row, child, active, caller, waiter, channel, reaper, told>>
    PROVE  TaskInv'
<1> DEFINE x == [worker[w] EXCEPT !.pc = pc]
<1> USE DEF TaskInv
<1>1. worker[w] \in WorkerTypes
  BY DEF Typed
<1>2. x \in WorkerTypes /\ x.pc = pc /\ x.task = worker[w].task /\ (x.stopping => proc.root)
  BY <1>1 DEF WorkerTypes, Busy, Registered, Holding, Working
<1>3. worker' = [worker EXCEPT ![w] = x]
  BY DEF Go
<1> HIDE DEF x
<1>4. proc'.instance = proc.instance
  BY DEF Typed, ProcTypes
<1>5. \A t \in Tasks : RowKeeps(t) /\ Recorded(t)'
  BY <1>4, RowsRest DEF Holding, Recorded
<1>6. NoOrphanRun'
  BY <1>3 DEF NoOrphanRun, Typed
<1>7. row' \in [Tasks -> RowTypes] /\ child' \in [Tasks -> {"none", "running", "done", "stopped"}]
  BY DEF Typed
<1> QED
  BY <1>2, <1>3, <1>5, <1>6, <1>7, ExecutionKeeps

\* What the executors do; Launch, Attach and Announce also touch a child or a row.
LEMMA ExecutorReturns ==
    ASSUME TaskInv, NEW w \in Workers, Reject(w) \/ ShellDone(w)
    PROVE  TaskInv'
<1>1. worker[w].pc \in {"shell", "agent"} /\ worker[w].pc \in Executing
      /\ UNCHANGED <<row, child, proc, active, caller, waiter, channel, reaper, told>>
  BY DEF Reject, ShellDone, Executing
<1>2. PICK outcome \in {"ok", "error"} : Returned(w, outcome)
  BY DEF Reject, ShellDone
<1> QED
  BY <1>1, <1>2, ReturnKeeps

LEMMA LaunchKeeps ==
    ASSUME TaskInv, NEW w \in Workers, Launch(w)
    PROVE  TaskInv'
<1> DEFINE t == worker[w].task
           x == [worker[w] EXCEPT !.pc = "attach"]
<1>1. UNCHANGED <<row, proc, active, caller, waiter, channel, reaper, told>> /\ worker[w].pc = "agent"
  BY DEF Launch
<1>2. CASE worker[w].ctx
  BY <1>1, <1>2, ReturnKeeps DEF Launch, Executing
<1>3. CASE ~worker[w].ctx
  <2> USE DEF TaskInv
  <2>1. worker' = [worker EXCEPT ![w] = x] /\ child' = [child EXCEPT ![t] = "running"]
    BY <1>3 DEF Launch, Go
  <2>2. worker[w] \in WorkerTypes
    BY DEF Typed
  <2>3. x \in WorkerTypes /\ x.pc = "attach" /\ x.task = t /\ (x.stopping => proc.root)
    BY <2>2 DEF WorkerTypes, Busy, Executing, Holding, Working
  <2> HIDE DEF x
  <2>4. t \in Tasks /\ row[t].status # "none"
    BY <1>1 DEF Holding, Working, Busy, Executing, Started
  <2>5. \A u \in Tasks : RowKeeps(u) /\ Recorded(u)'
    BY <1>1, <2>1, <2>4, RowsRest DEF Holding, Recorded, Typed
  <2>6. NoOrphanRun'
    <3> SUFFICES ASSUME NEW u \in Tasks, child'[u] = "running"
                 PROVE  row[u].attached \/ \E v \in Workers : worker'[v].task = u /\ worker'[v].pc = "attach"
      BY <1>1 DEF NoOrphanRun
    <3>1. worker'[w].task = t /\ worker'[w].pc = "attach"
      BY <2>1, <2>3 DEF Typed
    <3>2. CASE u = t
      BY <3>1, <3>2
    <3>3. CASE u # t
      BY <1>1, <2>1, <3>3 DEF NoOrphanRun, Typed
    <3> QED
      BY <3>2, <3>3
  <2>7. row' \in [Tasks -> RowTypes] /\ child' \in [Tasks -> {"none", "running", "done", "stopped"}]
    BY <1>1, <2>1 DEF Typed
  <2>8. worker[w].pc \in Registered \ {"notify"} /\ x.pc \in Registered /\ x.pc # "notify"
    BY <1>1, <2>3 DEF Registered, Executing
  <2> QED
    BY <1>1, <2>1, <2>3, <2>5, <2>6, <2>7, <2>8, ExecutionKeeps
<1> QED
  BY <1>2, <1>3

LEMMA AttachKeeps ==
    ASSUME TaskInv, NEW w \in Workers, Attach(w)
    PROVE  TaskInv'
<1> DEFINE t == worker[w].task
           x == [worker[w] EXCEPT !.pc = "announce"]
<1>1. UNCHANGED <<proc, active, caller, waiter, channel, reaper, told>> /\ worker[w].pc = "attach"
  BY DEF Attach
<1>2. CASE ~CanAttach(w)
  BY <1>1, <1>2, ReturnKeeps DEF Attach, Executing
<1>3. CASE CanAttach(w)
  <2> USE DEF TaskInv
  <2>1. /\ worker' = [worker EXCEPT ![w] = x] /\ child' = child
        /\ row' = [row EXCEPT ![t] = Attached(row[t])]
    BY <1>3 DEF Attach, Go
  <2>2. worker[w] \in WorkerTypes
    BY DEF Typed
  <2>3. x \in WorkerTypes /\ x.pc = "announce" /\ x.task = t /\ (x.stopping => proc.root)
    BY <2>2 DEF WorkerTypes, Busy, Executing, Holding, Working
  <2> HIDE DEF x
  <2>4. t \in Tasks /\ row[t].status # "queued" /\ row[t] \in RowTypes
    BY <1>1 DEF Holding, Working, Busy, Executing, Started, Typed
  <2>5. row' \in [Tasks -> RowTypes]
    <3>1. Attached(row[t]) \in RowTypes
      BY <2>4, AttachedTyped
    <3> QED
      BY <2>1, <3>1 DEF Typed
  <2>6. \A u \in Tasks : u # t => row'[u] = row[u]
    BY <2>1 DEF Typed
  <2>7. row'[t].status = row[t].status /\ row'[t].owner = row[t].owner /\ row'[t].kind = row[t].kind
        /\ row'[t].instance = row[t].instance /\ row'[t].attached /\ ~row'[t].stale
    BY <2>1, <2>4 DEF Typed, RowTypes, Attached
  <2>8. ASSUME NEW u \in Tasks PROVE RowKeeps(u) /\ Recorded(u)'
    <3>1. Recorded(u)
      BY DEF Holding
    <3> QED
      BY <1>1, <2>1, <2>6, <2>7, <3>1 DEF RowKeeps, Recorded, Started
  <2>9. NoOrphanRun'
    <3> SUFFICES ASSUME NEW u \in Tasks, child[u] = "running", u # t
                 PROVE  row[u].attached \/ \E v \in Workers : worker'[v].task = u /\ worker'[v].pc = "attach"
      BY <2>1, <2>6, <2>7 DEF NoOrphanRun
    <3> QED
      BY <2>1 DEF NoOrphanRun, Typed
  <2>10. child' \in [Tasks -> {"none", "running", "done", "stopped"}]
    BY <2>1 DEF Typed
  <2>11. worker[w].pc \in Registered \ {"notify"} /\ x.pc \in Registered /\ x.pc # "notify"
    BY <1>1, <2>3 DEF Registered, Executing
  <2>12. \A u \in Tasks :
              /\ row'[u].status = "queued" => row'[u] = row[u]
              /\ row'[u].stale => row[u].stale
              /\ row'[u].status \in Terminal => row[u].status \in Terminal
    BY <2>4, <2>6, <2>7
  <2> QED
    BY <1>1, <2>1, <2>3, <2>5, <2>8, <2>9, <2>10, <2>11, <2>12, ExecutionKeeps
<1> QED
  BY <1>2, <1>3

LEMMA AnnounceKeeps ==
    ASSUME TaskInv, NEW w \in Workers, Announce(w)
    PROVE  TaskInv'
<1> DEFINE t == worker[w].task
           x == [worker[w] EXCEPT !.pc = "poll"]
<1>1. UNCHANGED <<proc, active, caller, waiter, channel, reaper, told>> /\ worker[w].pc = "announce"
  BY DEF Announce
<1>2. CASE worker[w].ctx \/ row[t].status \in Terminal
  BY <1>1, <1>2, ReturnKeeps DEF Announce, Executing
<1>3. CASE ~(worker[w].ctx \/ row[t].status \in Terminal)
  <2> USE DEF TaskInv
  <2>1. /\ worker' = [worker EXCEPT ![w] = x] /\ child' = child
        /\ row' = [row EXCEPT ![t].stale = FALSE]
    BY <1>3 DEF Announce, Go
  <2>2. worker[w] \in WorkerTypes
    BY DEF Typed
  <2>3. x \in WorkerTypes /\ x.pc = "poll" /\ x.task = t /\ (x.stopping => proc.root)
    BY <2>2 DEF WorkerTypes, Busy, Executing, Holding, Working
  <2> HIDE DEF x
  <2>4. t \in Tasks /\ row[t].status # "queued" /\ row[t] \in RowTypes
    BY <1>1 DEF Holding, Working, Busy, Executing, Started, Typed
  <2>5. row' \in [Tasks -> RowTypes]
    BY <2>1, <2>4 DEF Typed, RowTypes
  <2>6. \A u \in Tasks : u # t => row'[u] = row[u]
    BY <2>1 DEF Typed
  <2>7. row'[t].status = row[t].status /\ row'[t].owner = row[t].owner /\ row'[t].kind = row[t].kind
        /\ row'[t].instance = row[t].instance /\ row'[t].attached = row[t].attached /\ ~row'[t].stale
    BY <2>1, <2>4 DEF Typed, RowTypes
  <2>8. ASSUME NEW u \in Tasks PROVE RowKeeps(u) /\ Recorded(u)'
    <3>1. Recorded(u)
      BY DEF Holding
    <3> QED
      BY <1>1, <2>1, <2>6, <2>7, <3>1 DEF RowKeeps, Recorded, Started
  <2>9. NoOrphanRun'
    <3>1. \A u \in Tasks : row'[u].attached = row[u].attached
      BY <2>6, <2>7
    <3> QED
      BY <1>1, <2>1, <2>3, <3>1 DEF NoOrphanRun, Typed
  <2>10. child' \in [Tasks -> {"none", "running", "done", "stopped"}]
    BY <2>1 DEF Typed
  <2>11. worker[w].pc \in Registered \ {"notify"} /\ x.pc \in Registered /\ x.pc # "notify"
    BY <1>1, <2>3 DEF Registered, Executing
  <2>12. \A u \in Tasks :
              /\ row'[u].status = "queued" => row'[u] = row[u]
              /\ row'[u].stale => row[u].stale
              /\ row'[u].status \in Terminal => row[u].status \in Terminal
    BY <2>4, <2>6, <2>7
  <2> QED
    BY <1>1, <2>1, <2>3, <2>5, <2>8, <2>9, <2>10, <2>11, <2>12, ExecutionKeeps
<1> QED
  BY <1>2, <1>3

LEMMA PollKeeps ==
    ASSUME TaskInv, NEW w \in Workers, Poll(w) \/ PollFails(w) \/ Select(w)
    PROVE  TaskInv'
<1>1. UNCHANGED <<row, active, caller, waiter, channel, reaper, told>> /\ worker[w].pc \in {"poll", "select"}
  BY DEF Poll, PollFails, Select
<1>2. {"poll", "select"} \subseteq Executing /\ {"poll", "select"} \subseteq Registered \ {"notify", "attach"}
  BY DEF Registered, Executing
<1>3. CASE Poll(w)
  <2>1. proc' = proc
    BY <1>3 DEF Poll
  <2>2. CASE \E outcome \in {"ok", "error"} : Returned(w, outcome) /\ child' \in {child, Interrupted(worker[w].task)}
    BY <1>1, <1>2, <2>1, <2>2, ReturnKeeps
  <2>3. CASE Go(w, "select") /\ child' = child
    BY <1>1, <1>2, <2>1, <2>3, GoKeeps
  <2> QED
    BY <1>3, <2>2, <2>3 DEF Poll
<1>4. CASE PollFails(w)
  <2>1. proc' \in {proc, [proc EXCEPT !.faults = @ + 1]}
    BY <1>4, FaultTyped DEF PollFails, TaskInv
  <2> QED
    BY <1>1, <1>2, <1>4, <2>1, ReturnKeeps DEF PollFails
<1>5. CASE Select(w)
  <2>1. proc' = proc
    BY <1>5 DEF Select
  <2>2. CASE Returned(w, "error") /\ child' = Interrupted(worker[w].task)
    BY <1>1, <1>2, <2>1, <2>2, ReturnKeeps
  <2>3. CASE Go(w, "poll") /\ child' = child
    BY <1>1, <1>2, <2>1, <2>3, GoKeeps
  <2> QED
    BY <1>5, <2>2, <2>3 DEF Select
<1> QED
  BY <1>3, <1>4, <1>5

LEMMA FinishReadKeeps ==
    ASSUME TaskInv, NEW w \in Workers, FinishRead(w)
    PROVE  TaskInv'
<1> DEFINE t == worker[w].task
           pc == IF row[t].status \in Terminal THEN "notify" ELSE "commit"
           x == [worker[w] EXCEPT !.seen = row[t].status, !.rev = row[t].revision, !.pc = pc]
<1>1. UNCHANGED <<row, child, active, caller, waiter, channel, reaper, told>> /\ worker[w].pc = "finish"
  BY DEF FinishRead
<1>2. {"finish", "wakewaiters", "notify", "commit"} \subseteq Registered
  BY DEF Registered, Finishing
<1>3. CASE Fault /\ Go(w, "wakewaiters")
  <2>1. proc' \in {proc, [proc EXCEPT !.faults = @ + 1]}
    BY <1>3, FaultTyped DEF TaskInv
  <2> QED
    BY <1>1, <1>2, <1>3, <2>1, GoKeeps
<1>4. CASE worker' = [worker EXCEPT ![w] = x] /\ UNCHANGED proc
  <2> USE DEF TaskInv
  <2>1. worker[w] \in WorkerTypes /\ t \in Tasks /\ row[t] \in RowTypes
    BY <1>1 DEF Typed, Holding, Working, Busy, Finishing, Started
  <2>2. row[t].status \in Statuses /\ row[t].revision \in Nat
    BY <2>1 DEF RowTypes
  <2> HIDE DEF t
  <2>3. pc \in {"notify", "commit"} /\ pc \in Busy /\ (pc = "notify" => row[t].status \in Terminal)
    BY DEF Busy, Finishing
  <2> HIDE DEF pc
  <2>4. x \in WorkerTypes /\ x.pc = pc /\ x.task = worker[w].task /\ x.stopping = worker[w].stopping
    BY <2>1, <2>2, <2>3 DEF WorkerTypes
  <2> HIDE DEF x
  <2>5. x.stopping => proc.root
    BY <2>4 DEF Holding, Working
  <2>6. \A u \in Tasks : RowKeeps(u) /\ Recorded(u)'
    BY <1>1, <1>4, RowsRest DEF Holding, Recorded
  <2>7. NoOrphanRun'
    BY <1>1, <1>4 DEF NoOrphanRun, Typed
  <2>8. row' \in [Tasks -> RowTypes] /\ child' \in [Tasks -> {"none", "running", "done", "stopped"}]
    BY <1>1 DEF Typed
  <2>9. worker[w].pc \in Registered \ {"notify"} /\ x.pc \in Registered
    BY <1>1, <1>2, <2>3, <2>4
  <2>10. x.pc = "notify" => row'[x.task].status \in Terminal
    BY <1>1, <2>3, <2>4 DEF t
  <2> QED
    BY <1>1, <1>4, <2>4, <2>5, <2>6, <2>7, <2>8, <2>9, <2>10, ExecutionKeeps
<1> QED
  BY <1>3, <1>4 DEF FinishRead

LEMMA FinishCommitKeeps ==
    ASSUME TaskInv, NEW w \in Workers, FinishCommit(w)
    PROVE  TaskInv'
<1> DEFINE t == worker[w].task
           to == FinalStatus(worker[w].seen, worker[w].stopping, worker[w].outcome)
           x == [worker[w] EXCEPT !.pc = "notify"]
<1>1. UNCHANGED <<child, active, caller, waiter, channel, reaper, told>> /\ worker[w].pc = "commit"
  BY DEF FinishCommit
<1>2. {"commit", "recheck", "notify"} \subseteq Registered \cap Busy
  BY DEF Registered, Busy, Finishing
<1>3. CASE Go(w, "recheck") /\ UNCHANGED row /\ proc' \in {proc, [proc EXCEPT !.faults = @ + 1]}
  BY <1>1, <1>2, <1>3, GoKeeps
<1>4. CASE /\ CanTransition(t, worker[w].rev, to)
           /\ row' = [row EXCEPT ![t] = Ended(@, to)] /\ Go(w, "notify") /\ UNCHANGED proc
  <2> USE DEF TaskInv
  <2>1. worker[w] \in WorkerTypes /\ t \in Tasks /\ row[t] \in RowTypes
    BY <1>1, <1>2 DEF Typed, Holding, Working, Started
  <2>2. to \in Terminal
    BY DEF FinalStatus, Terminal
  <2>3. row[t].status \in Held
    BY <1>4 DEF CanTransition
  <2> HIDE DEF t, to
  <2>4. row'[t] = Ended(row[t], to) /\ \A u \in Tasks : u # t => row'[u] = row[u]
    BY <1>4, <2>1 DEF Typed
  <2>5. /\ row' \in [Tasks -> RowTypes]
        /\ row'[t].status = to /\ ~row'[t].stale /\ row'[t].owner = row[t].owner
        /\ row'[t].kind = row[t].kind /\ row'[t].attached = row[t].attached
    BY <1>4, <2>1, <2>2, <2>4, EndedTyped DEF Typed
  <2>6. to \notin Held \cup {"none", "queued"}
    BY <2>2 DEF Held, Terminal
  <2>7. row[t].status \notin Terminal \cup {"none", "queued"}
    BY <2>3 DEF Held, Terminal
  <2>8. ASSUME NEW u \in Tasks PROVE RowKeeps(u) /\ Recorded(u)'
    <3>1. Recorded(u)
      BY DEF Holding
    <3>2. CASE u = t
      BY <1>1, <2>3, <2>5, <2>6, <2>7, <3>1, <3>2 DEF RowKeeps, Recorded, Started
    <3>3. CASE u # t
      BY <1>1, <1>4, <2>4, <3>1, <3>3 DEF RowKeeps, Recorded, Started
    <3> QED
      BY <3>2, <3>3
  <2>9. x \in WorkerTypes /\ x.pc = "notify" /\ x.task = worker[w].task /\ x.stopping = worker[w].stopping
    BY <1>2, <2>1 DEF WorkerTypes
  <2>10. worker' = [worker EXCEPT ![w] = x]
    BY <1>4 DEF Go
  <2> HIDE DEF x
  <2>11. x.stopping => proc.root
    BY <2>9 DEF Holding, Working
  <2>12. NoOrphanRun'
    <3>1. \A u \in Tasks : row'[u].attached = row[u].attached
      BY <2>4, <2>5
    <3> QED
      BY <1>1, <2>10, <3>1 DEF NoOrphanRun, Typed
  <2>13. child' \in [Tasks -> {"none", "running", "done", "stopped"}]
    BY <1>1 DEF Typed
  <2>14. worker[w].pc \in Registered \ {"notify"} /\ x.pc \in Registered
    BY <1>1, <1>2, <2>9
  <2>15. x.pc = "notify" => row'[x.task].status \in Terminal
    BY <2>2, <2>5, <2>9 DEF t
  <2>16. \A u \in Tasks :
            /\ row'[u].status = "queued" => row'[u] = row[u]
            /\ row'[u].stale => row[u].stale
            /\ row'[u].status \in Terminal => row[u].status \in Terminal \/ (u = x.task /\ x.pc = "notify")
    BY <2>4, <2>5, <2>6, <2>9 DEF t
  <2> QED
    BY <1>1, <1>4, <2>5, <2>8, <2>9, <2>10, <2>11, <2>12, <2>13, <2>14, <2>15, <2>16, ExecutionKeeps
<1> QED
  BY <1>3, <1>4, FaultTyped DEF FinishCommit, TaskInv

LEMMA FinishRecheckKeeps ==
    ASSUME TaskInv, NEW w \in Workers, FinishRecheck(w)
    PROVE  TaskInv'
<1>1. /\ UNCHANGED <<row, child, proc, active, caller, waiter, channel, reaper, told>>
      /\ worker[w].pc = "recheck"
  BY DEF FinishRecheck
<1>2. {"recheck", "notify", "wakewaiters"} \subseteq Registered
  BY DEF Registered, Finishing
<1>3. CASE row[worker[w].task].status \in Terminal
  BY <1>1, <1>2, <1>3, GoKeeps DEF FinishRecheck
<1>4. CASE row[worker[w].task].status \notin Terminal
  BY <1>1, <1>2, <1>4, GoKeeps DEF FinishRecheck
<1> QED
  BY <1>3, <1>4

-----------------------------------------------------------------------------
(* Steps that leave rows, children and registrations alone.                 *)

\* Workers stay where they are, or idle on; a context may be canceled.
Aside ==
    /\ UNCHANGED <<row, child, active>> /\ ProcKeeps /\ (proc.root => proc'.root)
    /\ \A w \in Workers :
          /\ worker'[w].task = worker[w].task /\ (worker'[w].stopping => worker[w].stopping)
          /\ worker'[w].pc = worker[w].pc \/ {worker[w].pc, worker'[w].pc} \subseteq Idle

LEMMA AsideSteady ==
    ASSUME TaskInv, Aside
    PROVE  Steady /\ Holding' /\ CountersMatch' /\ NoOrphanRun'
<1> USE DEF TaskInv
<1>1. \A t \in Tasks : RowKeeps(t) /\ Recorded(t)'
  BY RowsRest DEF Aside, ProcKeeps, Holding, Recorded
<1>2. ASSUME NEW w \in Workers PROVE WorkerKeeps(w)
  <2>1. Working(w) /\ worker'[w].task = worker[w].task /\ (worker'[w].stopping => worker[w].stopping)
    BY DEF Holding, Aside
  <2>2. CASE worker'[w].pc = worker[w].pc
    BY <2>1, <2>2 DEF WorkerKeeps, Working, Aside
  <2>3. CASE {worker[w].pc, worker'[w].pc} \subseteq Idle
    <3>1. /\ worker[w].pc \notin Busy \cup Registered \cup {"claimed"}
          /\ worker'[w].pc \notin Busy \cup Registered \cup {"claimed", "notify"}
      BY <2>3 DEF Idle, Busy, Registered, Executing, Finishing
    <3> QED
      BY <2>1, <3>1 DEF WorkerKeeps, Working, Aside
  <2> QED
    BY <2>2, <2>3 DEF Aside
<1>3. Steady
  BY <1>1, <1>2 DEF Steady, Aside
<1>4. NoOrphanRun'
  BY DEF NoOrphanRun, Aside, Idle
<1> QED
  BY <1>3, <1>4, SteadyHolds

\* The same when nobody waits, tells or sweeps in the step.
LEMMA AsideKeeps ==
    ASSUME TaskInv, Typed', Aside, NoLostWakeup',
           UNCHANGED <<waiter, channel, reaper, told>>,
           \A k \in Callers :
              /\ caller'[k].task = caller[k].task /\ caller'[k].terminal = caller[k].terminal
              /\ caller'[k].pc \in {"lookup", "tell"} <=> caller[k].pc \in {"lookup", "tell"}
    PROVE  TaskInv'
<1> USE DEF TaskInv
<1>1. Steady /\ Holding' /\ CountersMatch' /\ NoOrphanRun'
  BY AsideSteady
<1>2. Sweeping'
  BY <1>1, SteadySweeps DEF Aside
<1>3. Telling'
  BY DEF Telling, Started, Aside
<1>4. TerminalIsTold' /\ NoLostNotify'
  <2>1. \A t \in Tasks : ToBeTold(t) => ToBeTold(t)'
    BY DEF ToBeTold, Aside, Idle
  <2>2. Announced
    BY <2>1 DEF Announced, Aside, ProcKeeps
  <2> QED
    BY <2>2, AnnouncedKeeps
<1> QED
  BY <1>1, <1>2, <1>3, <1>4 DEF Listening

\* Open, close, and the callers' checks and signals.
LEMMA ManagerKeeps ==
    ASSUME TaskInv, CloseBegin \/ CloseEnd
    PROVE  TaskInv'
<1> USE DEF TaskInv
<1>1. UNCHANGED <<row, child, active, worker, caller, waiter, channel, reaper, told>>
  BY DEF CloseBegin, CloseEnd
<1>2. PICK state \in {"closing", "closed"} : proc' = [proc EXCEPT !.state = state]
  BY DEF CloseBegin, CloseEnd
<1>3. proc \in ProcTypes /\ proc' \in ProcTypes
  BY <1>2 DEF Typed, ProcTypes
<1>4. Typed'
  BY <1>1, <1>3 DEF Typed
<1>5. proc'.state = state /\ proc'.root = proc.root /\ proc'.instance = proc.instance
      /\ proc'.total = proc.total /\ proc'.byAgent = proc.byAgent
  BY <1>2, <1>3 DEF ProcTypes
<1>6. Aside
  BY <1>1, <1>5 DEF Aside, ProcKeeps
<1>7. NoLostWakeup'
  BY <1>5 DEF NoLostWakeup
<1> QED
  BY <1>1, <1>4, <1>6, <1>7, AsideKeeps

LEMMA CloseCancelKeeps ==
    ASSUME TaskInv, CloseCancel
    PROVE  TaskInv'
<1> USE DEF TaskInv
<1>1. UNCHANGED <<row, child, active, caller, waiter, channel, reaper, told>>
      /\ proc' = [proc EXCEPT !.root = TRUE] /\ proc.state = "closing"
      /\ worker' = [w \in Workers |-> Cancelled(worker[w])]
  BY DEF CloseCancel
<1>2. proc \in ProcTypes /\ proc' \in ProcTypes
  BY <1>1 DEF Typed, ProcTypes
<1>3. proc'.state = "closing" /\ proc'.root /\ proc'.instance = proc.instance
      /\ proc'.total = proc.total /\ proc'.byAgent = proc.byAgent
  BY <1>1, <1>2 DEF ProcTypes
<1>4. ASSUME NEW w \in Workers
      PROVE  worker'[w] \in WorkerTypes /\ worker'[w].task = worker[w].task
             /\ worker'[w].stopping = worker[w].stopping /\ worker'[w].pc = worker[w].pc
  BY <1>1 DEF Cancelled, Typed, WorkerTypes
<1>5. Typed'
  BY <1>1, <1>2, <1>4 DEF Typed
<1>6. Aside
  BY <1>1, <1>3, <1>4 DEF Aside, ProcKeeps
<1>7. NoLostWakeup'
  BY <1>3 DEF NoLostWakeup
<1> QED
  BY <1>1, <1>5, <1>6, <1>7, AsideKeeps

LEMMA CallersKeep ==
    ASSUME TaskInv, NEW k \in Callers, SubmitCheck(k) \/ SignalWake(k)
    PROVE  TaskInv'
<1> USE DEF TaskInv
<1>1. UNCHANGED <<row, child, active, worker, waiter, channel, reaper, told>>
      /\ caller[k].pc \in {"idle", "signal"} /\ proc' \in {proc, [proc EXCEPT !.wake = TRUE]}
  BY DEF SubmitCheck, SignalWake
<1>2. proc \in ProcTypes /\ proc' \in ProcTypes
  BY <1>1 DEF Typed, ProcTypes
<1>3. /\ UNCHANGED <<proc.state, proc.root, proc.instance, proc.total, proc.byAgent, proc.limit,
                     proc.perAgent, proc.faults>>
      /\ proc.wake => proc'.wake
      /\ SignalWake(k) => proc'.wake
  BY <1>1, <1>2 DEF ProcTypes, SignalWake
<1>4. caller[k].task = None /\ caller[k].terminal = FALSE /\ caller[k] \in CallerTypes
  BY <1>1 DEF Telling, Typed, CallerTypes
<1>5. caller' \in [Callers -> CallerTypes]
      /\ caller'[k].task = None /\ caller'[k].terminal = FALSE /\ caller'[k].pc \in {"create", "idle"}
      /\ \A j \in Callers : j # k => caller'[j] = caller[j]
  <2>1. CASE SubmitCheck(k)
    <3>1. caller' = [caller EXCEPT ![k] = [caller[k] EXCEPT !.pc = "create"]]
      BY <2>1 DEF SubmitCheck
    <3>2. [caller[k] EXCEPT !.pc = "create"] \in CallerTypes
      BY <1>4 DEF CallerTypes
    <3> QED
      BY <1>4, <3>1, <3>2 DEF Typed, CallerTypes
  <2>2. CASE SignalWake(k)
    <3>1. NoCall \in CallerTypes
      BY DEF NoCall, CallerTypes
    <3> QED
      BY <2>2, <3>1 DEF SignalWake, Typed, NoCall
  <2> QED
    BY <2>1, <2>2
<1>6. Typed'
  BY <1>1, <1>2, <1>5 DEF Typed
<1>7. Aside
  BY <1>1, <1>3 DEF Aside, ProcKeeps, Holding, Fresh
<1>8. NoLostWakeup'
  <2>1. CASE SignalWake(k)
    BY <1>3, <2>1 DEF NoLostWakeup
  <2>2. CASE SubmitCheck(k)
    <3>1. Calm
      BY <1>1, <1>3, <1>5, <2>2 DEF Calm, SubmitCheck
    <3> QED
      BY <3>1, CalmKeeps
  <2> QED
    BY <2>1, <2>2
<1>9. \A j \in Callers :
              /\ caller'[j].task = caller[j].task /\ caller'[j].terminal = caller[j].terminal
              /\ caller'[j].pc \in {"lookup", "tell"} <=> caller[j].pc \in {"lookup", "tell"}
  BY <1>1, <1>4, <1>5 DEF Typed, CallerTypes
<1> QED
  BY <1>1, <1>6, <1>7, <1>8, <1>9, AsideKeeps

LEMMA CancelActiveKeeps ==
    ASSUME TaskInv, NEW k \in Callers, CancelActive(k)
    PROVE  TaskInv'
<1> USE DEF TaskInv
<1>1. UNCHANGED <<row, child, proc, active, waiter, channel, reaper, told>> /\ caller[k].pc = "lookup"
      /\ caller' = [caller EXCEPT ![k] = [caller[k] EXCEPT !.pc = "tell"]]
  BY DEF CancelActive
<1>2. caller[k] \in CallerTypes /\ caller[k].task \in Tasks
  BY <1>1 DEF Typed, CallerTypes, Telling
<1>3. [caller[k] EXCEPT !.pc = "tell"] \in CallerTypes
  BY <1>2 DEF CallerTypes
<1>4. caller' \in [Callers -> CallerTypes]
      /\ caller'[k].task = caller[k].task /\ caller'[k].terminal = caller[k].terminal
      /\ caller'[k].pc = "tell" /\ \A j \in Callers : j # k => caller'[j] = caller[j]
  BY <1>1, <1>2, <1>3 DEF Typed, CallerTypes
<1>5. worker' = worker \/ \E w \in Workers : worker' = [worker EXCEPT ![w] = Cancelled(worker[w])]
  <2>1. active[caller[k].task] \in Workers \cup {None}
    BY <1>2 DEF Typed
  <2>2. CASE active[caller[k].task] = None
    BY <2>2 DEF CancelActive
  <2>3. CASE active[caller[k].task] # None
    BY <2>1, <2>3 DEF CancelActive
  <2> QED
    BY <2>2, <2>3
<1>6. ASSUME NEW w \in Workers
      PROVE  worker'[w] \in WorkerTypes /\ worker'[w].task = worker[w].task
             /\ worker'[w].stopping = worker[w].stopping /\ worker'[w].pc = worker[w].pc
  <2>1. worker[w] \in WorkerTypes
    BY DEF Typed
  <2>2. worker'[w] \in {worker[w], Cancelled(worker[w])}
    BY <1>5 DEF Typed
  <2> QED
    BY <2>1, <2>2 DEF Cancelled, WorkerTypes
<1>7. worker' \in [Workers -> WorkerTypes]
  BY <1>5, <1>6 DEF Typed
<1>8. Typed'
  BY <1>1, <1>4, <1>7 DEF Typed
<1>9. Aside
  BY <1>1, <1>6 DEF Aside, ProcKeeps, Holding, Fresh
<1>10. NoLostWakeup'
  <2>1. Calm
    BY <1>1, <1>4, <1>6 DEF Calm
  <2> QED
    BY <2>1, CalmKeeps
<1> QED
  BY <1>1, <1>4, <1>8, <1>9, <1>10, AsideKeeps

LEMMA SettingsKeep ==
    ASSUME TaskInv, NEW k \in Callers, NEW n \in Limits, NEW m \in AgentLimits, UpdateSettings(k, n, m)
    PROVE  TaskInv'
<1> USE DEF TaskInv
<1>1. UNCHANGED <<row, child, active, waiter, channel, reaper, told>> /\ caller[k].pc = "idle"
      /\ caller' = [caller EXCEPT ![k] = [caller[k] EXCEPT !.pc = "signal"]]
      /\ proc' = [proc EXCEPT !.limit = n, !.perAgent = m, !.settings = @ + 1]
  BY DEF UpdateSettings
<1>2. caller[k] \in CallerTypes
  BY DEF Typed
<1>3. [caller[k] EXCEPT !.pc = "signal"] \in CallerTypes
  BY <1>2 DEF CallerTypes
<1>4. caller' \in [Callers -> CallerTypes]
      /\ caller'[k].task = caller[k].task /\ caller'[k].terminal = caller[k].terminal
      /\ caller'[k].pc = "signal" /\ \A j \in Callers : j # k => caller'[j] = caller[j]
  BY <1>1, <1>2, <1>3 DEF Typed, CallerTypes
<1>5. proc' \in ProcTypes /\ UNCHANGED <<proc.state, proc.root, proc.instance, proc.total, proc.byAgent>>
  <2>1. n \in Nat /\ m \in Nat
    BY BoundsAssumption
  <2>2. proc \in ProcTypes
    BY DEF Typed
  <2>3. proc.settings + 1 \in Nat
    BY <2>2 DEF ProcTypes
  <2> QED
    BY <1>1, <2>1, <2>2, <2>3 DEF ProcTypes
<1>6. ASSUME NEW w \in Workers
      PROVE  worker'[w] = worker[w] \/ (worker[w].pc = "off" /\ worker'[w] = [Off EXCEPT !.pc = "loop"])
  BY DEF UpdateSettings, Typed
<1>7. worker' \in [Workers -> WorkerTypes]
  <2>1. [Off EXCEPT !.pc = "loop"] \in WorkerTypes
    BY DEF Off, WorkerTypes, Idle, Statuses
  <2>2. worker' = worker \/ \E more \in SUBSET Workers :
           worker' = [w \in Workers |-> IF w \in more THEN [Off EXCEPT !.pc = "loop"] ELSE worker[w]]
    BY DEF UpdateSettings
  <2> QED
    BY <2>1, <2>2 DEF Typed
<1>8. Typed'
  BY <1>1, <1>4, <1>5, <1>7 DEF Typed
<1>9. Aside
  <2>1. ASSUME NEW w \in Workers
        PROVE  /\ worker'[w].task = worker[w].task /\ (worker'[w].stopping => worker[w].stopping)
               /\ worker'[w].pc = worker[w].pc \/ {worker[w].pc, worker'[w].pc} \subseteq Idle
    <3>1. CASE worker[w].pc = "off" /\ worker'[w] = [Off EXCEPT !.pc = "loop"]
      <4>1. worker[w].task = None
        BY <3>1 DEF Holding, Working, Busy, Executing, Finishing
      <4> QED
        BY <3>1, <4>1 DEF Off, Idle
    <3> QED
      BY <1>6, <3>1
  <2> QED
    BY <1>1, <1>5, <2>1 DEF Aside, ProcKeeps, Holding, Fresh
<1>10. NoLostWakeup'
  BY <1>4 DEF NoLostWakeup
<1> QED
  BY <1>1, <1>4, <1>8, <1>9, <1>10, AsideKeeps

\* A worker without a task: it leaves, or goes to and fro between the queue and
\* its wait.
LEMMA IdleKeeps ==
    ASSUME TaskInv, NEW w \in Workers, Exit(w) \/ ClaimFails(w) \/ TakeWake(w) \/ PollTimer(w)
    PROVE  TaskInv'
<1> USE DEF TaskInv
<1>1. UNCHANGED <<row, child, active, caller, waiter, channel, reaper, told>> /\ worker[w].pc \in {"loop", "wait"}
  BY DEF Exit, ClaimFails, TakeWake, PollTimer
<1>2. worker[w] \in WorkerTypes /\ worker[w].task = None
  BY <1>1 DEF Typed, Holding, Working, Busy, Executing, Finishing
<1>3. PICK x : /\ x \in {Off, [worker[w] EXCEPT !.pc = "wait"], [worker[w] EXCEPT !.pc = "loop"]}
               /\ worker' = [worker EXCEPT ![w] = x]
  <2>1. CASE Exit(w)
    BY <2>1 DEF Exit
  <2>2. CASE ClaimFails(w)
    BY <2>2 DEF ClaimFails, Go
  <2>3. CASE TakeWake(w) \/ PollTimer(w)
    BY <2>3 DEF TakeWake, PollTimer, Go
  <2> QED
    BY <2>1, <2>2, <2>3
<1>4. x \in WorkerTypes /\ x.task = None /\ (x.stopping => worker[w].stopping) /\ x.pc \in Idle
  <2>1. CASE x = Off
    BY <2>1 DEF Off, WorkerTypes, Idle, Statuses
  <2>2. CASE x = [worker[w] EXCEPT !.pc = "wait"]
    BY <1>2, <2>2 DEF WorkerTypes, Idle
  <2>3. CASE x = [worker[w] EXCEPT !.pc = "loop"]
    BY <1>2, <2>3 DEF WorkerTypes, Idle
  <2> QED
    BY <1>3, <2>1, <2>2, <2>3
<1>5. worker' \in [Workers -> WorkerTypes] /\ worker'[w] = x /\ \A v \in Workers : v # w => worker'[v] = worker[v]
  BY <1>3, <1>4 DEF Typed
<1>6. proc' \in ProcTypes
      /\ UNCHANGED <<proc.state, proc.root, proc.instance, proc.total, proc.byAgent, proc.limit, proc.perAgent>>
      /\ (proc'.faults = 0 => proc.faults = 0)
  <2>1. proc \in ProcTypes /\ proc.faults + 1 \in Nat
    BY DEF Typed, ProcTypes
  <2>2. proc' \in {proc, [proc EXCEPT !.faults = @ + 1], [proc EXCEPT !.wake = FALSE]}
    BY FaultTyped DEF Exit, ClaimFails, TakeWake, PollTimer
  <2>3. CASE proc' = proc
    BY <2>1, <2>3
  <2>4. CASE proc' = [proc EXCEPT !.faults = @ + 1]
    BY <2>1, <2>4 DEF ProcTypes
  <2>5. CASE proc' = [proc EXCEPT !.wake = FALSE]
    BY <2>1, <2>5 DEF ProcTypes
  <2> QED
    BY <2>2, <2>3, <2>4, <2>5
<1>7. Typed'
  BY <1>1, <1>5, <1>6 DEF Typed
<1>8. Aside
  BY <1>1, <1>2, <1>4, <1>5, <1>6 DEF Aside, ProcKeeps, Holding, Fresh, Idle
<1>9. NoLostWakeup'
  <2>1. CASE Exit(w)
    BY <1>6, <2>1 DEF Exit, NoLostWakeup
  <2>2. CASE ClaimFails(w)
    <3>1. proc'.faults = proc.faults + 1 /\ proc.faults \in Nat
      BY <2>2, FaultTyped DEF ClaimFails, Typed, ProcTypes
    <3> QED
      BY <3>1 DEF NoLostWakeup
  <2>3. CASE TakeWake(w) \/ PollTimer(w)
    <3>1. worker'[w].pc = "loop"
      BY <1>2, <2>3 DEF TakeWake, PollTimer, Go, Typed, WorkerTypes
    <3> QED
      BY <3>1 DEF NoLostWakeup
  <2> QED
    BY <2>1, <2>2, <2>3
<1> QED
  BY <1>1, <1>7, <1>8, <1>9, AsideKeeps

-----------------------------------------------------------------------------
(* Those who tell.                                                          *)

\* Whoever waits on the channel is woken.
LEMMA NotifyWakes ==
    ASSUME Typed, Listening, NEW t \in Tasks, Notify(t)
    PROVE  /\ waiter' \in [Waiters -> WaiterTypes] /\ channel' \in [Tasks -> SUBSET Waiters]
           /\ Listening'
           /\ \A k \in Waiters :
                 /\ waiter'[k].pc = waiter[k].pc /\ waiter'[k].task = waiter[k].task
                 /\ waiter[k].woken => waiter'[k].woken
                 /\ waiter[k].pc = "blocked" /\ waiter[k].task = t => waiter'[k].woken
<1>1. ASSUME NEW k \in Waiters
      PROVE  /\ waiter'[k] \in WaiterTypes
             /\ waiter'[k].pc = waiter[k].pc /\ waiter'[k].task = waiter[k].task
             /\ waiter[k].woken => waiter'[k].woken
             /\ k \in channel[t] => waiter'[k].woken
  <2>1. waiter[k] \in WaiterTypes
    BY DEF Typed
  <2>2. CASE k \in channel[t]
    <3>1. waiter'[k] = [waiter[k] EXCEPT !.woken = TRUE]
      BY <2>2 DEF Notify
    <3> QED
      BY <2>1, <3>1 DEF WaiterTypes
  <2>3. CASE k \notin channel[t]
    <3>1. waiter'[k] = waiter[k]
      BY <2>3 DEF Notify
    <3> QED
      BY <2>1, <2>3, <3>1
  <2> QED
    BY <2>2, <2>3
<1>2. waiter' \in [Waiters -> WaiterTypes]
  BY <1>1 DEF Notify
<1>3. channel' \in [Tasks -> SUBSET Waiters] /\ \A u \in Tasks : u # t => channel'[u] = channel[u]
  BY DEF Notify, Typed
<1>4. ASSUME NEW k \in Waiters
      PROVE  /\ waiter'[k].pc # "idle" => waiter'[k].task # None
             /\ waiter'[k].pc \in {"read", "blocked"} => waiter'[k].woken \/ k \in channel'[waiter'[k].task]
             /\ waiter[k].pc = "blocked" /\ waiter[k].task = t => waiter'[k].woken
  <2>1. waiter[k].pc # "idle" => waiter[k].task \in Tasks
    BY DEF Listening, Typed, WaiterTypes
  <2>2. waiter[k].pc \in {"read", "blocked"} => waiter[k].woken \/ k \in channel[waiter[k].task]
    BY DEF Listening
  <2>3. waiter'[k].pc = waiter[k].pc /\ waiter'[k].task = waiter[k].task
    BY <1>1
  <2>4. waiter[k].woken => waiter'[k].woken
    BY <1>1
  <2>5. waiter[k].task = t /\ k \in channel[waiter[k].task] => waiter'[k].woken
    BY <1>1
  <2>6. waiter[k].task \in Tasks /\ waiter[k].task # t => channel'[waiter[k].task] = channel[waiter[k].task]
    BY <1>3
  <2>7. waiter'[k].pc # "idle" => waiter'[k].task # None
    BY <2>3 DEF Listening
  <2>8. ASSUME waiter[k].pc \in {"read", "blocked"}
        PROVE  /\ waiter'[k].woken \/ k \in channel'[waiter'[k].task]
               /\ waiter[k].task = t => waiter'[k].woken
    <3>1. waiter[k].task \in Tasks /\ (waiter[k].woken \/ k \in channel[waiter[k].task])
      BY <2>1, <2>2, <2>8
    <3>2. CASE waiter[k].woken
      BY <2>4, <3>2
    <3>3. CASE k \in channel[waiter[k].task] /\ waiter[k].task = t
      BY <2>5, <3>3
    <3>4. CASE k \in channel[waiter[k].task] /\ waiter[k].task # t
      BY <2>3, <2>6, <3>1, <3>4
    <3> QED
      BY <3>1, <3>2, <3>3, <3>4
  <2> QED
    BY <2>3, <2>7, <2>8
<1>5. Listening'
  BY <1>4 DEF Listening
<1> QED
  BY <1>1, <1>2, <1>3, <1>4, <1>5

LEMMA TellKeeps ==
    ASSUME TaskInv, NEW t \in Tasks, Notify(t), UNCHANGED row, proc'.instance = proc.instance,
           told' \in SUBSET Tasks, told \subseteq told',
           \A u \in Tasks : ToBeTold(u) => ToBeTold(u)' \/ (u = t /\ t \in told')
    PROVE  TerminalIsTold' /\ NoLostNotify'
<1> USE DEF TaskInv
<1>1. TerminalIsTold'
  BY DEF TerminalIsTold
<1>2. ASSUME NEW k \in Waiters, waiter'[k].pc = "blocked", row[waiter'[k].task].status \in Terminal
      PROVE  waiter'[k].woken \/ ToBeTold(waiter[k].task)'
  <2>1. waiter[k].pc = "blocked" /\ waiter'[k].task = waiter[k].task /\ waiter[k].task \in Tasks
    BY <1>2, NotifyWakes DEF Listening, Typed, WaiterTypes
  <2>2. PICK u \in Tasks : u = waiter[k].task
    BY <2>1
  <2>3. waiter[k].woken \/ ToBeTold(u)
    BY <1>2, <2>1, <2>2 DEF NoLostNotify
  <2>4. waiter[k].woken => waiter'[k].woken
    BY NotifyWakes
  <2>5. u = t => waiter'[k].woken
    BY <2>1, <2>2, NotifyWakes
  <2>6. ToBeTold(u) /\ u # t => ToBeTold(u)'
    OBVIOUS
  <2>7. ToBeTold(u)' => ToBeTold(waiter[k].task)'
    BY <2>1, <2>2 DEF ToBeTold
  <2> QED
    BY <2>3, <2>4, <2>5, <2>6, <2>7
<1>3. NoLostNotify'
  BY <1>2 DEF NoLostNotify
<1> QED
  BY <1>1, <1>3

LEMMA CancelTellKeeps ==
    ASSUME TaskInv, NEW k \in Callers, CancelTell(k)
    PROVE  TaskInv'
<1> DEFINE t == caller[k].task
<1> USE DEF TaskInv
<1>1. UNCHANGED <<row, child, proc, active, worker, reaper>> /\ caller[k].pc = "tell" /\ Notify(t)
      /\ told' = (IF caller[k].terminal THEN told \cup {t} ELSE told) /\ caller' = [caller EXCEPT ![k] = NoCall]
  BY DEF CancelTell, NotifyTerminal
<1>2. t \in Tasks /\ (caller[k].terminal => row[t].status \in Terminal)
  BY <1>1 DEF Telling, Typed, CallerTypes
<1>3. caller' \in [Callers -> CallerTypes] /\ caller'[k] = NoCall
      /\ \A j \in Callers : j # k => caller'[j] = caller[j]
  BY <1>1 DEF Typed, CallerTypes, NoCall
<1>4. told' \in SUBSET Tasks /\ told \subseteq told'
  BY <1>1, <1>2 DEF Typed
<1> HIDE DEF t
<1>5. waiter' \in [Waiters -> WaiterTypes] /\ channel' \in [Tasks -> SUBSET Waiters] /\ Listening'
      /\ \A j \in Waiters : waiter'[j].pc = waiter[j].pc
  BY <1>1, <1>2, NotifyWakes
<1>6. Typed'
  BY <1>1, <1>3, <1>4, <1>5 DEF Typed
<1>7. Aside
  BY <1>1, <1>5 DEF Aside, ProcKeeps, Holding, Fresh
<1>8. Steady /\ Holding' /\ CountersMatch' /\ NoOrphanRun'
  BY <1>7, AsideSteady
<1>9. Sweeping'
  BY <1>1, <1>8, SteadySweeps
<1>10. NoLostWakeup'
  <2>1. Calm
    BY <1>1, <1>3 DEF Calm
  <2> QED
    BY <2>1, CalmKeeps
<1>11. Telling'
  <2>1. \A u \in told' : row[u].status \in Terminal
    BY <1>1, <1>2 DEF Telling
  <2> QED
    BY <1>1, <1>3, <2>1 DEF Telling, NoCall, Started
<1>12. TerminalIsTold' /\ NoLostNotify'
  <2>1. ASSUME NEW u \in Tasks, ToBeTold(u) PROVE ToBeTold(u)' \/ (u = t /\ t \in told')
    <3>1. CASE \E j \in Callers : caller[j].task = u /\ caller[j].terminal
      BY <1>1, <1>3, <3>1 DEF ToBeTold, t
    <3>2. CASE ~\E j \in Callers : caller[j].task = u /\ caller[j].terminal
      BY <1>1, <2>1, <3>2 DEF ToBeTold
    <3> QED
      BY <3>1, <3>2
  <2> QED
    BY <1>1, <1>2, <1>4, <2>1, TellKeeps
<1> QED
  BY <1>5, <1>6, <1>8, <1>9, <1>10, <1>11, <1>12

LEMMA FinishNotifyKeeps ==
    ASSUME TaskInv, NEW w \in Workers, FinishNotify(w)
    PROVE  TaskInv'
<1> DEFINE t == worker[w].task
           x == [Off EXCEPT !.pc = "cleanup", !.task = t]
<1> USE DEF TaskInv
<1>1. /\ UNCHANGED <<row, child, proc, active, caller, reaper>> /\ worker[w].pc \in {"notify", "wakewaiters"}
      /\ Notify(t) /\ worker' = [worker EXCEPT ![w] = x]
      /\ told' = (IF worker[w].pc = "notify" THEN told \cup {t} ELSE told)
  BY DEF FinishNotify, NotifyTerminal
<1>2. t \in Tasks /\ (worker[w].pc = "notify" => row[t].status \in Terminal)
  BY <1>1 DEF Holding, Working, Busy, Finishing, Started
<1>3. x \in WorkerTypes /\ x.pc = "cleanup" /\ x.task = t /\ ~x.stopping
  BY <1>2 DEF Off, WorkerTypes, Busy, Statuses
<1> HIDE DEF x
<1>4. worker' \in [Workers -> WorkerTypes] /\ worker'[w] = x /\ \A v \in Workers : v # w => worker'[v] = worker[v]
  BY <1>1, <1>3 DEF Typed
<1>5. told' \in SUBSET Tasks /\ told \subseteq told'
  BY <1>1, <1>2 DEF Typed
<1>6. waiter' \in [Waiters -> WaiterTypes] /\ channel' \in [Tasks -> SUBSET Waiters] /\ Listening'
      /\ \A j \in Waiters : waiter'[j].pc = waiter[j].pc
  BY <1>1, <1>2, NotifyWakes
<1>7. Typed'
  BY <1>1, <1>4, <1>5, <1>6 DEF Typed
<1>8. Steady
  <2>1. \A u \in Tasks : RowKeeps(u) /\ Recorded(u)'
    BY <1>1, RowsRest DEF Holding, Recorded
  <2>2. ASSUME NEW v \in Workers PROVE WorkerKeeps(v)
    <3>1. CASE v = w
      <4>1. worker[w].pc \in Busy \cap Registered /\ x.pc \in Busy \cap Registered
        BY <1>1, <1>3 DEF Busy, Registered, Finishing
      <4> QED
        BY <1>1, <1>3, <1>4, <3>1, <4>1 DEF WorkerKeeps
    <3>2. CASE v # w
      BY <1>1, <1>4, <3>2 DEF WorkerKeeps, Holding, Working
    <3> QED
      BY <3>1, <3>2
  <2> QED
    BY <1>1, <1>6, <2>1, <2>2 DEF Steady, ProcKeeps, Holding, Fresh
<1>9. Holding' /\ CountersMatch' /\ Sweeping'
  BY <1>1, <1>8, SteadyHolds, SteadySweeps
<1>10. NoOrphanRun'
  BY <1>1, <1>4 DEF NoOrphanRun
<1>11. NoLostWakeup'
  <2>1. Calm
    BY <1>1, <1>4 DEF Calm
  <2> QED
    BY <2>1, CalmKeeps
<1>12. Telling'
  <2>1. \A u \in told' : row[u].status \in Terminal
    BY <1>1, <1>2 DEF Telling
  <2> QED
    BY <1>1, <2>1 DEF Telling, Started
<1>13. TerminalIsTold' /\ NoLostNotify'
  <2>1. ASSUME NEW u \in Tasks, ToBeTold(u) PROVE ToBeTold(u)' \/ (u = t /\ t \in told')
    <3>1. CASE \E v \in Workers : worker[v].task = u /\ worker[v].pc = "notify"
      BY <1>1, <1>4, <3>1 DEF ToBeTold
    <3>2. CASE ~\E v \in Workers : worker[v].task = u /\ worker[v].pc = "notify"
      BY <1>1, <2>1, <3>2 DEF ToBeTold
    <3> QED
      BY <3>1, <3>2
  <2> QED
    BY <1>1, <1>2, <1>5, <2>1, TellKeeps
<1> QED
  BY <1>6, <1>7, <1>9, <1>10, <1>11, <1>12, <1>13

-----------------------------------------------------------------------------
(* Those who wait.                                                          *)

\* Only the waiters and their channels move.
LEMMA WaitingKeeps ==
    ASSUME TaskInv, UNCHANGED <<row, child, proc, active, worker, caller, reaper, told>>,
           waiter' \in [Waiters -> WaiterTypes], channel' \in [Tasks -> SUBSET Waiters],
           Listening', NoLostNotify', proc.state # "new"
    PROVE  TaskInv'
<1> USE DEF TaskInv
<1>1. Typed'
  BY DEF Typed
<1>2. Aside
  BY DEF Aside, ProcKeeps
<1>3. Steady /\ Holding' /\ CountersMatch' /\ NoOrphanRun'
  BY <1>2, AsideSteady
<1>4. Sweeping' /\ Telling'
  BY <1>3, SteadySweeps, SteadyTells
<1>5. NoLostWakeup'
  BY CalmKeeps DEF Calm
<1>6. TerminalIsTold'
  BY DEF TerminalIsTold, ToBeTold
<1> QED
  BY <1>1, <1>3, <1>4, <1>5, <1>6

\* One waiter moves; if it blocks, it has just seen that its task goes on, or
\* it had blocked before.
LEMMA OneWaits ==
    ASSUME TaskInv, NEW k \in Waiters, NEW x \in WaiterTypes,
           UNCHANGED <<row, child, proc, active, worker, caller, reaper, told>>,
           waiter' = [waiter EXCEPT ![k] = x], channel' \in [Tasks -> SUBSET Waiters],
           \A j \in Waiters \ {k}, t \in Tasks : j \in channel[t] => j \in channel'[t],
           x.pc # "idle" => x.task # None,
           x.pc \in {"read", "blocked"} => x.woken \/ k \in channel'[x.task],
           x.pc = "blocked" => row[x.task].status \notin Terminal,
           proc.state # "new"
    PROVE  TaskInv'
<1> USE DEF TaskInv
<1>1. waiter' \in [Waiters -> WaiterTypes] /\ waiter'[k] = x /\ \A j \in Waiters : j # k => waiter'[j] = waiter[j]
  BY DEF Typed
<1>2. ASSUME NEW j \in Waiters
      PROVE  /\ waiter'[j].pc # "idle" => waiter'[j].task # None
             /\ waiter'[j].pc \in {"read", "blocked"} => waiter'[j].woken \/ j \in channel'[waiter'[j].task]
  <2>1. CASE j = k
    BY <1>1, <2>1
  <2>2. CASE j # k
    <3>1. waiter[j].pc # "idle" => waiter[j].task \in Tasks /\ waiter[j].task # None
      BY DEF Listening, Typed, WaiterTypes
    <3>2. waiter[j].pc \in {"read", "blocked"} => waiter[j].woken \/ j \in channel[waiter[j].task]
      BY DEF Listening
    <3>3. \A t \in Tasks : j \in channel[t] => j \in channel'[t]
      BY <2>2
    <3>4. waiter'[j] = waiter[j]
      BY <1>1, <2>2
    <3>5. waiter[j].pc \in {"read", "blocked"} => waiter[j].woken \/ j \in channel'[waiter[j].task]
      BY <3>1, <3>2, <3>3
    <3> QED
      BY <3>1, <3>4, <3>5
  <2> QED
    BY <2>1, <2>2
<1>3. Listening'
  BY <1>2 DEF Listening
<1>4. ASSUME NEW j \in Waiters, waiter'[j].pc = "blocked", row[waiter'[j].task].status \in Terminal
      PROVE  waiter'[j].woken \/ ToBeTold(waiter[j].task)'
  <2>1. j # k
    BY <1>1, <1>4
  <2>2. waiter'[j] = waiter[j]
    BY <1>1, <2>1
  <2>3. waiter[j].woken \/ ToBeTold(waiter[j].task)
    BY <1>4, <2>2 DEF NoLostNotify
  <2>4. ToBeTold(waiter[j].task) => ToBeTold(waiter[j].task)'
    BY <2>2 DEF ToBeTold
  <2> QED
    BY <2>2, <2>3, <2>4
<1>5. NoLostNotify'
  BY <1>4 DEF NoLostNotify
<1> QED
  BY <1>1, <1>3, <1>5, WaitingKeeps

LEMMA WaitersKeep ==
    ASSUME TaskInv, NEW k \in Waiters, WaitWake(k) \/ WaitTimer(k) \/ WaitLeave(k)
    PROVE  TaskInv'
<1> USE DEF TaskInv
<1>1. UNCHANGED <<row, child, proc, active, worker, caller, reaper, told>> /\ waiter[k].pc = "blocked"
  BY DEF WaitWake, WaitTimer, WaitLeave
<1>2. proc.state # "new" /\ waiter[k] \in WaiterTypes /\ waiter[k].task \in Tasks
  BY <1>1 DEF Holding, Fresh, Listening, Typed, WaiterTypes
<1>3. CASE WaitLeave(k)
  <2>1. NoWait \in WaiterTypes /\ NoWait.pc = "idle"
    BY DEF NoWait, WaiterTypes
  <2>2. waiter' = [waiter EXCEPT ![k] = NoWait]
        /\ channel' = [channel EXCEPT ![waiter[k].task] = channel[waiter[k].task] \ {k}]
    BY <1>3 DEF WaitLeave
  <2>3. channel' \in [Tasks -> SUBSET Waiters]
        /\ \A j \in Waiters \ {k}, t \in Tasks : j \in channel[t] => j \in channel'[t]
    BY <1>2, <2>2 DEF Typed
  <2> QED
    BY <1>1, <1>2, <2>1, <2>2, <2>3, OneWaits
<1>4. CASE WaitWake(k) \/ WaitTimer(k)
  <2> DEFINE x == [waiter[k] EXCEPT !.pc = "again"]
  <2>1. waiter' = [waiter EXCEPT ![k] = x] /\ channel' = channel
    BY <1>4 DEF WaitWake, WaitTimer
  <2>2. x \in WaiterTypes /\ x.pc = "again" /\ x.task # None
    BY <1>2 DEF WaiterTypes, Tasks, None
  <2> HIDE DEF x
  <2>3. channel' \in [Tasks -> SUBSET Waiters]
    BY <2>1 DEF Typed
  <2> QED
    BY <1>1, <1>2, <2>1, <2>2, <2>3, OneWaits
<1> QED
  BY <1>3, <1>4

LEMMA WaitRegisterKeeps ==
    ASSUME TaskInv, NEW k \in Waiters, NEW t \in Tasks, WaitRegister(k, t)
    PROVE  TaskInv'
<1> DEFINE x == [pc |-> "read", task |-> t, woken |-> FALSE]
<1> USE DEF TaskInv
<1>1. UNCHANGED <<row, child, proc, active, worker, caller, reaper, told>> /\ proc.state # "new"
      /\ waiter' = [waiter EXCEPT ![k] = x] /\ channel' = [channel EXCEPT ![t] = channel[t] \cup {k}]
  BY DEF WaitRegister
<1>2. x \in WaiterTypes /\ x.pc = "read" /\ x.task = t /\ x.task # None
  BY DEF WaiterTypes, Tasks, None
<1> HIDE DEF x
<1>3. channel' \in [Tasks -> SUBSET Waiters] /\ k \in channel'[t]
      /\ \A j \in Waiters \ {k}, u \in Tasks : j \in channel[u] => j \in channel'[u]
  BY <1>1 DEF Typed
<1> QED
  BY <1>1, <1>2, <1>3, OneWaits

LEMMA WaitReadKeeps ==
    ASSUME TaskInv, NEW k \in Waiters, WaitRead(k)
    PROVE  TaskInv'
<1> DEFINE t == waiter[k].task
<1> USE DEF TaskInv
<1>1. UNCHANGED <<row, child, proc, active, worker, caller, reaper, told>> /\ waiter[k].pc = "read"
  BY DEF WaitRead
<1>2. proc.state # "new" /\ waiter[k] \in WaiterTypes /\ t \in Tasks /\ t # None
  BY <1>1 DEF Holding, Fresh, Listening, Typed, WaiterTypes
<1>3. CASE row[t].status \notin Terminal /\ waiter' = [waiter EXCEPT ![k].pc = "blocked"] /\ UNCHANGED channel
  <2> DEFINE x == [waiter[k] EXCEPT !.pc = "blocked"]
  <2>1. waiter' = [waiter EXCEPT ![k] = x]
    BY <1>3
  <2>2. x \in WaiterTypes /\ x.pc = "blocked" /\ x.task = t /\ x.woken = waiter[k].woken
    BY <1>2 DEF WaiterTypes
  <2> HIDE DEF x
  <2>3. waiter[k].woken \/ k \in channel[t]
    BY <1>1 DEF Listening
  <2>4. x.woken \/ k \in channel'[x.task]
    BY <1>3, <2>2, <2>3
  <2>5. channel' \in [Tasks -> SUBSET Waiters]
    BY <1>3 DEF Typed
  <2> QED
    BY <1>1, <1>2, <1>3, <2>1, <2>2, <2>4, <2>5, OneWaits
<1>4. CASE /\ channel' = [channel EXCEPT ![t] = {}]
           /\ waiter' = [j \in Waiters |-> IF j = k THEN NoWait
                                           ELSE IF j \in channel[t] THEN [waiter[j] EXCEPT !.woken = TRUE]
                                           ELSE waiter[j]]
  <2>1. channel' \in [Tasks -> SUBSET Waiters] /\ \A u \in Tasks : u # t => channel'[u] = channel[u]
    BY <1>4 DEF Typed
  <2>2. ASSUME NEW j \in Waiters
        PROVE  /\ waiter'[j] \in WaiterTypes
               /\ j = k => waiter'[j].pc = "idle"
               /\ j # k => waiter'[j].pc = waiter[j].pc /\ waiter'[j].task = waiter[j].task
               /\ j # k => (waiter[j].woken \/ j \in channel[t] => waiter'[j].woken)
    <3>1. waiter[j] \in WaiterTypes /\ NoWait \in WaiterTypes /\ NoWait.pc = "idle"
      BY DEF Typed, NoWait, WaiterTypes
    <3>2. CASE j = k
      BY <1>4, <3>1, <3>2
    <3>3. CASE j # k /\ j \in channel[t]
      <4>1. waiter'[j] = [waiter[j] EXCEPT !.woken = TRUE]
        BY <1>4, <3>3
      <4> QED
        BY <3>1, <3>3, <4>1 DEF WaiterTypes
    <3>4. CASE j # k /\ j \notin channel[t]
      <4>1. waiter'[j] = waiter[j]
        BY <1>4, <3>4
      <4> QED
        BY <3>1, <3>4, <4>1
    <3> QED
      BY <3>2, <3>3, <3>4
  <2>3. waiter' \in [Waiters -> WaiterTypes]
    BY <1>4, <2>2
  <2>4. ASSUME NEW j \in Waiters
        PROVE  /\ waiter'[j].pc # "idle" => waiter'[j].task # None
               /\ waiter'[j].pc \in {"read", "blocked"} => waiter'[j].woken \/ j \in channel'[waiter'[j].task]
    <3>1. CASE j = k
      BY <2>2, <3>1
    <3>2. CASE j # k
      <4>1. waiter'[j].pc = waiter[j].pc /\ waiter'[j].task = waiter[j].task
            /\ (waiter[j].pc # "idle" => waiter[j].task \in Tasks /\ waiter[j].task # None)
        BY <2>2, <3>2 DEF Listening, Typed, WaiterTypes
      <4>2. waiter[j].pc \in {"read", "blocked"} => waiter[j].woken \/ j \in channel[waiter[j].task]
        BY DEF Listening
      <4>3. waiter[j].woken \/ j \in channel[t] => waiter'[j].woken
        BY <2>2, <3>2
      <4>4. CASE waiter[j].task = t
        BY <4>1, <4>2, <4>3, <4>4
      <4>5. CASE waiter[j].task # t
        <5>1. waiter[j].pc # "idle" => channel'[waiter[j].task] = channel[waiter[j].task]
          BY <2>1, <4>1, <4>5
        <5>2. waiter[j].woken => waiter'[j].woken
          BY <4>3
        <5> QED
          BY <4>1, <4>2, <5>1, <5>2
      <4> QED
        BY <4>4, <4>5
    <3> QED
      BY <3>1, <3>2
  <2>5. Listening'
    BY <2>4 DEF Listening
  <2>6. ASSUME NEW j \in Waiters, waiter'[j].pc = "blocked", row[waiter'[j].task].status \in Terminal
        PROVE  waiter'[j].woken \/ ToBeTold(waiter[j].task)'
    <3>1. j # k /\ waiter[j].pc = "blocked" /\ waiter'[j].task = waiter[j].task
      BY <2>2, <2>6
    <3>2. waiter[j].woken \/ ToBeTold(waiter[j].task)
      BY <2>6, <3>1 DEF NoLostNotify
    <3>3. waiter[j].woken => waiter'[j].woken
      BY <2>2, <3>1
    <3>4. ToBeTold(waiter[j].task) => ToBeTold(waiter[j].task)'
      BY <1>1, <3>1 DEF ToBeTold
    <3> QED
      BY <3>2, <3>3, <3>4
  <2>7. NoLostNotify'
    BY <1>1, <2>6 DEF NoLostNotify
  <2> QED
    BY <1>1, <1>2, <2>1, <2>3, <2>5, <2>7, WaitingKeeps
<1> QED
  BY <1>3, <1>4 DEF WaitRead

-----------------------------------------------------------------------------
(* The reaper, time, and the child runs.                                    *)

ReaperTypes == [pc : {"idle", "sweep", "commit", "notify"}, list : SUBSET Entries, entry : Entries]

\* The reaper looks and has nothing to tell of.
LEMMA LookingKeeps ==
    ASSUME TaskInv, UNCHANGED <<row, child, proc, active, worker, caller, waiter, channel, told>>,
           reaper' \in ReaperTypes, Sweeping', reaper.pc # "notify", reaper'.pc # "notify",
           reaper'.pc = "commit" => Started(reaper'.entry.task)
    PROVE  TaskInv'
<1> USE DEF TaskInv
<1>1. Typed'
  BY DEF Typed, ReaperTypes
<1>2. Aside
  BY DEF Aside, ProcKeeps, Holding, Fresh
<1>3. Holding' /\ CountersMatch' /\ NoOrphanRun'
  BY <1>2, AsideSteady
<1>4. Telling'
  BY DEF Telling, Started
<1>5. NoLostWakeup'
  BY CalmKeeps DEF Calm
<1>6. TerminalIsTold' /\ NoLostNotify'
  BY AnnouncedKeeps DEF Announced, ToBeTold
<1> QED
  BY <1>1, <1>3, <1>4, <1>5, <1>6 DEF Listening

LEMMA ReapListKeeps ==
    ASSUME TaskInv, ReapList
    PROVE  TaskInv'
<1> DEFINE mine == {u \in Tasks : row[u].status \in Held /\ row[u].instance = proc.instance}
           list == {[task |-> t, rev |-> row[t].revision, old |-> row[t].stale] : t \in mine}
<1> USE DEF TaskInv
<1>1. UNCHANGED <<row, child, proc, active, worker, caller, waiter, channel, told>> /\ reaper.pc = "idle"
      /\ reaper' = [reaper EXCEPT !.pc = "sweep", !.list = list]
  BY DEF ReapList
<1>2. list \in SUBSET Entries
  <2>1. ASSUME NEW t \in mine PROVE [task |-> t, rev |-> row[t].revision, old |-> row[t].stale] \in Entries
    BY DEF Entries, Typed, RowTypes
  <2> QED
    BY <2>1
<1>3. reaper' \in ReaperTypes /\ reaper'.pc = "sweep" /\ reaper'.list = list
  BY <1>1, <1>2 DEF Typed, ReaperTypes
<1>4. Sweeping'
  <2>1. ASSUME NEW e \in list
        PROVE  Started(e.task) /\ \A w \in Workers : worker[w].pc = "claimed" /\ e.task = worker[w].task => ~e.old
    <3>1. PICK t \in mine : e = [task |-> t, rev |-> row[t].revision, old |-> row[t].stale]
      OBVIOUS
    <3>2. Started(t)
      BY DEF Started, Held
    <3> QED
      BY <3>1, <3>2 DEF Sweeping
  <2>2. ~(reaper'.pc = "commit")
    BY <1>3
  <2> QED
    BY <1>1, <1>3, <2>1, <2>2 DEF Sweeping, Started
<1> QED
  BY <1>1, <1>3, <1>4, LookingKeeps

LEMMA ReapCheckKeeps ==
    ASSUME TaskInv, ReapCheck
    PROVE  TaskInv'
<1> USE DEF TaskInv
<1>1. UNCHANGED <<row, child, proc, active, worker, caller, waiter, channel, told>> /\ reaper.pc = "sweep"
  BY DEF ReapCheck
<1>2. CASE reaper.list = {} /\ reaper' = NoSweep
  <2>1. NoSweep \in ReaperTypes /\ NoSweep.pc = "idle" /\ NoSweep.list = {}
    <3>1. [task |-> None, rev |-> 0, old |-> FALSE] \in Entries
      BY DEF Entries
    <3> QED
      BY <3>1 DEF NoSweep, ReaperTypes
  <2>2. Sweeping'
    BY <1>1, <1>2, <2>1 DEF Sweeping
  <2> QED
    BY <1>1, <1>2, <2>1, <2>2, LookingKeeps
<1>3. ASSUME NEW e \in reaper.list, NEW pc \in {"commit", "sweep"},
             pc = "commit" => active[e.task] = None /\ e.old,
             reaper' = [reaper EXCEPT !.list = @ \ {e}, !.entry = e, !.pc = pc]
      PROVE  TaskInv'
  <2>1. reaper \in ReaperTypes
    BY DEF Typed, ReaperTypes
  <2>2. e \in Entries /\ reaper.list \ {e} \in SUBSET Entries
    BY <2>1 DEF ReaperTypes
  <2>3. reaper' \in ReaperTypes /\ reaper'.pc = pc /\ reaper'.entry = e /\ reaper'.list = reaper.list \ {e}
    BY <1>3, <2>1, <2>2 DEF ReaperTypes
  <2>4. Started(e.task)
    BY DEF Sweeping
  <2>5. ASSUME pc = "commit", NEW w \in Workers, worker[w].task = e.task PROVE worker[w].pc = "release"
    <3>1. worker[w].pc \in Busy
      BY <2>4, <2>5 DEF Holding, Working, Started, Tasks, None
    <3>2. worker[w].pc # "claimed"
      BY <1>3, <2>5 DEF Sweeping
    <3>3. worker[w].pc \notin Registered
      <4>1. active[e.task] = None /\ w # None
        BY <1>3, <2>5, BoundsAssumption DEF None
      <4> QED
        BY <2>5, <4>1 DEF Holding, Working
    <3> QED
      BY <3>1, <3>2, <3>3 DEF Busy, Registered
  <2>6. Sweeping'
    BY <1>1, <2>3, <2>5 DEF Sweeping, Started
  <2> QED
    BY <1>1, <2>3, <2>4, <2>6, LookingKeeps
<1>4. CASE reaper.list # {}
  <2>1. PICK e \in reaper.list :
           reaper' = [reaper EXCEPT !.list = @ \ {e}, !.entry = e,
                                    !.pc = IF active[e.task] = None /\ e.old THEN "commit" ELSE "sweep"]
    BY <1>4 DEF ReapCheck
  <2>2. CASE active[e.task] = None /\ e.old
    BY <1>3, <2>1, <2>2
  <2>3. CASE ~(active[e.task] = None /\ e.old)
    BY <1>3, <2>1, <2>3
  <2> QED
    BY <2>2, <2>3
<1> QED
  BY <1>2, <1>4 DEF ReapCheck

LEMMA ReapCommitKeeps ==
    ASSUME TaskInv, ReapCommit
    PROVE  TaskInv'
<1> DEFINE e == reaper.entry
           t == reaper.entry.task
<1> USE DEF TaskInv
<1>1. UNCHANGED <<child, proc, active, worker, caller, waiter, channel, told>> /\ reaper.pc = "commit"
  BY DEF ReapCommit
<1>2. reaper \in ReaperTypes /\ t \in Tasks /\ row[t].status \notin {"none", "queued"} /\ row[t] \in RowTypes
  BY <1>1 DEF Typed, ReaperTypes, Telling, Started
<1>3. CASE reaper' = [reaper EXCEPT !.pc = "sweep"] /\ UNCHANGED row
  <2>1. reaper' \in ReaperTypes /\ reaper'.pc = "sweep" /\ reaper'.list = reaper.list
    BY <1>2, <1>3 DEF ReaperTypes
  <2>2. Sweeping'
    BY <1>1, <1>3, <2>1 DEF Sweeping, Started
  <2> QED
    BY <1>1, <1>3, <2>1, <2>2, LookingKeeps
<1>4. CASE /\ CanTransition(t, e.rev, "interrupted")
           /\ row' = [row EXCEPT ![t] = Ended(row[t], "interrupted")]
           /\ reaper' = [reaper EXCEPT !.pc = "notify"]
  <2>1. reaper' \in ReaperTypes /\ reaper'.pc = "notify" /\ reaper'.list = reaper.list /\ reaper'.entry = reaper.entry
    BY <1>2, <1>4 DEF ReaperTypes
  <2>2. row[t].status \in Held
    BY <1>4 DEF CanTransition
  <2> HIDE DEF t
  <2>3. row'[t] = Ended(row[t], "interrupted") /\ \A u \in Tasks : u # t => row'[u] = row[u]
    BY <1>2, <1>4 DEF Typed
  <2>4. /\ row' \in [Tasks -> RowTypes]
        /\ row'[t].status = "interrupted" /\ ~row'[t].stale /\ row'[t].owner = row[t].owner
        /\ row'[t].kind = row[t].kind /\ row'[t].attached = row[t].attached
    <3>1. "interrupted" \in Terminal
      BY DEF Terminal
    <3> QED
      BY <1>2, <1>4, <2>3, <3>1, EndedTyped DEF Typed
  <2>5. row'[t].status \in Terminal /\ row'[t].status \notin Held \cup {"none", "queued"}
    BY <2>4 DEF Held, Terminal
  <2>6. row[t].status \notin Terminal
    BY <2>2 DEF Held, Terminal
  <2>7. ASSUME NEW u \in Tasks PROVE RowKeeps(u) /\ Recorded(u)'
    <3>1. Recorded(u)
      BY DEF Holding
    <3>2. CASE u = t
      BY <1>1, <1>2, <2>4, <2>5, <2>6, <3>1, <3>2 DEF RowKeeps, Recorded, Started
    <3>3. CASE u # t
      BY <1>1, <2>3, <3>1, <3>3 DEF RowKeeps, Recorded, Started
    <3> QED
      BY <3>2, <3>3
  <2>8. ASSUME NEW w \in Workers PROVE WorkerKeeps(w)
    <3>1. Working(w) /\ (worker[w].pc = "notify" => worker[w].task \in Tasks)
      BY DEF Holding, Working, Busy, Finishing, Started
    <3> QED
      BY <1>1, <2>7, <3>1 DEF WorkerKeeps, Working, RowKeeps
  <2>9. Steady
    BY <1>1, <2>7, <2>8 DEF Steady, ProcKeeps, Holding, Fresh
  <2>10. Holding' /\ CountersMatch'
    BY <2>9, SteadyHolds
  <2>11. Typed'
    BY <1>1, <2>1, <2>4 DEF Typed, ReaperTypes
  <2>12. NoOrphanRun'
    <3>1. \A u \in Tasks : row'[u].attached = row[u].attached
      BY <2>3, <2>4
    <3> QED
      BY <1>1, <3>1 DEF NoOrphanRun
  <2>13. Sweeping'
    <3>1. \A x \in reaper.list : Started(x.task)'
      BY <2>9 DEF Sweeping, Started, Steady, RowKeeps
    <3>2. \A u \in Tasks : row'[u].stale => row[u].stale
      BY <2>3, <2>4
    <3>3. \A w \in Workers : worker[w].pc = "claimed" => worker[w].task \in Tasks
      BY DEF Holding, Working, Started, Busy
    <3>4. reaper'.pc # "commit"
      BY <2>1
    <3> QED
      BY <1>1, <2>1, <3>1, <3>2, <3>3, <3>4 DEF Sweeping
  <2>14. Telling'
    <3>1. ASSUME NEW k \in Callers, caller[k].terminal
          PROVE  row'[caller[k].task].status \in Terminal
      <4>1. caller[k].task \in Tasks /\ row[caller[k].task].status \in Terminal
        BY <3>1 DEF Telling, Typed, CallerTypes
      <4> QED
        BY <4>1, <2>7 DEF RowKeeps
    <3>2. Started(reaper.entry.task)' /\ row'[reaper'.entry.task].status \in Terminal
      BY <1>2, <2>1, <2>5 DEF Started, t
    <3>3. \A u \in told : row'[u].status \in Terminal
      BY <2>7 DEF Telling, Typed, RowKeeps
    <3> QED
      BY <1>1, <3>1, <3>2, <3>3 DEF Telling
  <2>15. NoLostWakeup'
    <3>1. Calm
      BY <1>1, <2>3, <2>5 DEF Calm
    <3> QED
      BY <3>1, CalmKeeps
  <2>16. TerminalIsTold' /\ NoLostNotify'
    <3>1. \A u \in Tasks : ToBeTold(u) => ToBeTold(u)'
      BY <1>1 DEF ToBeTold
    <3>2. \A u \in Tasks : u = t => ToBeTold(u)'
      BY <2>1 DEF ToBeTold, t
    <3>3. Announced
      BY <1>1, <2>3, <3>1, <3>2 DEF Announced
    <3> QED
      BY <3>3, AnnouncedKeeps
  <2> QED
    BY <1>1, <2>10, <2>11, <2>12, <2>13, <2>14, <2>15, <2>16 DEF Listening
<1> QED
  BY <1>3, <1>4 DEF ReapCommit

LEMMA ReapNotifyKeeps ==
    ASSUME TaskInv, ReapNotify
    PROVE  TaskInv'
<1> DEFINE t == reaper.entry.task
<1> USE DEF TaskInv
<1>1. UNCHANGED <<row, child, proc, active, worker, caller>> /\ reaper.pc = "notify"
      /\ Notify(t) /\ told' = told \cup {t} /\ reaper' = [reaper EXCEPT !.pc = "sweep"]
  BY DEF ReapNotify, NotifyTerminal
<1>2. reaper \in ReaperTypes /\ t \in Tasks /\ row[t].status \in Terminal
  BY <1>1 DEF Typed, ReaperTypes, Telling, Started
<1>3. reaper' \in ReaperTypes /\ reaper'.pc = "sweep" /\ reaper'.list = reaper.list
  BY <1>1, <1>2 DEF ReaperTypes
<1>4. told' \in SUBSET Tasks /\ told \subseteq told' /\ t \in told'
  BY <1>1, <1>2 DEF Typed
<1>5. waiter' \in [Waiters -> WaiterTypes] /\ channel' \in [Tasks -> SUBSET Waiters] /\ Listening'
      /\ \A j \in Waiters : waiter'[j].pc = waiter[j].pc
  BY <1>1, <1>2, NotifyWakes
<1>6. Typed'
  BY <1>1, <1>3, <1>4, <1>5 DEF Typed, ReaperTypes
<1>7. Aside
  BY <1>1, <1>5 DEF Aside, ProcKeeps, Holding, Fresh
<1>8. Holding' /\ CountersMatch' /\ NoOrphanRun'
  BY <1>7, AsideSteady
<1>9. Sweeping'
  BY <1>1, <1>3 DEF Sweeping, Started
<1>10. Telling'
  BY <1>1, <1>2, <1>3 DEF Telling
<1>11. NoLostWakeup'
  BY <1>1, CalmKeeps DEF Calm
<1>12. TerminalIsTold' /\ NoLostNotify'
  <2>1. ASSUME NEW u \in Tasks, ToBeTold(u) PROVE ToBeTold(u)' \/ (u = t /\ t \in told')
    BY <1>1, <1>4, <2>1 DEF ToBeTold
  <2> QED
    BY <1>1, <1>2, <1>4, <2>1, TellKeeps
<1> QED
  BY <1>5, <1>6, <1>8, <1>9, <1>10, <1>11, <1>12

\* No worker is about to register a row that grows old.
LEMMA AgeKeeps ==
    ASSUME TaskInv, NEW t \in Tasks, Age(t)
    PROVE  TaskInv'
<1> DEFINE list == {[e EXCEPT !.old = @ \/ e.task = t] : e \in reaper.list}
<1> USE DEF TaskInv
<1>1. UNCHANGED <<child, proc, active, worker, caller, waiter, channel, told>>
      /\ row[t].status \in Held /\ row' = [row EXCEPT ![t] = [row[t] EXCEPT !.stale = TRUE]]
      /\ reaper' = [reaper EXCEPT !.list = list]
      /\ \A w \in Workers : worker[w].task = t => worker[w].pc # "claimed"
  BY DEF Age
<1>2. row[t] \in RowTypes /\ [row[t] EXCEPT !.stale = TRUE] \in RowTypes /\ reaper \in ReaperTypes
  <2>1. row[t] \in RowTypes /\ reaper \in ReaperTypes
    BY DEF Typed, ReaperTypes
  <2> QED
    BY <2>1 DEF RowTypes
<1>3. row' \in [Tasks -> RowTypes]
      /\ \A u \in Tasks : u # t => row'[u] = row[u]
  BY <1>1, <1>2 DEF Typed
<1>4. \A u \in Tasks : /\ row'[u].status = row[u].status /\ row'[u].owner = row[u].owner /\ row'[u].kind = row[u].kind
                       /\ row'[u].instance = row[u].instance /\ row'[u].attached = row[u].attached
                       /\ row'[u].attempt = row[u].attempt
  <2>1. row'[t] = [row[t] EXCEPT !.stale = TRUE]
    BY <1>1 DEF Typed
  <2>2. /\ row'[t].status = row[t].status /\ row'[t].owner = row[t].owner /\ row'[t].kind = row[t].kind
        /\ row'[t].instance = row[t].instance /\ row'[t].attached = row[t].attached
        /\ row'[t].attempt = row[t].attempt
    BY <1>2, <2>1 DEF RowTypes
  <2> QED
    BY <1>3, <2>2
<1>5. ASSUME NEW e \in list
      PROVE  e \in Entries /\ \E d \in reaper.list : d.task = e.task /\ (e.old => d.old \/ e.task = t)
  <2>1. PICK d \in reaper.list : e = [d EXCEPT !.old = d.old \/ d.task = t]
    OBVIOUS
  <2>2. d \in Entries
    BY <1>2 DEF ReaperTypes
  <2>3. e \in Entries /\ e.task = d.task /\ e.old = (d.old \/ d.task = t)
    BY <2>1, <2>2 DEF Entries
  <2> QED
    BY <2>1, <2>3
<1>6. reaper' \in ReaperTypes /\ reaper'.list = list /\ reaper'.pc = reaper.pc /\ reaper'.entry = reaper.entry
  BY <1>1, <1>2, <1>5 DEF ReaperTypes
<1> HIDE DEF list
<1>7. \A u \in Tasks : RowKeeps(u) /\ Recorded(u)'
  BY <1>1, <1>3, <1>4 DEF RowKeeps, Recorded, Started, Holding
<1>8. ASSUME NEW w \in Workers PROVE WorkerKeeps(w)
  <2>1. Working(w) /\ (worker[w].pc = "notify" => worker[w].task \in Tasks)
    BY DEF Holding, Working, Busy, Finishing, Started
  <2> QED
    BY <1>1, <1>7, <2>1 DEF WorkerKeeps, Working, RowKeeps
<1>9. Steady
  BY <1>1, <1>7, <1>8 DEF Steady, ProcKeeps, Holding, Fresh
<1>10. Holding' /\ CountersMatch'
  BY <1>9, SteadyHolds
<1>11. Typed'
  BY <1>1, <1>3, <1>6 DEF Typed, ReaperTypes
<1>12. NoOrphanRun'
  BY <1>1, <1>4 DEF NoOrphanRun
<1>13. Sweeping'
  <2>1. \A e \in list : Started(e.task)'
    BY <1>4, <1>5 DEF Sweeping, Started
  <2>2. ASSUME NEW w \in Workers, worker[w].pc = "claimed"
        PROVE  ~row'[worker[w].task].stale /\ \A e \in list : e.task = worker[w].task => ~e.old
    <3>1. worker[w].task \in Tasks /\ worker[w].task # t
      BY <1>1, <2>2 DEF Holding, Working, Started, Busy
    <3> QED
      BY <1>3, <1>5, <2>2, <3>1 DEF Sweeping
  <2> QED
    BY <1>1, <1>6, <2>1, <2>2 DEF Sweeping
<1>14. Telling'
  <2>1. reaper.pc \in {"commit", "notify"} => reaper.entry.task \in Tasks
    BY DEF Telling, Started
  <2> QED
    BY <1>1, <1>4, <1>6, <2>1 DEF Telling, Started, Typed, CallerTypes
<1>15. NoLostWakeup'
  BY <1>1, <1>4, CalmKeeps DEF Calm
<1>16. TerminalIsTold' /\ NoLostNotify'
  <2>1. Announced
    BY <1>1, <1>4, <1>6 DEF Announced, ToBeTold
  <2> QED
    BY <2>1, AnnouncedKeeps
<1> QED
  BY <1>1, <1>10, <1>11, <1>12, <1>13, <1>14, <1>15, <1>16 DEF Listening

LEMMA ChildEndsKeeps ==
    ASSUME TaskInv, NEW t \in Tasks, ChildEnds(t)
    PROVE  TaskInv'
<1> USE DEF TaskInv
<1>1. UNCHANGED <<row, proc, active, worker, caller, waiter, channel, reaper, told>> /\ child[t] = "running"
  BY DEF ChildEnds
<1>2. PICK end \in {"done", "stopped"} : child' = [child EXCEPT ![t] = end]
  BY DEF ChildEnds
<1>3. child' \in [Tasks -> {"none", "running", "done", "stopped"}]
      /\ \A u \in Tasks : child'[u] = child[u] \/ (u = t /\ child'[u] = end)
  BY <1>2 DEF Typed
<1>4. Typed'
  BY <1>1, <1>3 DEF Typed
<1>5. \A u \in Tasks : RowKeeps(u) /\ Recorded(u)'
  BY <1>1, <1>3, RowsRest DEF Holding, Recorded
<1>6. Steady
  BY <1>1, <1>5 DEF Steady, WorkerKeeps, Holding, Working, ProcKeeps, Fresh
<1>7. Holding' /\ CountersMatch' /\ Sweeping' /\ Telling'
  BY <1>1, <1>6, SteadyHolds, SteadySweeps, SteadyTells
<1>8. NoOrphanRun'
  BY <1>1, <1>3 DEF NoOrphanRun
<1>9. NoLostWakeup'
  BY <1>1, CalmKeeps DEF Calm
<1>10. TerminalIsTold' /\ NoLostNotify'
  BY <1>1, AnnouncedKeeps DEF Announced, ToBeTold
<1> QED
  BY <1>1, <1>4, <1>7, <1>8, <1>9, <1>10 DEF Listening

-----------------------------------------------------------------------------
(* Callers that write a row.                                                *)

LEMMA CallerWritesKeeps ==
    ASSUME TaskInv, NEW k \in Callers, NEW c \in CallerTypes,
           caller' = [caller EXCEPT ![k] = c], caller[k].pc \in {"idle", "create"},
           c.pc \in {"lookup", "tell"} <=> c.task # None,
           c.terminal => c.task \in Tasks /\ row'[c.task].status \in Terminal,
           row' \in [Tasks -> RowTypes], proc' \in ProcTypes, ProcKeeps, proc.root => proc'.root,
           \A t \in Tasks :
              /\ RowKeeps(t) /\ Recorded(t)'
              /\ row'[t].stale => row[t].stale
              /\ row'[t].status \in Terminal => row[t].status \in Terminal \/ (t = c.task /\ c.terminal),
           NoOrphanRun', NoLostWakeup',
           UNCHANGED <<child, active, worker, waiter, channel, reaper, told>>
    PROVE  TaskInv'
<1> USE DEF TaskInv
<1>1. caller' \in [Callers -> CallerTypes] /\ caller'[k] = c /\ \A j \in Callers : j # k => caller'[j] = caller[j]
  BY DEF Typed
<1>2. Typed'
  BY <1>1 DEF Typed
<1>3. ASSUME NEW w \in Workers PROVE WorkerKeeps(w)
  <2>1. Working(w) /\ (worker[w].pc = "notify" => worker[w].task \in Tasks)
    BY DEF Holding, Working, Busy, Finishing, Started
  <2> QED
    BY <2>1 DEF WorkerKeeps, Working, RowKeeps
<1>4. Steady
  BY <1>3 DEF Steady
<1>5. Holding' /\ CountersMatch' /\ Sweeping'
  BY <1>4, SteadyHolds, SteadySweeps
<1>6. caller[k].task = None /\ caller[k].terminal = FALSE
  BY DEF Telling, Typed, CallerTypes
<1>7. Telling'
  <2>1. ASSUME NEW j \in Callers
        PROVE  /\ caller'[j].pc \in {"lookup", "tell"} <=> caller'[j].task # None
               /\ caller'[j].terminal => caller'[j].task # None /\ row'[caller'[j].task].status \in Terminal
    <3>1. CASE j = k
      BY <1>1, <3>1 DEF Tasks, None
    <3>2. CASE j # k
      <4>1. caller'[j] = caller[j] /\ (caller[j].terminal => caller[j].task \in Tasks)
        BY <1>1, <3>2 DEF Telling, Typed, CallerTypes
      <4> QED
        BY <4>1 DEF Telling, RowKeeps
    <3> QED
      BY <3>1, <3>2
  <2>2. reaper.pc \in {"commit", "notify"} => Started(reaper.entry.task)'
    BY DEF Telling, Started, RowKeeps
  <2>3. reaper.pc = "notify" => row'[reaper.entry.task].status \in Terminal
    BY DEF Telling, Started, RowKeeps
  <2>4. \A t \in told : row'[t].status \in Terminal
    BY DEF Telling, Typed, RowKeeps
  <2> QED
    BY <2>1, <2>2, <2>3, <2>4 DEF Telling
<1>8. TerminalIsTold' /\ NoLostNotify'
  <2>1. \A t \in Tasks : ToBeTold(t) => ToBeTold(t)'
    BY <1>1, <1>6 DEF ToBeTold
  <2>2. \A t \in Tasks : t = c.task /\ c.terminal => ToBeTold(t)'
    BY <1>1 DEF ToBeTold
  <2>3. Announced
    BY <2>1, <2>2 DEF Announced, ProcKeeps
  <2> QED
    BY <2>3, AnnouncedKeeps
<1> QED
  BY <1>2, <1>5, <1>7, <1>8 DEF Listening

LEMMA SubmitCreateKeeps ==
    ASSUME TaskInv, NEW k \in Callers, SubmitCreate(k)
    PROVE  TaskInv'
<1> DEFINE New(a, kind) == [NoRow EXCEPT !.status = "queued", !.revision = 1, !.owner = a, !.kind = kind]
<1> USE DEF TaskInv
<1>1. UNCHANGED <<child, proc, active, worker, waiter, channel, reaper, told>> /\ caller[k].pc = "create"
  BY DEF SubmitCreate
<1>2. caller[k] \in CallerTypes /\ caller[k].task = None /\ caller[k].terminal = FALSE
  BY <1>1 DEF Telling, Typed, CallerTypes
<1>3. proc \in ProcTypes /\ ProcKeeps
  BY <1>1 DEF Typed, ProcKeeps, Holding, Fresh
<1>4. CASE caller' = [caller EXCEPT ![k] = NoCall] /\ UNCHANGED row
  <2>1. NoCall \in CallerTypes /\ NoCall.task = None /\ NoCall.terminal = FALSE /\ NoCall.pc = "idle"
    BY DEF NoCall, CallerTypes
  <2>2. \A t \in Tasks : RowKeeps(t) /\ Recorded(t)'
    BY <1>1, <1>4, RowsRest DEF Holding, Recorded
  <2>3. Calm
    BY <1>1, <1>4 DEF Calm, Typed
  <2>4. NoLostWakeup' /\ NoOrphanRun' /\ row' \in [Tasks -> RowTypes]
    BY <1>1, <1>4, <2>3, CalmKeeps DEF NoOrphanRun, Typed
  <2> QED
    BY <1>1, <1>3, <1>4, <2>1, <2>2, <2>4, CallerWritesKeeps
<1>5. ASSUME NEW t \in Tasks, NEW a \in Owners, NEW kind \in Kinds,
             row[t].status = "none", row' = [row EXCEPT ![t] = New(a, kind)],
             caller' = [caller EXCEPT ![k].pc = "signal"]
      PROVE  TaskInv'
  <2> DEFINE c == [caller[k] EXCEPT !.pc = "signal"]
  <2>1. c \in CallerTypes /\ c.task = None /\ c.terminal = FALSE /\ c.pc = "signal"
    BY <1>2 DEF CallerTypes
  <2>2. caller' = [caller EXCEPT ![k] = c]
    BY <1>5
  <2> HIDE DEF c
  <2>3. /\ New(a, kind) \in RowTypes /\ New(a, kind).status = "queued" /\ New(a, kind).owner = a
        /\ New(a, kind).kind = kind /\ New(a, kind).stale = FALSE
    BY DEF NoRow, RowTypes, Statuses
  <2> HIDE DEF New
  <2>4. row' \in [Tasks -> RowTypes] /\ row'[t] = New(a, kind) /\ \A u \in Tasks : u # t => row'[u] = row[u]
    BY <1>5, <2>3 DEF Typed
  <2>5. ASSUME NEW u \in Tasks PROVE RowKeeps(u) /\ Recorded(u)'
    <3>1. CASE u = t
      BY <1>5, <2>3, <2>4, <3>1 DEF RowKeeps, Recorded, Started, Held, Terminal
    <3>2. CASE u # t
      BY <1>1, <2>4, <3>2 DEF RowKeeps, Recorded, Started, Holding
    <3> QED
      BY <3>1, <3>2
  <2>6. NoOrphanRun'
    <3>1. child[t] # "running"
      BY <1>5 DEF Holding, Recorded
    <3> QED
      BY <1>1, <2>4, <3>1 DEF NoOrphanRun
  <2>7. NoLostWakeup'
    <3>1. caller'[k].pc = "signal"
      BY <2>1, <2>2 DEF Typed
    <3> QED
      BY <3>1 DEF NoLostWakeup
  <2>8. \A u \in Tasks : /\ row'[u].stale => row[u].stale
                         /\ row'[u].status \in Terminal => row[u].status \in Terminal
    <3>1. "queued" \notin Terminal
      BY DEF Terminal
    <3> QED
      BY <2>3, <2>4, <3>1
  <2> QED
    BY <1>1, <1>3, <2>1, <2>2, <2>4, <2>5, <2>6, <2>7, <2>8, CallerWritesKeeps
<1> QED
  BY <1>4, <1>5 DEF SubmitCreate

LEMMA CancelKeeps ==
    ASSUME TaskInv, NEW k \in Callers, NEW t \in Tasks, Cancel(k, t)
    PROVE  TaskInv'
<1> DEFINE c == [pc |-> "lookup", task |-> t, terminal |-> row'[t].status \in Terminal]
<1> USE DEF TaskInv
<1>1. /\ UNCHANGED <<child, active, worker, waiter, channel, reaper, told>> /\ caller[k].pc = "idle"
      /\ row[t].status # "none" /\ row' = [row EXCEPT ![t] = CancelRequested(row[t])]
      /\ proc' = [proc EXCEPT !.cancels = @ + 1] /\ caller' = [caller EXCEPT ![k] = c]
  BY DEF Cancel
<1>2. c \in CallerTypes /\ c.pc = "lookup" /\ c.task = t /\ (c.terminal <=> row'[t].status \in Terminal)
  <2>1. CASE row'[t].status \in Terminal
    <3>1. (row'[t].status \in Terminal) = TRUE
      BY <2>1, Zenon
    <3>2. c = [pc |-> "lookup", task |-> t, terminal |-> TRUE]
      BY <3>1, Zenon
    <3> QED
      BY <2>1, <3>2 DEF CallerTypes
  <2>2. CASE ~(row'[t].status \in Terminal)
    <3>1. (row'[t].status \in Terminal) = FALSE
      BY <2>2
    <3>2. c = [pc |-> "lookup", task |-> t, terminal |-> FALSE]
      BY <3>1, Zenon
    <3> QED
      BY <2>2, <3>2 DEF CallerTypes
  <2> QED
    BY <2>1, <2>2
<1> HIDE DEF c
<1>3. /\ proc' \in ProcTypes
      /\ UNCHANGED <<proc.state, proc.root, proc.instance, proc.total, proc.byAgent, proc.limit,
                     proc.perAgent, proc.faults, proc.wake>>
  <2>1. proc \in ProcTypes /\ proc.cancels + 1 \in Nat
    BY DEF Typed, ProcTypes
  <2> QED
    BY <1>1, <2>1 DEF ProcTypes
<1>4. ProcKeeps
  BY <1>1, <1>3 DEF ProcKeeps, Holding, Fresh
<1>5. row[t] \in RowTypes
  BY DEF Typed
<1>6. /\ CancelRequested(row[t]) \in RowTypes
      /\ CancelRequested(row[t]).owner = row[t].owner /\ CancelRequested(row[t]).kind = row[t].kind
      /\ CancelRequested(row[t]).attached = row[t].attached
      /\ \/ row[t].status = "queued" /\ CancelRequested(row[t]).status = "canceled" /\ ~CancelRequested(row[t]).stale
         \/ /\ row[t].status = "running" /\ CancelRequested(row[t]).status = "cancel_requested"
            /\ CancelRequested(row[t]).instance = row[t].instance /\ ~CancelRequested(row[t]).stale
         \/ row[t].status \notin {"queued", "running"} /\ CancelRequested(row[t]) = row[t]
  <2>1. CASE row[t].status = "queued"
    <3>1. CancelRequested(row[t]) = Ended(row[t], "canceled") /\ "canceled" \in Terminal
      BY <2>1 DEF CancelRequested, Terminal
    <3> QED
      BY <1>5, <2>1, <3>1, EndedTyped
  <2>2. CASE row[t].status = "running"
    <3>1. CancelRequested(row[t]) = [row[t] EXCEPT !.status = "cancel_requested", !.revision = @ + 1, !.stale = FALSE]
      BY <2>2 DEF CancelRequested
    <3>2. row[t].revision + 1 \in Nat /\ "cancel_requested" \in Statuses
      BY <1>5 DEF RowTypes, Statuses, Held
    <3> QED
      BY <1>5, <2>2, <3>1, <3>2 DEF RowTypes
  <2>3. CASE row[t].status \notin {"queued", "running"}
    BY <1>5, <2>3 DEF CancelRequested
  <2> QED
    BY <2>1, <2>2, <2>3
<1>7. row' \in [Tasks -> RowTypes] /\ row'[t] = CancelRequested(row[t]) /\ \A u \in Tasks : u # t => row'[u] = row[u]
  BY <1>1, <1>6 DEF Typed
<1>8. ASSUME NEW u \in Tasks PROVE RowKeeps(u) /\ Recorded(u)'
  <2>1. Recorded(u)
    BY DEF Holding
  <2>2. CASE u = t
    BY <1>1, <1>3, <1>6, <1>7, <2>1, <2>2 DEF RowKeeps, Recorded, Started, Held, Terminal
  <2>3. CASE u # t
    BY <1>1, <1>3, <1>7, <2>1, <2>3 DEF RowKeeps, Recorded, Started
  <2> QED
    BY <2>2, <2>3
<1>9. NoOrphanRun'
  BY <1>1, <1>6, <1>7 DEF NoOrphanRun
<1>10. NoLostWakeup'
  <2>1. \A u \in Tasks : row'[u].status = "queued" => row'[u] = row[u]
    BY <1>6, <1>7
  <2>2. \A j \in Callers : caller[j].pc = "signal" => caller'[j].pc = "signal"
    BY <1>1 DEF Typed
  <2>3. Calm
    BY <1>1, <1>3, <2>1, <2>2 DEF Calm
  <2> QED
    BY <2>3, CalmKeeps
<1>11. \A u \in Tasks :
          /\ row'[u].stale => row[u].stale
          /\ row'[u].status \in Terminal => row[u].status \in Terminal \/ (u = c.task /\ c.terminal)
  BY <1>2, <1>6, <1>7
<1>12. c.terminal => c.task \in Tasks /\ row'[c.task].status \in Terminal
  BY <1>2
<1>13. c.pc \in {"lookup", "tell"} <=> c.task # None
  BY <1>2 DEF Tasks, None
<1> QED
  BY <1>1, <1>2, <1>3, <1>4, <1>7, <1>8, <1>9, <1>10, <1>11, <1>12, <1>13, CallerWritesKeeps

-----------------------------------------------------------------------------
(* Workers that take, register, unregister and give back a task.            *)

\* Registering a claimed task, or unregistering a finished one.
LEMMA RegistrationKeeps ==
    ASSUME TaskInv, NEW w \in Workers, NEW x \in WorkerTypes,
           worker' = [worker EXCEPT ![w] = x], x.task = worker[w].task,
           x.stopping => proc.root,
           \/ /\ worker[w].pc = "claimed" /\ x.pc \in {"shell", "agent"}
              /\ active' = [active EXCEPT ![worker[w].task] = w]
           \/ /\ worker[w].pc = "cleanup" /\ x.pc = "release"
              /\ active' = [active EXCEPT ![worker[w].task] = None],
           proc' \in {proc, [proc EXCEPT !.wake = TRUE]},
           NoLostWakeup',
           UNCHANGED <<row, child, caller, waiter, channel, reaper, told>>
    PROVE  TaskInv'
<1> DEFINE t == worker[w].task
<1> USE DEF TaskInv
<1>1. worker' \in [Workers -> WorkerTypes] /\ worker'[w] = x /\ \A v \in Workers : v # w => worker'[v] = worker[v]
  BY DEF Typed
<1>2. /\ worker[w].pc \in Busy /\ x.pc \in Busy /\ x.pc \notin {"claimed", "notify", "attach"}
      /\ worker[w].pc \notin {"notify", "attach", "release"}
      /\ (x.pc \in Registered <=> x.pc \in {"shell", "agent"})
  BY DEF Busy, Registered, Executing, Finishing
<1>3. t \in Tasks /\ Started(t)
  BY <1>2 DEF Holding, Working, Started, None, Tasks
<1>4. \A v \in Workers : v # w => worker[v].task # t
  BY <1>3 DEF Holding, Sole, None, Tasks
<1>5. /\ active' \in [Tasks -> Workers \cup {None}]
      /\ active'[t] = IF x.pc = "release" THEN None ELSE w
      /\ \A u \in Tasks : u # t => active'[u] = active[u]
  BY <1>3 DEF Typed
<1>6. /\ proc' \in ProcTypes
      /\ UNCHANGED <<proc.state, proc.root, proc.instance, proc.total, proc.byAgent>>
  BY DEF Typed, ProcTypes
<1>7. Typed'
  BY <1>1, <1>5, <1>6 DEF Typed
<1>8. Holding'
  <2>1. \A u \in Tasks : Recorded(u)'
    BY <1>6 DEF Holding, Recorded
  <2>2. ASSUME NEW v \in Workers PROVE Working(v)'
    <3>1. Working(v)
      BY DEF Holding
    <3>2. CASE v = w
      BY <1>1, <1>2, <1>3, <1>5, <1>6, <3>1, <3>2 DEF Working, Started, None, Tasks
    <3>3. CASE v # w
      <4>1. worker[v].pc \in Registered => worker[v].task \in Tasks
        BY <3>1 DEF Working, Started, Registered, Busy
      <4> QED
        BY <1>1, <1>4, <1>5, <1>6, <3>1, <3>3, <4>1 DEF Working, Started
    <3> QED
      BY <3>2, <3>3
  <2>3. Sole'
    BY <1>1 DEF Holding, Sole
  <2>4. ASSUME NEW u \in Tasks, active'[u] # None
        PROVE  worker'[active'[u]].task = u /\ worker'[active'[u]].pc \in Registered
    <3>1. CASE u = t
      BY <1>1, <1>2, <1>5, <2>4, <3>1
    <3>2. CASE u # t
      BY <1>1, <1>5, <2>4, <3>2 DEF Holding, Listed, Typed
    <3> QED
      BY <3>1, <3>2
  <2>5. Fresh'
    BY <1>1, <1>3, <1>6 DEF Holding, Fresh, None, Tasks
  <2> QED
    BY <2>1, <2>2, <2>3, <2>4, <2>5 DEF Holding, Listed
<1>9. CountersMatch'
  <2>1. BusyWorkers' = BusyWorkers
    BY <1>1, <1>2 DEF BusyWorkers
  <2>2. \A v \in Workers : worker'[v].task = worker[v].task
    BY <1>1
  <2>3. \A a : {v \in BusyWorkers' : row'[worker'[v].task].owner = a}
               = {v \in BusyWorkers : row[worker[v].task].owner = a}
    BY <2>1, <2>2 DEF BusyWorkers
  <2> QED
    BY <1>6, <2>1, <2>3 DEF CountersMatch
<1>10. NoOrphanRun'
  BY <1>1, <1>2 DEF NoOrphanRun
<1>11. Telling'
  BY DEF Telling, Started
<1>12. Sweeping'
  BY <1>1, <1>2 DEF Sweeping, Started
<1>13. TerminalIsTold' /\ NoLostNotify'
  <2>1. \A u \in Tasks : ToBeTold(u) => ToBeTold(u)'
    BY <1>1, <1>2 DEF ToBeTold
  <2>2. Announced
    BY <1>6, <2>1 DEF Announced
  <2> QED
    BY <2>2, AnnouncedKeeps
<1> QED
  BY <1>7, <1>8, <1>9, <1>10, <1>11, <1>12, <1>13 DEF Listening

LEMMA RegisterKeeps ==
    ASSUME TaskInv, NEW w \in Workers, Register(w)
    PROVE  TaskInv'
<1> DEFINE x == [worker[w] EXCEPT !.pc = row[worker[w].task].kind, !.ctx = proc.root]
<1> USE DEF TaskInv
<1>1. /\ UNCHANGED <<row, child, caller, waiter, channel, reaper, told>>
      /\ worker[w].pc = "claimed" /\ worker' = [worker EXCEPT ![w] = x]
      /\ proc' = [proc EXCEPT !.wake = TRUE] /\ active' = [active EXCEPT ![worker[w].task] = w]
  BY DEF Register
<1>2. worker[w] \in WorkerTypes /\ proc \in ProcTypes
  BY DEF Typed
<1>3. row[worker[w].task].kind \in {"shell", "agent"}
  <2>1. worker[w].task \in Tasks /\ row[worker[w].task].status # "none"
    BY <1>1 DEF Holding, Working, Started, Busy
  <2> QED
    BY <2>1, BoundsAssumption DEF Holding, Recorded
<1>4. x \in WorkerTypes /\ x.pc \in {"shell", "agent"} /\ x.task = worker[w].task /\ x.stopping = worker[w].stopping
  <2>1. row[worker[w].task].kind \in Busy /\ proc.root \in BOOLEAN
    BY <1>2, <1>3 DEF Busy, Executing, ProcTypes
  <2> QED
    BY <1>2, <1>3, <2>1 DEF WorkerTypes
<1> HIDE DEF x
<1>5. x.stopping => proc.root
  BY <1>4 DEF Holding, Working
<1>6. NoLostWakeup'
  <2>1. proc'.wake
    BY <1>1, <1>2 DEF ProcTypes
  <2> QED
    BY <2>1 DEF NoLostWakeup
<1> QED
  BY <1>1, <1>4, <1>5, <1>6, RegistrationKeeps

LEMMA UnregisterKeeps ==
    ASSUME TaskInv, NEW w \in Workers, Unregister(w)
    PROVE  TaskInv'
<1> DEFINE x == [worker[w] EXCEPT !.pc = "release"]
<1> USE DEF TaskInv
<1>1. /\ UNCHANGED <<row, child, proc, caller, waiter, channel, reaper, told>>
      /\ worker[w].pc = "cleanup" /\ worker' = [worker EXCEPT ![w] = x]
      /\ active' = [active EXCEPT ![worker[w].task] = None]
  BY DEF Unregister, Go
<1>2. worker[w] \in WorkerTypes
  BY DEF Typed
<1>3. x \in WorkerTypes /\ x.pc = "release" /\ x.task = worker[w].task /\ x.stopping = worker[w].stopping
  BY <1>2 DEF WorkerTypes, Busy
<1> HIDE DEF x
<1>4. x.stopping => proc.root
  BY <1>3 DEF Holding, Working
<1>5. NoLostWakeup'
  <2>1. Calm
    BY <1>1 DEF Calm, Typed
  <2> QED
    BY <2>1, CalmKeeps
<1> QED
  BY <1>1, <1>3, <1>4, <1>5, RegistrationKeeps

\* Before the manager starts, no worker runs.
Unstarted == proc.state = "new" => \A w \in Workers : worker[w].pc = "off"

\* The tasks that are held, and those of one owner, change by one worker.
OwnedBy(a) == {w \in BusyWorkers : row[worker[w].task].owner = a}

LEMMA OneMore ==
    ASSUME TaskInv, NEW w \in Workers, NEW x, NEW o \in Owners,
           worker' = [worker EXCEPT ![w] = x], worker[w].pc \notin Busy, x.pc \in Busy,
           row'[x.task].owner = o,
           \A v \in BusyWorkers : row'[worker[v].task].owner = row[worker[v].task].owner,
           proc' = [proc EXCEPT !.total = @ + 1, !.byAgent[o] = @ + 1]
    PROVE  CountersMatch'
<1> USE DEF TaskInv
<1>1. worker'[w] = x /\ \A v \in Workers : v # w => worker'[v] = worker[v]
  BY DEF Typed
<1>2. BusyWorkers' = BusyWorkers \cup {w} /\ w \notin BusyWorkers /\ IsFiniteSet(BusyWorkers)
  BY <1>1, FS_Subset, BoundsAssumption DEF BusyWorkers
<1>3. OwnedBy(o)' = OwnedBy(o) \cup {w} /\ \A a \in Owners : a # o => OwnedBy(a)' = OwnedBy(a)
  <2>1. \A v \in BusyWorkers : v # w /\ row'[worker'[v].task].owner = row[worker[v].task].owner
    BY <1>1, <1>2 DEF BusyWorkers
  <2> QED
    BY <1>1, <1>2, <2>1 DEF OwnedBy
<1>4. OwnedBy(o) \subseteq BusyWorkers /\ w \notin OwnedBy(o) /\ IsFiniteSet(OwnedBy(o))
  BY <1>2, FS_Subset DEF OwnedBy
<1>5. /\ proc'.total = proc.total + 1 /\ proc'.byAgent[o] = proc.byAgent[o] + 1
      /\ \A a \in Owners : a # o => proc'.byAgent[a] = proc.byAgent[a]
  <2>1. proc \in ProcTypes
    BY DEF Typed
  <2> QED
    BY <2>1 DEF ProcTypes
<1>6. proc'.total = Cardinality(BusyWorkers')
  BY <1>2, <1>5, FS_AddElement DEF CountersMatch
<1>7. proc'.byAgent[o] = Cardinality(OwnedBy(o)')
  <2>1. Cardinality(OwnedBy(o) \cup {w}) = Cardinality(OwnedBy(o)) + 1
    BY <1>4, FS_AddElement
  <2>2. proc.byAgent[o] = Cardinality(OwnedBy(o))
    BY DEF CountersMatch, OwnedBy
  <2> QED
    BY <1>3, <1>5, <2>1, <2>2
<1>8. \A a \in Owners : a # o => proc'.byAgent[a] = Cardinality(OwnedBy(a)')
  BY <1>3, <1>5 DEF CountersMatch, OwnedBy
<1> QED
  BY <1>6, <1>7, <1>8 DEF CountersMatch, OwnedBy

LEMMA OneLess ==
    ASSUME TaskInv, NEW w \in Workers, NEW x, NEW o \in Owners,
           worker' = [worker EXCEPT ![w] = x], worker[w].pc \in Busy, x.pc \notin Busy,
           row[worker[w].task].owner = o, row' = row,
           proc' = [proc EXCEPT !.total = @ - 1, !.byAgent[o] = @ - 1, !.wake = TRUE]
    PROVE  CountersMatch'
<1> USE DEF TaskInv
<1>1. worker'[w] = x /\ \A v \in Workers : v # w => worker'[v] = worker[v]
  BY DEF Typed
<1>2. BusyWorkers' = BusyWorkers \ {w} /\ w \in BusyWorkers /\ IsFiniteSet(BusyWorkers)
  BY <1>1, FS_Subset, BoundsAssumption DEF BusyWorkers
<1>3. OwnedBy(o)' = OwnedBy(o) \ {w} /\ \A a \in Owners : a # o => OwnedBy(a)' = OwnedBy(a)
  <2>1. \A v \in BusyWorkers : v # w => row'[worker'[v].task].owner = row[worker[v].task].owner
    BY <1>1 DEF BusyWorkers
  <2> QED
    BY <1>1, <1>2, <2>1 DEF OwnedBy
<1>4. OwnedBy(o) \subseteq BusyWorkers /\ w \in OwnedBy(o) /\ IsFiniteSet(OwnedBy(o))
  BY <1>2, FS_Subset DEF OwnedBy
<1>5. /\ proc'.total = proc.total - 1 /\ proc'.byAgent[o] = proc.byAgent[o] - 1
      /\ \A a \in Owners : a # o => proc'.byAgent[a] = proc.byAgent[a]
  <2>1. proc \in ProcTypes
    BY DEF Typed
  <2> QED
    BY <2>1 DEF ProcTypes
<1>6. proc'.total = Cardinality(BusyWorkers')
  BY <1>2, <1>5, FS_RemoveElement DEF CountersMatch
<1>7. proc'.byAgent[o] = Cardinality(OwnedBy(o)')
  <2>1. Cardinality(OwnedBy(o) \ {w}) = Cardinality(OwnedBy(o)) - 1
    BY <1>4, FS_RemoveElement
  <2>2. proc.byAgent[o] = Cardinality(OwnedBy(o))
    BY DEF CountersMatch, OwnedBy
  <2> QED
    BY <1>3, <1>5, <2>1, <2>2
<1>8. \A a \in Owners : a # o => proc'.byAgent[a] = Cardinality(OwnedBy(a)')
  BY <1>3, <1>5 DEF CountersMatch, OwnedBy
<1> QED
  BY <1>6, <1>7, <1>8 DEF CountersMatch, OwnedBy

\* The worker that claims a queued row is the first to have it.
LEMMA ClaimTakes ==
    ASSUME TaskInv, Unstarted, NEW w \in Workers, NEW t \in Tasks, NEW x \in WorkerTypes,
           worker[w].pc = "loop", row[t].status = "queued",
           row' = [row EXCEPT ![t] = Claimed(row[t])],
           proc' = [proc EXCEPT !.total = @ + 1, !.byAgent[row[t].owner] = @ + 1],
           worker' = [worker EXCEPT ![w] = x],
           x.pc = "claimed", x.task = t, ~x.stopping,
           UNCHANGED <<child, active, caller, waiter, channel, reaper, told>>
    PROVE  TaskInv'
<1> USE DEF TaskInv
<1>1. worker' \in [Workers -> WorkerTypes] /\ worker'[w] = x /\ \A v \in Workers : v # w => worker'[v] = worker[v]
  BY DEF Typed
<1>2. worker[w].task = None /\ worker[w].pc \notin Busy /\ x.pc \in Busy /\ x.pc \notin Registered
  BY DEF Holding, Working, Busy, Registered, Executing, Finishing
<1>3. row[t] \in RowTypes /\ row[t].owner \in Owners /\ ~Started(t) /\ t # None
  BY DEF Typed, Holding, Recorded, Started, Tasks, None
<1>4. row' \in [Tasks -> RowTypes] /\ row'[t] = Claimed(row[t]) /\ \A u \in Tasks : u # t => row'[u] = row[u]
  <2>1. Claimed(row[t]) \in RowTypes
    BY <1>3, ClaimedTyped
  <2> QED
    BY <2>1 DEF Typed
<1>5. /\ row'[t].status = "running" /\ ~row'[t].stale /\ row'[t].instance = proc.instance
      /\ row'[t].owner = row[t].owner /\ row'[t].kind = row[t].kind /\ row'[t].attached = row[t].attached
  BY <1>3, <1>4, ClaimedTyped
<1>6. /\ proc' \in ProcTypes
      /\ UNCHANGED <<proc.state, proc.root, proc.instance, proc.limit, proc.perAgent, proc.faults, proc.wake>>
  <2>1. proc \in ProcTypes /\ proc.total + 1 \in Int /\ proc.byAgent[row[t].owner] + 1 \in Int
    BY <1>3 DEF Typed, ProcTypes
  <2> QED
    BY <2>1 DEF ProcTypes
<1>7. Typed'
  BY <1>1, <1>4, <1>6 DEF Typed
<1>8. \A v \in Workers : v # w => worker[v].task # t
  BY <1>3 DEF Holding, Working
<1>9. \A u : Started(u) => u \in Tasks /\ u # t /\ row'[u] = row[u] /\ Started(u)'
  <2>1. \A u : Started(u) => u \in Tasks /\ u # t
    BY <1>3 DEF Started
  <2> QED
    BY <1>4, <2>1 DEF Started
<1>10. Holding'
  <2>1. ASSUME NEW u \in Tasks PROVE Recorded(u)'
    <3>1. Recorded(u) /\ proc.instance \in Nat \ {0}
      BY DEF Holding, Typed, ProcTypes
    <3>2. CASE u = t
      BY <1>3, <1>5, <1>6, <3>1, <3>2 DEF Recorded, Held
    <3>3. CASE u # t
      BY <1>4, <1>6, <3>1, <3>3 DEF Recorded
    <3> QED
      BY <3>2, <3>3
  <2>2. ASSUME NEW v \in Workers PROVE Working(v)'
    <3>1. Working(v)
      BY DEF Holding
    <3>2. CASE v = w
      BY <1>1, <1>2, <1>3, <1>5, <1>6, <3>2 DEF Working, Started, Registered, Executing, Finishing
    <3>3. CASE v # w
      <4>1. worker'[v] = worker[v] /\ proc'.root = proc.root
        BY <1>1, <1>6, <3>3
      <4>2. worker[v].pc = "notify" => worker[v].task # None
        BY <3>1 DEF Working, Busy, Finishing
      <4> QED
        BY <1>6, <1>9, <3>1, <4>1, <4>2 DEF Working
    <3> QED
      BY <3>2, <3>3
  <2>3. Sole'
    BY <1>1, <1>8 DEF Holding, Sole
  <2>4. ASSUME NEW u \in Tasks, active[u] # None PROVE active[u] \in Workers /\ active[u] # w
    BY <1>2, <2>4 DEF Holding, Listed, Typed, Tasks, None
  <2>5. Listed'
    BY <1>1, <2>4 DEF Holding, Listed
  <2>6. Fresh'
    BY <1>6 DEF Unstarted, Fresh
  <2> QED
    BY <2>1, <2>2, <2>3, <2>5, <2>6 DEF Holding
<1>11. CountersMatch'
  <2>1. ASSUME NEW v \in BusyWorkers PROVE row'[worker[v].task].owner = row[worker[v].task].owner
    <3>1. v \in Workers /\ Started(worker[v].task)
      BY DEF BusyWorkers, Holding, Working
    <3> QED
      BY <1>9, <3>1
  <2> QED
    BY <1>2, <1>3, <1>5, <2>1, OneMore
<1>12. NoOrphanRun'
  <2>1. \A u \in Tasks : row'[u].attached = row[u].attached
    BY <1>4, <1>5
  <2> QED
    BY <1>1, <2>1 DEF NoOrphanRun
<1>13. Telling'
  <2>1. ASSUME NEW u \in Tasks, row[u].status \in Terminal PROVE row'[u].status \in Terminal
    <3>1. Started(u)
      BY <2>1 DEF Started, Terminal
    <3> QED
      BY <1>9, <2>1, <3>1
  <2>2. \A k \in Callers : caller[k].terminal => caller[k].task \in Tasks
    BY DEF Telling, Typed, CallerTypes
  <2>3. reaper.pc \in {"commit", "notify"} => Started(reaper.entry.task)' /\ reaper.entry.task \in Tasks
    BY <1>9 DEF Telling
  <2>4. told \subseteq Tasks
    BY DEF Typed
  <2> QED
    BY <2>1, <2>2, <2>3, <2>4 DEF Telling
<1>14. Sweeping'
  <2>1. ASSUME NEW e \in reaper.list PROVE Started(e.task)' /\ e.task # t
    <3>1. Started(e.task)
      BY DEF Sweeping
    <3> QED
      BY <1>9, <3>1
  <2>2. ASSUME NEW v \in Workers, worker'[v].pc = "claimed"
        PROVE  ~row'[worker'[v].task].stale /\ \A e \in reaper.list : e.task = worker'[v].task => ~e.old
    <3>1. CASE v = w
      BY <1>1, <1>5, <2>1, <3>1
    <3>2. CASE v # w
      <4>1. worker'[v] = worker[v] /\ worker[v].pc = "claimed"
        BY <1>1, <2>2, <3>2
      <4>2. Started(worker[v].task)
        BY <4>1 DEF Holding, Working, Busy
      <4> QED
        BY <1>9, <4>1, <4>2 DEF Sweeping
    <3> QED
      BY <3>1, <3>2
  <2>3. ASSUME reaper.pc = "commit", NEW v \in Workers, worker'[v].task = reaper.entry.task
        PROVE  worker'[v].pc = "release"
    <3>1. reaper.entry.task # t
      BY <1>9, <2>3 DEF Telling
    <3> QED
      BY <1>1, <2>3, <3>1 DEF Sweeping
  <2> QED
    BY <2>1, <2>2, <2>3 DEF Sweeping
<1>15. NoLostWakeup'
  BY <1>1 DEF NoLostWakeup
<1>16. TerminalIsTold' /\ NoLostNotify'
  <2>1. \A u \in Tasks : ToBeTold(u) => ToBeTold(u)'
    BY <1>1 DEF ToBeTold
  <2>2. \A u \in Tasks : row'[u].status \in Terminal => row[u].status \in Terminal
    BY <1>4, <1>5 DEF Terminal
  <2>3. Announced
    BY <1>6, <2>1, <2>2 DEF Announced
  <2> QED
    BY <2>3, AnnouncedKeeps
<1> QED
  BY <1>7, <1>10, <1>11, <1>12, <1>13, <1>14, <1>15, <1>16 DEF Listening

\* A worker that looks for a row takes the oldest one it may, or waits.
LEMMA ClaimKeeps ==
    ASSUME TaskInv, Unstarted, NEW w \in Workers, Claim(w)
    PROVE  TaskInv'
<1> USE DEF TaskInv
<1>1. UNCHANGED <<child, active, caller, waiter, channel, reaper, told>> /\ worker[w].pc = "loop" /\ ~proc.root
  BY DEF Claim
<1>2. ASSUME NEW t \in Tasks, Oldest(t),
             row' = [row EXCEPT ![t] = Claimed(row[t])],
             proc' = [proc EXCEPT !.total = @ + 1, !.byAgent[row[t].owner] = @ + 1],
             worker' = [worker EXCEPT ![w] = [Off EXCEPT !.pc = "claimed", !.task = t,
                                                         !.rev = row'[t].revision]]
      PROVE  TaskInv'
  <2> DEFINE x == [Off EXCEPT !.pc = "claimed", !.task = t, !.rev = row'[t].revision]
  <2>1. row'[t].revision \in Nat
    <3>1. row'[t] = Claimed(row[t]) /\ row[t] \in RowTypes
      BY <1>2 DEF Typed
    <3> QED
      BY <3>1, ClaimedTyped DEF RowTypes
  <2>2. x \in WorkerTypes /\ x.pc = "claimed" /\ x.task = t /\ ~x.stopping
    BY <2>1 DEF Off, WorkerTypes, Busy, Statuses
  <2>3. worker' = [worker EXCEPT ![w] = x]
    BY <1>2
  <2> HIDE DEF x
  <2>4. row[t].status = "queued"
    BY <1>2 DEF Oldest, Claimable
  <2> QED
    BY <1>1, <1>2, <2>2, <2>3, <2>4, ClaimTakes
<1>3. CASE /\ ~(proc.total < proc.limit /\ \E t \in Tasks : Claimable(t))
           /\ Go(w, "wait") /\ UNCHANGED <<row, proc>>
  <2> DEFINE x == [worker[w] EXCEPT !.pc = "wait"]
  <2>1. worker' = [worker EXCEPT ![w] = x] /\ worker[w] \in WorkerTypes
    BY <1>3 DEF Go, Typed
  <2>2. x \in WorkerTypes /\ x.pc = "wait" /\ x.task = worker[w].task /\ x.stopping = worker[w].stopping
    BY <2>1 DEF WorkerTypes, Idle
  <2> HIDE DEF x
  <2>3. worker' \in [Workers -> WorkerTypes] /\ worker'[w] = x /\ \A v \in Workers : v # w => worker'[v] = worker[v]
    BY <2>1, <2>2 DEF Typed
  <2>4. Typed'
    BY <1>1, <1>3, <2>3 DEF Typed
  <2>5. Aside
    BY <1>1, <1>3, <2>2, <2>3 DEF Aside, ProcKeeps, Idle, Holding, Fresh
  <2>6. NoLostWakeup'
    BY <1>3 DEF NoLostWakeup, Claimable
  <2> QED
    BY <1>1, <2>4, <2>5, <2>6, AsideKeeps
<1>4. CASE proc.total < proc.limit /\ \E t \in Tasks : Claimable(t)
  <2>1. PICK t \in Tasks :
           /\ Oldest(t) /\ row' = [row EXCEPT ![t] = Claimed(row[t])]
           /\ proc' = [proc EXCEPT !.total = @ + 1, !.byAgent[row[t].owner] = @ + 1]
           /\ worker' = [worker EXCEPT ![w] = [Off EXCEPT !.pc = "claimed", !.task = t,
                                                          !.rev = row'[t].revision]]
    BY <1>4 DEF Claim
  <2> QED
    BY <1>2, <2>1
<1> QED
  BY <1>3, <1>4 DEF Claim

LEMMA ReleaseKeeps ==
    ASSUME TaskInv, NEW w \in Workers, Release(w)
    PROVE  TaskInv'
<1> DEFINE x == [Off EXCEPT !.pc = "loop"]
           o == row[worker[w].task].owner
<1> USE DEF TaskInv
<1>1. /\ UNCHANGED <<row, child, active, caller, waiter, channel, reaper, told>> /\ worker[w].pc = "release"
      /\ proc' = [proc EXCEPT !.total = @ - 1, !.byAgent[o] = @ - 1, !.wake = TRUE]
      /\ worker' = [worker EXCEPT ![w] = x]
  BY DEF Release
<1>2. /\ worker[w].pc \in Busy /\ worker[w].pc \notin Registered
      /\ x \in WorkerTypes /\ x.pc = "loop" /\ x.task = None /\ ~x.stopping
      /\ x.pc \notin Busy /\ x.pc \notin Registered
  BY <1>1 DEF Off, WorkerTypes, Idle, Busy, Registered, Executing, Finishing, Statuses
<1>3. o \in Owners
  BY <1>2 DEF Holding, Working, Started, Recorded
<1>4. /\ proc' \in ProcTypes /\ proc'.wake
      /\ UNCHANGED <<proc.state, proc.root, proc.instance>>
  <2>1. proc \in ProcTypes /\ proc.total - 1 \in Int /\ proc.byAgent[o] - 1 \in Int
    BY <1>3 DEF Typed, ProcTypes
  <2> HIDE DEF o
  <2> QED
    BY <1>1, <1>3, <2>1 DEF ProcTypes
<1>5. CountersMatch'
  BY <1>1, <1>2, <1>3, OneLess
<1> HIDE DEF x, o
<1>6. worker' \in [Workers -> WorkerTypes] /\ worker'[w] = x /\ \A v \in Workers : v # w => worker'[v] = worker[v]
  BY <1>1, <1>2 DEF Typed
<1>7. Typed'
  BY <1>1, <1>4, <1>6 DEF Typed
<1>8. Holding'
  <2>1. \A u \in Tasks : Recorded(u)'
    BY <1>1, <1>4 DEF Holding, Recorded
  <2>2. ASSUME NEW v \in Workers PROVE Working(v)'
    <3>1. CASE v = w
      <4>1. x.pc # "notify"
        BY <1>2
      <4> QED
        BY <1>2, <1>6, <3>1, <4>1 DEF Working
    <3>2. CASE v # w
      BY <1>1, <1>4, <1>6, <3>2 DEF Holding, Working, Started
    <3> QED
      BY <3>1, <3>2
  <2>3. Sole'
    BY <1>2, <1>6 DEF Holding, Sole
  <2>4. Listed'
    BY <1>1, <1>2, <1>6 DEF Holding, Listed, Typed
  <2>5. Fresh'
    BY <1>1, <1>2, <1>4, <1>6 DEF Holding, Fresh
  <2> QED
    BY <2>1, <2>2, <2>3, <2>4, <2>5 DEF Holding
<1>9. NoOrphanRun'
  BY <1>1, <1>6 DEF NoOrphanRun
<1>10. Telling'
  BY <1>1 DEF Telling, Started
<1>11. Sweeping'
  <2>1. reaper.pc = "commit" => reaper.entry.task # None
    BY DEF Telling, Started, Tasks, None
  <2> QED
    BY <1>1, <1>2, <1>6, <2>1 DEF Sweeping, Started
<1>12. NoLostWakeup'
  BY <1>4 DEF NoLostWakeup
<1>13. TerminalIsTold' /\ NoLostNotify'
  <2>1. \A u \in Tasks : ToBeTold(u) => ToBeTold(u)'
    BY <1>1, <1>6 DEF ToBeTold
  <2>2. Announced
    BY <1>1, <1>4, <2>1 DEF Announced
  <2> QED
    BY <2>2, AnnouncedKeeps
<1> QED
  BY <1>1, <1>5, <1>7, <1>8, <1>9, <1>10, <1>11, <1>12, <1>13 DEF Listening

-----------------------------------------------------------------------------
(* The manager starts, and starts over.                                     *)

\* What the reconciliation does to a row.
LEMMA ReconciledRow ==
    ASSUME Typed, NEW t \in Tasks, Recorded(t)
    PROVE  /\ Reconciled(row[t]) \in RowTypes
           /\ \A f \in {"owner", "kind", "attached"} : Reconciled(row[t])[f] = row[t][f]
           /\ \/ Reconciled(row[t]) = row[t] /\ (row[t].status \in Held => row[t].instance = proc.instance)
              \/ /\ row[t].status \in Held /\ row[t].instance # proc.instance
                 /\ Reconciled(row[t]).status = "interrupted" /\ ~Reconciled(row[t]).stale
<1>1. row[t] \in RowTypes /\ "interrupted" \in Terminal
  BY DEF Typed, Terminal
<1>2. CASE row[t].status \in Held /\ row[t].instance # proc.instance
  <2>1. Reconciled(row[t]) = Ended(row[t], "interrupted")
    BY <1>2 DEF Reconciled
  <2> QED
    BY <1>1, <1>2, <2>1, EndedTyped
<1>3. CASE ~(row[t].status \in Held /\ row[t].instance # proc.instance)
  <2>1. Reconciled(row[t]) = row[t]
    BY <1>3 DEF Reconciled
  <2> QED
    BY <1>1, <1>3, <2>1
<1> QED
  BY <1>2, <1>3

LEMMA StartKeeps ==
    ASSUME TaskInv, Start
    PROVE  TaskInv'
<1> USE DEF TaskInv
<1>1. /\ UNCHANGED <<child, active, caller, waiter, channel, reaper, told>> /\ proc.state = "new"
      /\ row' = [t \in Tasks |-> Reconciled(row[t])]
      /\ proc' = [proc EXCEPT !.state = "running", !.wake = TRUE]
  BY DEF Start
<1>2. PICK started \in SUBSET Workers :
         worker' = [w \in Workers |-> IF w \in started THEN [Off EXCEPT !.pc = "loop"] ELSE Off]
  BY DEF Start
<1>3. (\A w \in Workers : worker[w].task = None) /\ (\A k \in Waiters : waiter[k].pc = "idle")
      /\ (\A t \in Tasks : active[t] = None)
  BY <1>1 DEF Holding, Fresh, Listed, Typed, Tasks, None
<1>4. ASSUME NEW w \in Workers
      PROVE  /\ worker'[w] \in WorkerTypes /\ worker'[w].task = None /\ ~worker'[w].stopping
             /\ worker'[w].pc \in {"off", "loop"}
  <2>1. Off \in WorkerTypes /\ [Off EXCEPT !.pc = "loop"] \in WorkerTypes
    BY DEF Off, WorkerTypes, Idle, Statuses
  <2> QED
    BY <1>2, <2>1 DEF Off
<1>5. /\ proc' \in ProcTypes /\ proc'.state = "running" /\ proc'.wake
      /\ UNCHANGED <<proc.instance, proc.total, proc.byAgent>>
  <2>1. proc \in ProcTypes
    BY DEF Typed
  <2> QED
    BY <1>1, <2>1 DEF ProcTypes
<1>6. ASSUME NEW t \in Tasks
      PROVE  /\ row'[t] \in RowTypes
             /\ row'[t].owner = row[t].owner /\ row'[t].kind = row[t].kind /\ row'[t].attached = row[t].attached
             /\ \/ row'[t] = row[t] /\ (row[t].status \in Held => row[t].instance = proc.instance)
                \/ /\ row[t].status \in Held /\ row[t].instance # proc.instance
                   /\ row'[t].status = "interrupted" /\ ~row'[t].stale
  BY <1>1, ReconciledRow DEF Holding
<1>7. Typed'
  <2>1. row' \in [Tasks -> RowTypes] /\ worker' \in [Workers -> WorkerTypes]
    BY <1>1, <1>2, <1>4, <1>6
  <2> QED
    BY <1>1, <1>5, <2>1 DEF Typed
<1>8. \A t : Started(t) => Started(t)'
  <2>1. "interrupted" \notin {"none", "queued"}
    OBVIOUS
  <2> QED
    BY <1>6, <2>1 DEF Started
<1>9. \A t \in Tasks : row[t].status \in Terminal => row'[t] = row[t]
  <2>1. Held \cap Terminal = {}
    BY DEF Held, Terminal
  <2> QED
    BY <1>6, <2>1
<1>10. Holding'
  <2>1. ASSUME NEW t \in Tasks PROVE Recorded(t)'
    <3>1. Recorded(t) /\ proc.instance \in Nat \ {0}
      BY DEF Holding, Typed, ProcTypes
    <3> QED
      BY <1>1, <1>5, <1>6, <3>1 DEF Recorded, Held
  <2>2. ASSUME NEW w \in Workers PROVE Working(w)'
    BY <1>4 DEF Working, Busy, Registered, Executing, Finishing
  <2>3. Sole' /\ Listed' /\ Fresh'
    BY <1>1, <1>3, <1>4, <1>5 DEF Sole, Listed, Fresh
  <2> QED
    BY <2>1, <2>2, <2>3 DEF Holding
<1>11. CountersMatch'
  <2>1. BusyWorkers = {}
    BY <1>3 DEF BusyWorkers, Holding, Working
  <2>2. BusyWorkers' = {}
    BY <1>4 DEF BusyWorkers, Busy, Executing, Finishing
  <2>3. \A a \in Owners : {w \in BusyWorkers : row[worker[w].task].owner = a} = {}
                          /\ {w \in BusyWorkers' : row'[worker'[w].task].owner = a} = {}
    BY <2>1, <2>2
  <2> QED
    BY <1>5, <2>1, <2>2, <2>3 DEF CountersMatch
<1>12. NoOrphanRun'
  <2>1. ASSUME NEW t \in Tasks, child[t] = "running" PROVE row'[t].attached
    BY <1>3, <1>6, <2>1 DEF NoOrphanRun, Tasks, None
  <2> QED
    BY <1>1, <2>1 DEF NoOrphanRun
<1>13. Telling'
  <2>1. \A k \in Callers : caller[k].terminal => caller[k].task \in Tasks
    BY DEF Telling, Typed, CallerTypes
  <2>2. reaper.pc \in {"commit", "notify"} => reaper.entry.task \in Tasks
    BY DEF Telling, Started
  <2> QED
    BY <1>1, <1>8, <1>9, <2>1, <2>2 DEF Telling, Typed
<1>14. Sweeping'
  <2>1. reaper.pc = "commit" => reaper.entry.task # None
    BY DEF Telling, Started, Tasks, None
  <2> QED
    BY <1>1, <1>4, <1>8, <2>1 DEF Sweeping
<1>15. NoLostWakeup' /\ NoLostNotify'
  BY <1>1, <1>3, <1>5 DEF NoLostWakeup, NoLostNotify
<1>16. TerminalIsTold'
  <2> SUFFICES ASSUME proc.instance = 1, NEW t \in Tasks, row'[t].status \in Terminal
               PROVE  t \in told \/ ToBeTold(t)'
    BY <1>1, <1>5 DEF TerminalIsTold
  <2>1. row[t].status \in Held => row[t].instance = proc.instance
    BY DEF Holding, Recorded
  <2>2. row[t].status \in Terminal
    BY <1>6, <2>1
  <2>3. ToBeTold(t) => ToBeTold(t)'
    BY <1>1, <1>3 DEF ToBeTold, Tasks, None
  <2> QED
    BY <2>2, <2>3 DEF TerminalIsTold
<1> QED
  BY <1>1, <1>7, <1>10, <1>11, <1>12, <1>13, <1>14, <1>15, <1>16 DEF Listening

\* A process in which nothing has happened yet.
Blank ==
    /\ proc \in ProcTypes /\ proc.state = "new" /\ proc.total = 0 /\ proc.byAgent = [a \in Owners |-> 0]
    /\ active = [t \in Tasks |-> None]
    /\ worker = [w \in Workers |-> Off]
    /\ caller = [k \in Callers |-> NoCall]
    /\ waiter = [k \in Waiters |-> NoWait]
    /\ channel = [t \in Tasks |-> {}]
    /\ reaper = NoSweep

Beginning ==
    /\ Blank
    /\ row \in [Tasks -> RowTypes] /\ child \in [Tasks -> {"none", "done", "stopped"}] /\ told \in SUBSET Tasks
    /\ \A t \in Tasks : Recorded(t)
    /\ \A t \in told : row[t].status \in Terminal
    /\ TerminalIsTold

\* Whatever the rows say, a process that begins satisfies the invariant.
LEMMA BeginningHolds == Beginning => TaskInv /\ Unstarted
<1> SUFFICES ASSUME Beginning PROVE TaskInv /\ Unstarted
  OBVIOUS
<1> USE DEF Beginning
<1>1. /\ Off \in WorkerTypes /\ NoCall \in CallerTypes /\ NoWait \in WaiterTypes /\ NoSweep \in ReaperTypes
      /\ Off.task = None /\ Off.pc = "off" /\ Off.stopping = FALSE
      /\ NoCall.pc = "idle" /\ NoCall.task = None /\ NoCall.terminal = FALSE
      /\ NoWait.pc = "idle"
      /\ NoSweep.pc = "idle" /\ NoSweep.list = {}
  <2>1. Off \in WorkerTypes /\ Off.task = None /\ Off.pc = "off" /\ Off.stopping = FALSE
    BY DEF Off, WorkerTypes, Idle, Statuses
  <2>2. NoCall \in CallerTypes /\ NoCall.pc = "idle" /\ NoCall.task = None /\ NoCall.terminal = FALSE
    BY DEF NoCall, CallerTypes
  <2>3. NoWait \in WaiterTypes /\ NoWait.pc = "idle"
    BY DEF NoWait, WaiterTypes
  <2>4. NoSweep \in ReaperTypes /\ NoSweep.pc = "idle" /\ NoSweep.list = {}
    BY DEF NoSweep, ReaperTypes, Entries
  <2> QED
    BY <2>1, <2>2, <2>3, <2>4
<1>2. Typed
  BY <1>1 DEF Typed, Blank, ReaperTypes
<1>3. BusyWorkers = {} /\ Unstarted
  BY <1>1 DEF BusyWorkers, Blank, Busy, Executing, Finishing, Unstarted
<1>4. Holding
  <2>1. \A w \in Workers : Working(w)
    BY <1>1 DEF Working, Blank, Busy, Registered, Executing, Finishing
  <2> QED
    BY <1>1, <2>1 DEF Holding, Sole, Listed, Fresh, Blank
<1>5. CountersMatch
  <2>1. \A a \in Owners : {w \in BusyWorkers : row[worker[w].task].owner = a} = {} /\ proc.byAgent[a] = 0
    BY <1>3 DEF Blank
  <2> QED
    BY <1>3, <2>1, FS_EmptySet DEF CountersMatch, Blank
<1>6. NoOrphanRun
  BY DEF NoOrphanRun
<1>7. Telling
  BY <1>1 DEF Telling, Blank
<1>8. Listening /\ NoLostNotify
  BY <1>1 DEF Listening, NoLostNotify, Blank
<1>9. NoLostWakeup
  BY DEF NoLostWakeup, Blank
<1>10. Sweeping
  BY <1>1 DEF Sweeping, Blank
<1> QED
  BY <1>2, <1>3, <1>4, <1>5, <1>6, <1>7, <1>8, <1>9, <1>10 DEF TaskInv

LEMMA InitHolds == Init => TaskInv /\ Unstarted
<1> SUFFICES ASSUME Init PROVE TaskInv /\ Unstarted
  OBVIOUS
<1>1. Blank
  <2>1. PICK n \in Limits, m \in AgentLimits : proc = NewProc(1, n, m)
    BY DEF Init
  <2>2. n \in Nat /\ m \in Nat
    BY BoundsAssumption
  <2>3. proc \in ProcTypes /\ proc.state = "new" /\ proc.total = 0 /\ proc.byAgent = [a \in Owners |-> 0]
    BY <2>1, <2>2 DEF NewProc, ProcTypes
  <2> QED
    BY <2>3 DEF Init, Blank
<1>2. NoRow \in RowTypes /\ NoRow.status = "none" /\ NoRow.stale = FALSE
  BY DEF NoRow, RowTypes, Statuses
<1>3. row \in [Tasks -> RowTypes] /\ \A t \in Tasks : row[t].status = "none" /\ row[t].stale = FALSE
  BY <1>2 DEF Init
<1>4. \A t \in Tasks : Recorded(t) /\ row[t].status \notin Terminal
  BY <1>3 DEF Recorded, Init, Held, Terminal
<1>5. TerminalIsTold
  BY <1>4 DEF TerminalIsTold
<1> QED
  BY <1>1, <1>3, <1>4, <1>5, BeginningHolds DEF Init, Beginning

LEMMA RestartKeeps ==
    ASSUME TaskInv, Restart
    PROVE  TaskInv' /\ Unstarted'
<1> USE DEF TaskInv
<1>1. /\ UNCHANGED <<row, told>>
      /\ proc' = [NewProc(proc.instance + 1, proc.limit, proc.perAgent)
                    EXCEPT !.settings = proc.settings, !.cancels = proc.cancels, !.faults = proc.faults]
      /\ child' = [t \in Tasks |-> IF child[t] = "running" THEN "stopped" ELSE child[t]]
  BY DEF Restart
<1>2. proc \in ProcTypes
  BY DEF Typed
<1>3. /\ proc' \in ProcTypes /\ proc'.state = "new" /\ proc'.total = 0 /\ proc'.byAgent = [a \in Owners |-> 0]
      /\ proc'.instance = proc.instance + 1 /\ proc'.instance # 1
  <2> DEFINE p == NewProc(proc.instance + 1, proc.limit, proc.perAgent)
  <2>1. proc.instance + 1 \in Nat \ {0, 1}
    BY <1>2 DEF ProcTypes
  <2>2. /\ p \in ProcTypes /\ p.state = "new" /\ p.total = 0 /\ p.byAgent = [a \in Owners |-> 0]
        /\ p.instance = proc.instance + 1
    BY <1>2, <2>1 DEF NewProc, ProcTypes
  <2>3. proc' = [p EXCEPT !.settings = proc.settings, !.cancels = proc.cancels, !.faults = proc.faults]
    BY <1>1
  <2> HIDE DEF p
  <2> QED
    BY <1>2, <2>1, <2>2, <2>3 DEF ProcTypes
<1>4. Blank'
  BY <1>3 DEF Blank, Restart
<1>5. child' \in [Tasks -> {"none", "done", "stopped"}] /\ \A t \in Tasks : child[t] = "none" => child'[t] = "none"
  BY <1>1 DEF Typed
<1>6. ASSUME NEW t \in Tasks PROVE Recorded(t)'
  <2>1. Recorded(t) /\ proc.instance \in Nat
    BY <1>2 DEF Holding, ProcTypes
  <2> QED
    BY <1>1, <1>3, <1>5, <2>1 DEF Recorded
<1>7. TerminalIsTold'
  BY <1>3 DEF TerminalIsTold
<1>8. Beginning'
  BY <1>1, <1>4, <1>5, <1>6, <1>7 DEF Typed, Telling, Beginning
<1>9. Beginning' => TaskInv' /\ Unstarted'
  BY BeginningHolds, PTL
<1> QED
  BY <1>8, <1>9

-----------------------------------------------------------------------------
(* Every step.                                                              *)

LEMMA UnstartedKeeps ==
    ASSUME TaskInv, Unstarted, Next
    PROVE  Unstarted'
<1> SUFFICES ASSUME proc'.state = "new", NEW v \in Workers PROVE worker'[v].pc = "off"
  BY DEF Unstarted
<1> USE DEF Unstarted, TaskInv
<1>0. proc \in ProcTypes /\ worker \in [Workers -> WorkerTypes]
  BY DEF Typed
<1>1. CASE Start
  BY <1>0, <1>1 DEF Start, ProcTypes
<1>2. CASE CloseBegin \/ CloseCancel \/ CloseEnd
  BY <1>0, <1>2 DEF CloseBegin, CloseCancel, CloseEnd, ProcTypes
<1>3. CASE Restart
  BY <1>3 DEF Restart, Off
<1>4. ASSUME NEW k \in Callers, SubmitCheck(k) \/ SubmitCreate(k) \/ SignalWake(k) \/ CancelTell(k)
      PROVE  worker' = worker /\ proc'.state = proc.state
  BY <1>0, <1>4 DEF SubmitCheck, SubmitCreate, SignalWake, CancelTell, ProcTypes
<1>5. ASSUME NEW k \in Callers, NEW t \in Tasks, Cancel(k, t)
      PROVE  worker' = worker /\ proc'.state = proc.state
  BY <1>0, <1>5 DEF Cancel, ProcTypes
<1>6. ASSUME NEW k \in Callers, CancelActive(k)
      PROVE  worker'[v].pc = worker[v].pc /\ proc'.state = proc.state
  BY <1>0, <1>6 DEF CancelActive, Cancelled, WorkerTypes
<1>7. ASSUME NEW k \in Callers, NEW n \in Limits, NEW m \in AgentLimits, UpdateSettings(k, n, m)
      PROVE  proc'.state = proc.state /\ (proc.state = "new" => worker' = worker)
  BY <1>0, <1>7 DEF UpdateSettings, ProcTypes
<1>8. ASSUME NEW w \in Workers,
             \/ Exit(w) \/ Claim(w) \/ ClaimFails(w) \/ TakeWake(w) \/ PollTimer(w)
             \/ Register(w) \/ Execute(w) \/ Finish(w)
      PROVE  worker[w].pc # "off" /\ proc'.state = proc.state
  <2>1. worker[w].pc # "off"
    BY <1>8 DEF Exit, Claim, ClaimFails, TakeWake, PollTimer, Register, Execute, Finish, Reject, ShellDone, Launch,
                Attach, Announce, Poll, PollFails, Select, FinishRead, FinishCommit, FinishRecheck, FinishNotify,
                Unregister, Release
  <2>2. Fault \/ TakeWake(w) \/ Register(w) => proc'.state = proc.state
    BY <1>0 DEF Fault, TakeWake, Register, ProcTypes
  <2>3. Claim(w) \/ Release(w) => proc'.state = proc.state
    BY <1>0 DEF Claim, Release, ProcTypes
  <2>4. Exit(w) \/ ClaimFails(w) \/ PollTimer(w) => proc'.state = proc.state
    BY <2>2 DEF Exit, ClaimFails, PollTimer
  <2>5. Execute(w) => proc'.state = proc.state
    BY <2>2 DEF Execute, Reject, ShellDone, Launch, Attach, Announce, Poll, PollFails, Select
  <2>6. Finish(w) => proc'.state = proc.state
    BY <2>2, <2>3 DEF Finish, FinishRead, FinishCommit, FinishRecheck, FinishNotify, Unregister
  <2> QED
    BY <1>8, <2>1, <2>2, <2>3, <2>4, <2>5, <2>6
<1>9. ASSUME NEW t \in Tasks, ChildEnds(t) \/ Age(t)
      PROVE  worker' = worker /\ proc'.state = proc.state
  BY <1>9 DEF ChildEnds, Age
<1>10. CASE Reap
  BY <1>10 DEF Reap, ReapList, ReapCheck, ReapCommit, ReapNotify
<1>11. ASSUME NEW k \in Waiters, WaitRead(k) \/ WaitWake(k) \/ WaitTimer(k) \/ WaitLeave(k)
       PROVE  worker' = worker /\ proc'.state = proc.state
  BY <1>11 DEF WaitRead, WaitWake, WaitTimer, WaitLeave
<1>12. ASSUME NEW k \in Waiters, NEW t \in Tasks, WaitRegister(k, t)
       PROVE  worker' = worker /\ proc'.state = proc.state
  BY <1>12 DEF WaitRegister
<1> QED
  BY <1>1, <1>2, <1>3, <1>4, <1>5, <1>6, <1>7, <1>8, <1>9, <1>10, <1>11, <1>12 DEF Next

\* The invariant is inductive.
LEMMA StepsKeep == TaskInv /\ Unstarted /\ [Next]_vars => TaskInv' /\ Unstarted'
<1> SUFFICES ASSUME TaskInv, Unstarted, [Next]_vars PROVE TaskInv' /\ Unstarted'
  OBVIOUS
<1>1. CASE UNCHANGED vars
  <2>1. UNCHANGED <<row, child, proc, active, worker, caller, waiter, channel, reaper, told>>
    BY <1>1 DEF vars
  <2>2. Steady
    <3>1. \A t \in Tasks : RowKeeps(t) /\ Recorded(t)'
      BY <2>1, RowsRest DEF TaskInv, Holding, Recorded
    <3>2. \A w \in Workers : WorkerKeeps(w)
      BY <2>1 DEF WorkerKeeps, TaskInv, Holding, Working
    <3> QED
      BY <2>1, <3>1, <3>2 DEF Steady, ProcKeeps, TaskInv, Holding, Fresh
  <2>3. Holding' /\ CountersMatch' /\ Sweeping' /\ Telling'
    BY <2>1, <2>2, SteadyHolds, SteadySweeps, SteadyTells DEF TaskInv
  <2>4. Typed' /\ NoOrphanRun' /\ Listening' /\ Unstarted'
    BY <2>1 DEF TaskInv, Typed, NoOrphanRun, Listening, Unstarted
  <2>5. TerminalIsTold' /\ NoLostNotify'
    BY <2>1, AnnouncedKeeps DEF Announced, ToBeTold, TaskInv
  <2>6. NoLostWakeup'
    BY <2>1, CalmKeeps DEF Calm, TaskInv
  <2> QED
    BY <2>3, <2>4, <2>5, <2>6 DEF TaskInv
<1>2. CASE Next
  <2>1. Unstarted'
    BY <1>2, UnstartedKeeps
  <2>2. CASE Start \/ CloseBegin \/ CloseCancel \/ CloseEnd \/ Restart
    BY <2>1, <2>2, StartKeeps, ManagerKeeps, CloseCancelKeeps, RestartKeeps
  <2>3. ASSUME NEW k \in Callers,
               \/ SubmitCheck(k) \/ SubmitCreate(k) \/ SignalWake(k) \/ CancelActive(k) \/ CancelTell(k)
        PROVE  TaskInv'
    BY <2>3, CallersKeep, SubmitCreateKeeps, CancelActiveKeeps, CancelTellKeeps
  <2>4. ASSUME NEW k \in Callers, NEW t \in Tasks, Cancel(k, t) PROVE TaskInv'
    BY <2>4, CancelKeeps
  <2>5. ASSUME NEW k \in Callers, NEW n \in Limits, NEW m \in AgentLimits, UpdateSettings(k, n, m)
        PROVE  TaskInv'
    BY <2>5, SettingsKeep
  <2>6. ASSUME NEW w \in Workers,
               Exit(w) \/ Claim(w) \/ ClaimFails(w) \/ TakeWake(w) \/ PollTimer(w) \/ Register(w)
        PROVE  TaskInv'
    BY <2>6, IdleKeeps, ClaimKeeps, RegisterKeeps
  <2>7. ASSUME NEW w \in Workers, Execute(w) PROVE TaskInv'
    BY <2>7, ExecutorReturns, LaunchKeeps, AttachKeeps, AnnounceKeeps, PollKeeps DEF Execute
  <2>8. ASSUME NEW w \in Workers, Finish(w) PROVE TaskInv'
    BY <2>8, FinishReadKeeps, FinishCommitKeeps, FinishRecheckKeeps, FinishNotifyKeeps, UnregisterKeeps, ReleaseKeeps
       DEF Finish
  <2>9. ASSUME NEW t \in Tasks, ChildEnds(t) \/ Age(t) PROVE TaskInv'
    BY <2>9, ChildEndsKeeps, AgeKeeps
  <2>10. CASE Reap
    BY <2>1, <2>10, ReapListKeeps, ReapCheckKeeps, ReapCommitKeeps, ReapNotifyKeeps DEF Reap
  <2>11. ASSUME NEW k \in Waiters, WaitRead(k) \/ WaitWake(k) \/ WaitTimer(k) \/ WaitLeave(k) PROVE TaskInv'
    BY <2>11, WaitReadKeeps, WaitersKeep
  <2>12. ASSUME NEW k \in Waiters, NEW t \in Tasks, WaitRegister(k, t) PROVE TaskInv'
    BY <2>12, WaitRegisterKeeps
  <2> QED
    BY <1>2, <2>1, <2>2, <2>3, <2>4, <2>5, <2>6, <2>7, <2>8, <2>9, <2>10, <2>11, <2>12 DEF Next
<1> QED
  BY <1>1, <1>2

-----------------------------------------------------------------------------
(* The theorems.                                                            *)

\* The inductive invariant holds in every reachable state.
THEOREM TaskInvariant == Spec => [](TaskInv /\ Unstarted)
BY InitHolds, StepsKeep, PTL DEF Spec

\* A claimed task has one executor, and Cancel finds that one in manager.active.
THEOREM SoleExecutorHolds == Spec => []SoleExecutor
<1>1. TaskInv => SoleExecutor
  <2> SUFFICES ASSUME TaskInv PROVE SoleExecutor
    OBVIOUS
  <2>1. \A w \in BusyWorkers : w \in Workers /\ worker[w].task # None /\ Started(worker[w].task)
    BY DEF TaskInv, BusyWorkers, Holding, Working
  <2>2. \A v, w \in BusyWorkers : worker[v].task = worker[w].task => v = w
    BY <2>1 DEF TaskInv, Holding, Sole
  <2>3. \A t \in Tasks : active[t] # None => worker[active[t]].task = t
    BY DEF TaskInv, Holding, Listed
  <2>4. ASSUME NEW w \in BusyWorkers
        PROVE  /\ row[worker[w].task].status # "queued"
               /\ row[worker[w].task].status \in Held => row[worker[w].task].instance = proc.instance
    BY <2>1 DEF TaskInv, Holding, Working, Started
  <2> QED
    BY <2>2, <2>3, <2>4 DEF SoleExecutor
<1> QED
  BY <1>1, TaskInvariant, PTL

\* The claim counters are the workers that hold a task, in total and per owner.
THEOREM CountersMatchHolds == Spec => []CountersMatch
<1>1. TaskInv => CountersMatch
  BY DEF TaskInv
<1> QED
  BY <1>1, TaskInvariant, PTL

\* A child run that its row does not name is about to be attached or interrupted.
THEOREM NoOrphanRunHolds == Spec => []NoOrphanRun
<1>1. TaskInv => NoOrphanRun
  BY DEF TaskInv
<1> QED
  BY <1>1, TaskInvariant, PTL

\* Every end in the first process has had, or is about to have, its hook run.
THEOREM TerminalIsToldHolds == Spec => []TerminalIsTold
<1>1. TaskInv => TerminalIsTold
  BY DEF TaskInv
<1> QED
  BY <1>1, TaskInvariant, PTL

\* No waiter sleeps through the end of its task.
THEOREM NoLostNotifyHolds == Spec => []NoLostNotify
<1>1. TaskInv => NoLostNotify
  BY DEF TaskInv
<1> QED
  BY <1>1, TaskInvariant, PTL

\* No wake event is lost while a row can be claimed.
THEOREM NoLostWakeupHolds == Spec => []NoLostWakeup
<1>1. TaskInv => NoLostWakeup
  BY DEF TaskInv
<1> QED
  BY <1>1, TaskInvariant, PTL

\* Who may write interrupted: the reconciliation, a worker that stops with the
\* manager, and the reaper on a row its worker gave up.
LEMMA StepEnds ==
    ASSUME TaskInv, Next, NEW t \in Tasks, Ends(t)
    PROVE  \/ proc.state = "new" \/ proc.root
           \/ \A w \in BusyWorkers : worker[w].task = t => worker[w].pc = "release"
<1> USE DEF TaskInv
<1>0. /\ row \in [Tasks -> RowTypes] /\ row[t].status \in Held /\ row[t].status # "interrupted"
      /\ row'[t].status = "interrupted" /\ row'[t].status # row[t].status /\ row' # row
  BY DEF Ends, Held, Typed
<1>1. CASE Start
  BY <1>1 DEF Start
<1>2. CASE CloseBegin \/ CloseCancel \/ CloseEnd \/ Restart
  BY <1>0, <1>2 DEF CloseBegin, CloseCancel, CloseEnd, Restart
<1>3. ASSUME NEW k \in Callers, SubmitCheck(k) \/ SignalWake(k) \/ CancelActive(k) \/ CancelTell(k)
      PROVE  FALSE
  BY <1>0, <1>3 DEF SubmitCheck, SignalWake, CancelActive, CancelTell
<1>4. ASSUME NEW k \in Callers, SubmitCreate(k) PROVE FALSE
  <2> DEFINE New(a, kind) == [NoRow EXCEPT !.status = "queued", !.revision = 1, !.owner = a, !.kind = kind]
  <2>1. ASSUME NEW u \in Tasks, NEW a \in Owners, NEW kind \in Kinds, row[u].status = "none",
               row' = [row EXCEPT ![u] = New(a, kind)]
        PROVE  FALSE
    <3>1. New(a, kind).status = "queued"
      BY DEF NoRow
    <3> HIDE DEF New
    <3> QED
      BY <1>0, <2>1, <3>1
  <2>2. ~UNCHANGED row
    BY <1>0
  <2> QED
    BY <1>4, <2>1, <2>2 DEF SubmitCreate
<1>5. ASSUME NEW k \in Callers, NEW u \in Tasks, Cancel(k, u) PROVE FALSE
  <2>1. row' = [row EXCEPT ![u] = CancelRequested(row[u])]
    BY <1>5 DEF Cancel
  <2>2. u = t /\ row'[t] = CancelRequested(row[t])
    BY <1>0, <2>1
  <2>3. CASE row[t].status = "running"
    <3>1. CancelRequested(row[t]).status = "cancel_requested"
      BY <1>0, <2>3 DEF CancelRequested, RowTypes
    <3> QED
      BY <1>0, <2>2, <3>1
  <2>4. CASE row[t].status = "cancel_requested"
    BY <1>0, <2>2, <2>4 DEF CancelRequested
  <2> QED
    BY <1>0, <2>3, <2>4 DEF Held
<1>6. ASSUME NEW k \in Callers, NEW n \in Limits, NEW m \in AgentLimits, UpdateSettings(k, n, m) PROVE FALSE
  BY <1>0, <1>6 DEF UpdateSettings
<1>7. ASSUME NEW w \in Workers, Exit(w) \/ ClaimFails(w) \/ TakeWake(w) \/ PollTimer(w) \/ Register(w)
      PROVE  FALSE
  BY <1>0, <1>7 DEF Exit, ClaimFails, TakeWake, PollTimer, Register
<1>8. ASSUME NEW w \in Workers, Claim(w) PROVE FALSE
  <2>1. PICK u \in Tasks : row' = [row EXCEPT ![u] = Claimed(row[u])]
    BY <1>0, <1>8 DEF Claim
  <2>2. Claimed(row[u]).status = "running"
    BY <1>0, ClaimedTyped
  <2> QED
    BY <1>0, <2>1, <2>2
<1>9. ASSUME NEW w \in Workers, Execute(w) PROVE FALSE
  <2>1. CASE Attach(w)
    <3>1. row' = [row EXCEPT ![worker[w].task] = Attached(row[worker[w].task])]
      BY <1>0, <2>1 DEF Attach
    <3>2. row'[t] = Attached(row[t])
      BY <1>0, <3>1
    <3>3. Attached(row[t]).status = row[t].status
      BY <1>0 DEF Attached, RowTypes
    <3> QED
      BY <1>0, <3>2, <3>3
  <2>2. CASE Announce(w)
    <3>1. row' = [row EXCEPT ![worker[w].task] = [row[worker[w].task] EXCEPT !.stale = FALSE]]
      BY <1>0, <2>2 DEF Announce
    <3>2. row'[t] = [row[t] EXCEPT !.stale = FALSE]
      BY <1>0, <3>1
    <3> QED
      BY <1>0, <3>2 DEF RowTypes
  <2> QED
    BY <1>0, <1>9, <2>1, <2>2 DEF Execute, Reject, ShellDone, Launch, Poll, PollFails, Select
<1>10. ASSUME NEW w \in Workers, Finish(w) PROVE proc.root
  <2>1. CASE FinishCommit(w)
    <3> DEFINE to == FinalStatus(worker[w].seen, worker[w].stopping, worker[w].outcome)
    <3>1. row' = [row EXCEPT ![worker[w].task] = Ended(row[worker[w].task], to)]
      BY <1>0, <2>1 DEF FinishCommit
    <3>2. row'[t] = Ended(row[t], to)
      BY <1>0, <3>1
    <3>3. Ended(row[t], to).status = to
      BY <1>0 DEF Ended, RowTypes
    <3>4. to = "interrupted"
      BY <1>0, <3>2, <3>3
    <3>5. worker[w].stopping
      BY <3>4 DEF FinalStatus
    <3> QED
      BY <3>5 DEF Holding, Working
  <2> QED
    BY <1>0, <1>10, <2>1 DEF Finish, FinishRead, FinishRecheck, FinishNotify, Unregister, Release
<1>11. ASSUME NEW u \in Tasks, ChildEnds(u) \/ Age(u) PROVE FALSE
  <2>1. row' = [row EXCEPT ![u] = [row[u] EXCEPT !.stale = TRUE]]
    BY <1>0, <1>11 DEF ChildEnds, Age
  <2>2. row'[t] = [row[t] EXCEPT !.stale = TRUE]
    BY <1>0, <2>1
  <2> QED
    BY <1>0, <2>2 DEF RowTypes
<1>12. CASE Reap
  <2>1. /\ reaper.pc = "commit"
        /\ row' = [row EXCEPT ![reaper.entry.task] = Ended(row[reaper.entry.task], "interrupted")]
    BY <1>0, <1>12 DEF Reap, ReapList, ReapCheck, ReapCommit, ReapNotify
  <2>2. reaper.entry.task = t
    BY <1>0, <2>1
  <2> QED
    BY <2>1, <2>2 DEF Sweeping, BusyWorkers
<1>13. ASSUME NEW k \in Waiters, WaitRead(k) \/ WaitWake(k) \/ WaitTimer(k) \/ WaitLeave(k) PROVE FALSE
  BY <1>0, <1>13 DEF WaitRead, WaitWake, WaitTimer, WaitLeave
<1>14. ASSUME NEW k \in Waiters, NEW u \in Tasks, WaitRegister(k, u) PROVE FALSE
  BY <1>0, <1>14 DEF WaitRegister
<1> QED
  BY <1>1, <1>2, <1>3, <1>4, <1>5, <1>6, <1>7, <1>8, <1>9, <1>10, <1>11, <1>12, <1>13, <1>14 DEF Next

\* The reaper never ends a task that a worker still executes.
THEOREM ReapedIsAbandonedHolds == Spec => ReapedIsAbandoned
<1> DEFINE Abandoned ==
             \A t \in Tasks : Ends(t) =>
                \/ proc.state = "new" \/ proc.root
                \/ \A w \in BusyWorkers : worker[w].task = t => worker[w].pc = "release"
<1>1. TaskInv /\ [Next]_vars => [Abandoned]_vars
  BY StepEnds
<1> QED
  BY <1>1, TaskInvariant, PTL DEF Spec, ReapedIsAbandoned

-----------------------------------------------------------------------------
(* Each step is one of TaskLifecycle, or is not seen there.                  *)

Status == [t \in Tasks |-> row[t].status]

LEMMA RowMoves ==
    ASSUME Typed, NEW t \in Tasks, NEW x, row' = [row EXCEPT ![t] = x]
    PROVE  Status' = [Status EXCEPT ![t] = x.status]
<1>1. \A u \in Tasks : row'[u].status = IF u = t THEN x.status ELSE row[u].status
  BY DEF Typed
<1> QED
  BY <1>1 DEF Status

\* A write that leaves the status alone is not seen.
LEMMA RowStays ==
    ASSUME Typed, NEW t \in Tasks, NEW x, row' = [row EXCEPT ![t] = x], x.status = row[t].status
    PROVE  Status' = Status
<1>1. \A u \in Tasks : row'[u].status = row[u].status
  BY DEF Typed
<1> QED
  BY <1>1 DEF Status

\* What TransitionBackgroundTask does is an end.
LEMMA TransitionEnds ==
    ASSUME Typed, NEW t \in Tasks, NEW rev, NEW to \in Terminal, CanTransition(t, rev, to),
           row' = [row EXCEPT ![t] = Ended(row[t], to)], UNCHANGED told
    PROVE  Lifecycle!End(t)
<1>1. Ended(row[t], to).status = to
  BY EndedTyped DEF Typed
<1>2. Status' = [Status EXCEPT ![t] = to]
  BY <1>1, RowMoves
<1>3. Status[t] = row[t].status
  BY DEF Status
<1>4. \/ row[t].status = "running"
      \/ row[t].status = "cancel_requested" /\ to \in Terminal \ {"succeeded"}
  BY DEF CanTransition, ValidTransition, Held, Terminal
<1> QED
  BY <1>2, <1>3, <1>4 DEF Lifecycle!End, Lifecycle!Move, Lifecycle!Terminal, Terminal, Status

\* The hook runs on a row that has ended.
LEMMA TellingTells ==
    ASSUME NEW t \in Tasks, row[t].status \in Terminal, row' = row, told' = told \cup {t}
    PROVE  Lifecycle!Next
<1>1. Lifecycle!Tell(t)
  BY DEF Lifecycle!Tell, Lifecycle!Terminal, Terminal
<1> QED
  BY <1>1 DEF Lifecycle!Next

LEMMA Unseen ==
    ASSUME Status' = Status, UNCHANGED told
    PROVE  [Lifecycle!Next]_Lifecycle!vars
BY DEF Lifecycle!vars, Status

LEMMA StartLoses ==
    ASSUME TaskInv, Start
    PROVE  Lifecycle!Lose
<1> DEFINE lost == {t \in Tasks : row[t].status \in Held /\ row[t].instance # proc.instance}
<1>1. row' = [t \in Tasks |-> Reconciled(row[t])] /\ UNCHANGED told
  BY DEF Start
<1>2. ASSUME NEW t \in Tasks
      PROVE  Reconciled(row[t]).status = IF t \in lost THEN "interrupted" ELSE row[t].status
  BY ReconciledRow DEF TaskInv, Holding
<1>3. Status' = [t \in Tasks |-> IF t \in lost THEN "interrupted" ELSE Status[t]]
  BY <1>1, <1>2 DEF Status
<1>4. lost \in SUBSET {t \in Tasks : Status[t] \in Held}
  BY DEF Status
<1> HIDE DEF lost
<1> QED
  BY <1>1, <1>3, <1>4 DEF Lifecycle!Lose, Lifecycle!Held, Held, Status

LEMMA CreateSubmits ==
    ASSUME TaskInv, NEW k \in Callers, SubmitCreate(k)
    PROVE  [Lifecycle!Next]_Lifecycle!vars
<1> DEFINE New(a, kind) == [NoRow EXCEPT !.status = "queued", !.revision = 1, !.owner = a, !.kind = kind]
<1>1. UNCHANGED told
  BY DEF SubmitCreate
<1>2. ASSUME NEW t \in Tasks, NEW a \in Owners, NEW kind \in Kinds, row[t].status = "none",
             row' = [row EXCEPT ![t] = New(a, kind)]
      PROVE  Lifecycle!Next
  <2>1. New(a, kind).status = "queued"
    BY DEF NoRow
  <2> HIDE DEF New
  <2>2. Status' = [Status EXCEPT ![t] = "queued"] /\ Status[t] = "none"
    BY <1>2, <2>1, RowMoves DEF TaskInv, Status
  <2>3. Lifecycle!Submit(t)
    BY <1>1, <2>2 DEF Lifecycle!Submit, Lifecycle!Move, Status
  <2> QED
    BY <2>3 DEF Lifecycle!Next
<1>3. CASE UNCHANGED row
  BY <1>1, <1>3, Unseen DEF Status
<1> QED
  BY <1>2, <1>3 DEF SubmitCreate

LEMMA CancelRequests ==
    ASSUME TaskInv, NEW k \in Callers, NEW t \in Tasks, Cancel(k, t)
    PROVE  [Lifecycle!Next]_Lifecycle!vars
<1>1. row' = [row EXCEPT ![t] = CancelRequested(row[t])] /\ UNCHANGED told /\ row[t] \in RowTypes
  BY DEF Cancel, TaskInv, Typed
<1>2. Status[t] = row[t].status
  BY DEF Status
<1>3. CASE row[t].status = "queued"
  <2>1. CancelRequested(row[t]).status = "canceled"
    <3>1. CancelRequested(row[t]) = Ended(row[t], "canceled") /\ "canceled" \in Terminal
      BY <1>3 DEF CancelRequested, Terminal
    <3> QED
      BY <1>1, <3>1, EndedTyped
  <2>2. Status' = [Status EXCEPT ![t] = "canceled"]
    BY <1>1, <2>1, RowMoves DEF TaskInv
  <2> QED
    BY <1>1, <1>2, <1>3, <2>2 DEF Lifecycle!Next, Lifecycle!RequestCancel, Lifecycle!Move, Status
<1>4. CASE row[t].status = "running"
  <2>1. CancelRequested(row[t]).status = "cancel_requested"
    BY <1>1, <1>4 DEF CancelRequested, RowTypes
  <2>2. Status' = [Status EXCEPT ![t] = "cancel_requested"]
    BY <1>1, <2>1, RowMoves DEF TaskInv
  <2> QED
    BY <1>1, <1>2, <1>4, <2>2 DEF Lifecycle!Next, Lifecycle!RequestCancel, Lifecycle!Move, Status
<1>5. CASE row[t].status \notin {"queued", "running"}
  <2>1. CancelRequested(row[t]) = row[t]
    BY <1>5 DEF CancelRequested
  <2> QED
    BY <1>1, <2>1, RowStays, Unseen DEF TaskInv
<1> QED
  BY <1>3, <1>4, <1>5

LEMMA ClaimBegins ==
    ASSUME TaskInv, NEW w \in Workers, Claim(w)
    PROVE  [Lifecycle!Next]_Lifecycle!vars
<1>1. UNCHANGED told
  BY DEF Claim
<1>2. ASSUME NEW t \in Tasks, Oldest(t), row' = [row EXCEPT ![t] = Claimed(row[t])]
      PROVE  Lifecycle!Next
  <2>1. row[t] \in RowTypes /\ Status[t] = "queued"
    BY <1>2 DEF TaskInv, Typed, Oldest, Claimable, Status
  <2>2. Claimed(row[t]).status = "running"
    BY <2>1, ClaimedTyped DEF TaskInv
  <2>3. Status' = [Status EXCEPT ![t] = "running"]
    BY <1>2, <2>2, RowMoves DEF TaskInv
  <2>4. Lifecycle!Begin(t)
    BY <1>1, <2>1, <2>3 DEF Lifecycle!Begin, Lifecycle!Move, Status
  <2> QED
    BY <2>4 DEF Lifecycle!Next
<1>3. CASE UNCHANGED row
  BY <1>1, <1>3, Unseen DEF Status
<1> QED
  BY <1>2, <1>3 DEF Claim

LEMMA ExecuteUnseen ==
    ASSUME TaskInv, NEW w \in Workers, Execute(w)
    PROVE  Status' = Status /\ UNCHANGED told
<1> DEFINE t == worker[w].task
<1>1. UNCHANGED told
  BY DEF Execute, Reject, ShellDone, Launch, Attach, Announce, Poll, PollFails, Select
<1>2. row \in [Tasks -> RowTypes]
  BY DEF TaskInv, Typed
<1>3. t \in Tasks \/ UNCHANGED row
  BY DEF TaskInv, Holding, Working, Started, Busy, Executing, Execute, Reject, ShellDone, Launch, Attach, Announce,
         Poll, PollFails, Select
<1>4. \/ UNCHANGED row
      \/ row' = [row EXCEPT ![t] = Attached(row[t])]
      \/ row' = [row EXCEPT ![t] = [row[t] EXCEPT !.stale = FALSE]]
  BY DEF Execute, Reject, ShellDone, Launch, Attach, Announce, Poll, PollFails, Select
<1> HIDE DEF t
<1>5. CASE UNCHANGED row
  BY <1>1, <1>5 DEF Status
<1>6. CASE t \in Tasks /\ row' = [row EXCEPT ![t] = Attached(row[t])]
  <2>1. Attached(row[t]).status = row[t].status
    BY <1>2, <1>6 DEF Attached, RowTypes
  <2> QED
    BY <1>1, <1>2, <1>6, <2>1 DEF Status
<1>7. CASE t \in Tasks /\ row' = [row EXCEPT ![t] = [row[t] EXCEPT !.stale = FALSE]]
  <2>1. [row[t] EXCEPT !.stale = FALSE].status = row[t].status
    BY <1>2, <1>7 DEF RowTypes
  <2> QED
    BY <1>1, <1>2, <1>7, <2>1 DEF Status
<1> QED
  BY <1>3, <1>4, <1>5, <1>6, <1>7

LEMMA FinishEnds ==
    ASSUME TaskInv, NEW w \in Workers, Finish(w)
    PROVE  [Lifecycle!Next]_Lifecycle!vars
<1>1. CASE FinishCommit(w) /\ ~UNCHANGED row
  <2> DEFINE t == worker[w].task
             to == FinalStatus(worker[w].seen, worker[w].stopping, worker[w].outcome)
  <2>1. /\ UNCHANGED told /\ worker[w].pc = "commit"
        /\ CanTransition(t, worker[w].rev, to) /\ row' = [row EXCEPT ![t] = Ended(row[t], to)]
    BY <1>1 DEF FinishCommit
  <2>2. t \in Tasks
    BY <2>1 DEF TaskInv, Holding, Working, Started, Busy, Finishing
  <2>3. to \in Terminal
    BY DEF FinalStatus, Terminal
  <2> HIDE DEF t, to
  <2>4. Lifecycle!End(t)
    BY <2>1, <2>2, <2>3, TransitionEnds DEF TaskInv
  <2> QED
    BY <2>2, <2>4 DEF Lifecycle!Next
<1>2. CASE FinishNotify(w)
  <2>1. CASE worker[w].pc = "notify"
    <3> DEFINE t == worker[w].task
    <3>1. UNCHANGED row /\ told' = told \cup {t}
      BY <1>2, <2>1 DEF FinishNotify, NotifyTerminal
    <3>2. t \in Tasks /\ row[t].status \in Terminal
      BY <2>1 DEF TaskInv, Holding, Working, Started, Busy, Finishing
    <3> HIDE DEF t
    <3> QED
      BY <3>1, <3>2, TellingTells
  <2>2. CASE worker[w].pc # "notify"
    BY <1>2, <2>2, Unseen DEF FinishNotify, Status
  <2> QED
    BY <2>1, <2>2
<1>3. CASE UNCHANGED <<row, told>>
  BY <1>3, Unseen DEF Status
<1> QED
  BY <1>1, <1>2, <1>3 DEF Finish, FinishRead, FinishCommit, FinishRecheck, Unregister, Release

LEMMA ReapEnds ==
    ASSUME TaskInv, Reap
    PROVE  [Lifecycle!Next]_Lifecycle!vars
<1> DEFINE t == reaper.entry.task
<1>1. CASE ReapCommit /\ ~UNCHANGED row
  <2>1. /\ UNCHANGED told /\ reaper.pc = "commit"
        /\ CanTransition(t, reaper.entry.rev, "interrupted")
        /\ row' = [row EXCEPT ![t] = Ended(row[t], "interrupted")]
    BY <1>1 DEF ReapCommit
  <2>2. t \in Tasks /\ "interrupted" \in Terminal
    BY <2>1 DEF TaskInv, Telling, Started, Terminal
  <2> HIDE DEF t
  <2>3. Lifecycle!End(t)
    BY <2>1, <2>2, TransitionEnds DEF TaskInv
  <2> QED
    BY <2>2, <2>3 DEF Lifecycle!Next
<1>2. CASE ReapNotify
  <2>1. UNCHANGED row /\ told' = told \cup {t} /\ reaper.pc = "notify"
    BY <1>2 DEF ReapNotify, NotifyTerminal
  <2>2. t \in Tasks /\ row[t].status \in Terminal
    BY <2>1 DEF TaskInv, Telling, Started
  <2> HIDE DEF t
  <2> QED
    BY <2>1, <2>2, TellingTells
<1>3. CASE UNCHANGED <<row, told>>
  BY <1>3, Unseen DEF Status
<1> QED
  BY <1>1, <1>2, <1>3 DEF Reap, ReapList, ReapCheck, ReapCommit

LEMMA CancelTells ==
    ASSUME TaskInv, NEW k \in Callers, CancelTell(k)
    PROVE  [Lifecycle!Next]_Lifecycle!vars
<1> DEFINE t == caller[k].task
<1>1. UNCHANGED row
  BY DEF CancelTell
<1>2. CASE caller[k].terminal
  <2>1. told' = told \cup {t}
    BY <1>2 DEF CancelTell, NotifyTerminal
  <2>2. t \in Tasks /\ row[t].status \in Terminal
    BY <1>2 DEF TaskInv, Telling, Typed, CallerTypes
  <2> HIDE DEF t
  <2> QED
    BY <1>1, <2>1, <2>2, TellingTells
<1>3. CASE ~caller[k].terminal
  BY <1>1, <1>3, Unseen DEF CancelTell, Status
<1> QED
  BY <1>2, <1>3

LEMMA AgeUnseen ==
    ASSUME TaskInv, NEW t \in Tasks, Age(t)
    PROVE  Status' = Status /\ UNCHANGED told
<1>1. row' = [row EXCEPT ![t] = [row[t] EXCEPT !.stale = TRUE]] /\ UNCHANGED told
  BY DEF Age
<1>2. [row[t] EXCEPT !.stale = TRUE].status = row[t].status
  BY DEF TaskInv, Typed, RowTypes
<1> QED
  BY <1>1, <1>2, RowStays DEF TaskInv

\* Every step of the manager is a step of TaskLifecycle or leaves its state alone.
LEMMA StepsImplement == TaskInv /\ [Next]_vars => [Lifecycle!Next]_Lifecycle!vars
<1> SUFFICES ASSUME TaskInv, [Next]_vars PROVE [Lifecycle!Next]_Lifecycle!vars
  OBVIOUS
<1>1. CASE UNCHANGED <<row, told>>
  BY <1>1, Unseen DEF Status
<1>2. CASE UNCHANGED vars
  BY <1>1, <1>2 DEF vars
<1>3. CASE Next
  <2>1. CASE Start
    BY <2>1, StartLoses DEF Lifecycle!Next
  <2>2. CASE CloseBegin \/ CloseCancel \/ CloseEnd \/ Restart
    BY <1>1, <2>2 DEF CloseBegin, CloseCancel, CloseEnd, Restart
  <2>3. ASSUME NEW k \in Callers, SubmitCheck(k) \/ SignalWake(k) \/ CancelActive(k)
        PROVE  UNCHANGED <<row, told>>
    BY <2>3 DEF SubmitCheck, SignalWake, CancelActive
  <2>4. ASSUME NEW k \in Callers, NEW n \in Limits, NEW m \in AgentLimits, UpdateSettings(k, n, m)
        PROVE  UNCHANGED <<row, told>>
    BY <2>4 DEF UpdateSettings
  <2>5. ASSUME NEW w \in Workers, Exit(w) \/ ClaimFails(w) \/ TakeWake(w) \/ PollTimer(w) \/ Register(w)
        PROVE  UNCHANGED <<row, told>>
    BY <2>5 DEF Exit, ClaimFails, TakeWake, PollTimer, Register
  <2>6. ASSUME NEW w \in Workers, Execute(w) PROVE [Lifecycle!Next]_Lifecycle!vars
    BY <2>6, ExecuteUnseen, Unseen
  <2>7. ASSUME NEW t \in Tasks, ChildEnds(t) \/ Age(t) PROVE [Lifecycle!Next]_Lifecycle!vars
    BY <1>1, <2>7, AgeUnseen, Unseen DEF ChildEnds
  <2>8. ASSUME NEW k \in Waiters, WaitRead(k) \/ WaitWake(k) \/ WaitTimer(k) \/ WaitLeave(k)
        PROVE  UNCHANGED <<row, told>>
    BY <2>8 DEF WaitRead, WaitWake, WaitTimer, WaitLeave
  <2>9. ASSUME NEW k \in Waiters, NEW t \in Tasks, WaitRegister(k, t)
        PROVE  UNCHANGED <<row, told>>
    BY <2>9 DEF WaitRegister
  <2> QED
    BY <1>1, <1>3, <2>1, <2>2, <2>3, <2>4, <2>5, <2>6, <2>7, <2>8, <2>9,
       CreateSubmits, CancelRequests, CancelTells, ClaimBegins, FinishEnds, ReapEnds DEF Next
<1> QED
  BY <1>2, <1>3

\* Each task lives the life of TaskLifecycle, through claims, cancels, the
\* reaper, crashes and restarts.
THEOREM LifecycleImplemented == Spec => ImplementsLifecycle
<1>1. Init => Lifecycle!Init
  BY DEF Init, NoRow, Lifecycle!Init
<1> QED
  BY <1>1, StepsImplement, TaskInvariant, PTL DEF Spec, ImplementsLifecycle, Lifecycle!Spec
=============================================================================
