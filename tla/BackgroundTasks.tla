--------------------------- MODULE BackgroundTasks ---------------------------
(***************************************************************************)
(* Durable background tasks: the rows of background_tasks with their       *)
(* revision compare-and-swap (internal/db/background_tasks.go), and the    *)
(* manager that runs them (internal/background): a pool of workers that    *)
(* claim, execute and finish rows, callers that submit, cancel and wait,   *)
(* the reaper of abandoned rows, shutdown, crash and restart.              *)
(*                                                                         *)
(* A step is one database transaction or one section under manager.mu or   *)
(* claimMu. The database has a single connection, so its transactions are  *)
(* atomic; what the code reads in one and uses in the next is kept in the  *)
(* acting goroutine's record.                                              *)
(***************************************************************************)
EXTENDS Integers, FiniteSets

CONSTANTS
    MaxTasks,      \* bound: rows ever created; rows are named in that order
    Owners,        \* owner agents
    Kinds,         \* subset of {"shell", "agent"}, the registered executors
    Workers,       \* worker goroutines that may be started
    Callers,       \* goroutines that call Submit, Cancel or change settings
    Waiters,       \* goroutines that call Wait
    Limits,        \* values WorkerCount may be given
    AgentLimits,   \* values PerAgentLimit may be given
    MaxSettings,   \* bound: changes of the runtime settings
    MaxCancels,    \* bound: calls of Cancel
    MaxMishaps     \* bound: process restarts and database errors

ASSUME BoundsAssumption ==
    /\ IsFiniteSet(Workers) /\ 0 \notin Workers
    /\ {MaxTasks, MaxSettings, MaxCancels, MaxMishaps} \subseteq Nat
    /\ Kinds \subseteq {"shell", "agent"}
    /\ Limits \subseteq 1 .. Cardinality(Workers) /\ Limits # {}
    /\ AgentLimits \subseteq Nat \ {0} /\ AgentLimits # {}

VARIABLES
    row,      \* background_tasks: durable
    child,    \* the child run an agent task dispatched to the runner
    proc,     \* the manager's own fields
    active,   \* manager.active: task -> the worker whose context it cancels
    worker,   \* worker goroutines
    caller,   \* callers of Submit, Cancel, UpdateBackgroundRuntimeSettings
    waiter,   \* callers of Wait
    channel,  \* manager.waiters: the waiters on a task's current channel
    reaper,   \* the sweep of ReapAbandonedTasks
    told      \* tasks whose terminal hook has run

vars == <<row, child, proc, active, worker, caller, waiter, channel, reaper, told>>

Tasks == 1 .. MaxTasks
None == 0
Terminal == {"succeeded", "failed", "canceled", "interrupted"}
Held == {"running", "cancel_requested"}

NoRow == [status |-> "none", revision |-> 0, attempt |-> 0, owner |-> "none",
          kind |-> "none", instance |-> 0, stale |-> FALSE, attached |-> FALSE]

\* root: the manager's context is cancelled; wake: the token of the wake channel.
NewProc(n, limit, perAgent) ==
    [state |-> "new", instance |-> n, limit |-> limit, perAgent |-> perAgent,
     root |-> FALSE, total |-> 0, byAgent |-> [a \in Owners |-> 0], wake |-> FALSE,
     settings |-> 0, cancels |-> 0, faults |-> 0]

Off == [pc |-> "off", task |-> None, rev |-> 0, seen |-> "none", ctx |-> FALSE,
        stopping |-> FALSE, outcome |-> "none"]
NoCall == [pc |-> "idle", task |-> None, terminal |-> FALSE]
NoWait == [pc |-> "idle", task |-> None, woken |-> FALSE]
NoSweep == [pc |-> "idle", list |-> {}, entry |-> [task |-> None, rev |-> 0, old |-> FALSE]]

Init ==
    /\ row = [t \in Tasks |-> NoRow]
    /\ child = [t \in Tasks |-> "none"]
    /\ \E n \in Limits, m \in AgentLimits : proc = NewProc(1, n, m)
    /\ active = [t \in Tasks |-> None]
    /\ worker = [w \in Workers |-> Off]
    /\ caller = [k \in Callers |-> NoCall]
    /\ waiter = [k \in Waiters |-> NoWait]
    /\ channel = [t \in Tasks |-> {}]
    /\ reaper = NoSweep
    /\ told = {}

-----------------------------------------------------------------------------
(* The store.                                                              *)

ValidTransition(from, to) ==
    \/ from = "queued" /\ to \in {"running", "canceled"}
    \/ from = "running" /\ to \in {"cancel_requested"} \cup Terminal
    \/ from = "cancel_requested" /\ to \in {"canceled", "failed", "interrupted"}

\* Mutant: the write does not compare what was read with what is there.
CanTransitionBlindly(t, rev, to) == row[t].status \in Held

\* TransitionBackgroundTask succeeds iff nothing changed since rev was read.
CanTransition(t, rev, to) ==
    /\ row[t].revision = rev
    /\ row[t].status \in Held
    /\ ValidTransition(row[t].status, to)

Ended(r, to) ==
    [r EXCEPT !.status = to, !.revision = @ + 1, !.instance = 0, !.stale = FALSE]

\* ClaimQueuedBackgroundTask, RequestBackgroundTaskCancel,
\* AttachBackgroundTaskChild and ReconcileBackgroundTasksAfterRestart, each one transaction on a row.
Claimed(r) ==
    [r EXCEPT !.status = "running", !.revision = @ + 1, !.attempt = @ + 1,
              !.instance = proc.instance, !.stale = FALSE]

CancelRequested(r) ==
    CASE r.status = "queued" -> Ended(r, "canceled")
      [] r.status = "running" ->
           [r EXCEPT !.status = "cancel_requested", !.revision = @ + 1, !.stale = FALSE]
      [] OTHER -> r

Attached(r) == [r EXCEPT !.revision = @ + 1, !.attached = TRUE, !.stale = FALSE]

Reconciled(r) ==
    IF r.status \in Held /\ r.instance # proc.instance THEN Ended(r, "interrupted") ELSE r

Claimable(t) ==
    /\ row[t].status = "queued" /\ row[t].attempt < 1
    /\ proc.byAgent[row[t].owner] < proc.perAgent

\* ORDER BY created_at: the oldest row (no caller sets a priority).
Oldest(t) == Claimable(t) /\ \A u \in Tasks : Claimable(u) => t <= u

Mishaps == proc.faults + proc.instance - 1

\* A database error, which only the bound limits.
Fault ==
    /\ Mishaps < MaxMishaps
    /\ proc' = [proc EXCEPT !.faults = @ + 1]

-----------------------------------------------------------------------------
(* manager.notify and notifyTerminal.                                      *)

Notify(t) ==
    /\ channel' = [channel EXCEPT ![t] = {}]
    /\ waiter' = [k \in Waiters |->
                    IF k \in channel[t] THEN [waiter[k] EXCEPT !.woken = TRUE] ELSE waiter[k]]

NotifyTerminal(t) == Notify(t) /\ told' = told \cup {t}

\* The context of an execution is cancelled; only executors look at it.
Executing == {"shell", "agent", "attach", "announce", "poll", "select"}

Cancelled(wk) == IF wk.pc \in Executing THEN [wk EXCEPT !.ctx = TRUE] ELSE wk

-----------------------------------------------------------------------------
(* Start, Close, crash and restart.                                        *)

\* The reconciliation, then the workers.
Start ==
    /\ proc.state = "new"
    /\ row' = [t \in Tasks |-> Reconciled(row[t])]
    /\ \E started \in SUBSET Workers :
         /\ Cardinality(started) = proc.limit
         /\ worker' = [w \in Workers |-> IF w \in started THEN [Off EXCEPT !.pc = "loop"] ELSE Off]
    /\ proc' = [proc EXCEPT !.state = "running", !.wake = TRUE]
    /\ UNCHANGED <<child, active, caller, waiter, channel, reaper, told>>

CloseBegin ==
    /\ proc.state \in {"new", "running"}
    /\ proc' = [proc EXCEPT !.state = IF proc.state = "new" THEN "closed" ELSE "closing"]
    /\ UNCHANGED <<row, child, active, worker, caller, waiter, channel, reaper, told>>

\* The root context is cancelled, and with it the context of every execution.
CloseCancel ==
    /\ proc.state = "closing" /\ ~proc.root
    /\ proc' = [proc EXCEPT !.root = TRUE]
    /\ worker' = [w \in Workers |-> Cancelled(worker[w])]
    /\ UNCHANGED <<row, child, active, caller, waiter, channel, reaper, told>>

CloseEnd ==
    /\ proc.state = "closing" /\ proc.root
    /\ \A w \in Workers : worker[w].pc = "off"
    /\ proc' = [proc EXCEPT !.state = "closed"]
    /\ UNCHANGED <<row, child, active, worker, caller, waiter, channel, reaper, told>>

\* The process dies, at any moment, and another one takes its place.
Restart ==
    /\ Mishaps < MaxMishaps
    /\ proc' = [NewProc(proc.instance + 1, proc.limit, proc.perAgent)
                EXCEPT !.settings = proc.settings, !.cancels = proc.cancels,
                       !.faults = proc.faults]
    /\ child' = [t \in Tasks |-> IF child[t] = "running" THEN "stopped" ELSE child[t]]
    /\ active' = [t \in Tasks |-> None]
    /\ worker' = [w \in Workers |-> Off]
    /\ caller' = [k \in Callers |-> NoCall]
    /\ waiter' = [k \in Waiters |-> NoWait]
    /\ channel' = [t \in Tasks |-> {}]
    /\ reaper' = NoSweep
    /\ UNCHANGED <<row, told>>

-----------------------------------------------------------------------------
(* Callers.                                                                *)

\* Submit looks at the manager's state under mu ...
SubmitCheck(k) ==
    /\ caller[k].pc = "idle"
    /\ proc.state \notin {"closing", "closed"}
    /\ caller' = [caller EXCEPT ![k].pc = "create"]
    /\ UNCHANGED <<row, child, proc, active, worker, waiter, channel, reaper, told>>

\* Mutant: a new row signals nobody.
SubmitSilently(k) ==
    /\ caller[k].pc = "create"
    /\ \E t \in Tasks, a \in Owners, kind \in Kinds :
         /\ row[t].status = "none" /\ \A u \in 1 .. t - 1 : row[u].status # "none"
         /\ row' = [row EXCEPT ![t] = [NoRow EXCEPT !.status = "queued", !.revision = 1,
                                                     !.owner = a, !.kind = kind]]
    /\ caller' = [caller EXCEPT ![k] = NoCall]
    /\ UNCHANGED <<child, proc, active, worker, waiter, channel, reaper, told>>

\* ... creates the row, unless the store refuses it ...
SubmitCreate(k) ==
    /\ caller[k].pc = "create"
    /\ \/ /\ \E t \in Tasks, a \in Owners, kind \in Kinds :
               /\ row[t].status = "none" /\ \A u \in 1 .. t - 1 : row[u].status # "none"
               /\ row' = [row EXCEPT ![t] = [NoRow EXCEPT !.status = "queued", !.revision = 1,
                                                           !.owner = a, !.kind = kind]]
          /\ caller' = [caller EXCEPT ![k].pc = "signal"]
       \/ caller' = [caller EXCEPT ![k] = NoCall] /\ UNCHANGED row
    /\ UNCHANGED <<child, proc, active, worker, waiter, channel, reaper, told>>

\* ... and signals the wake channel, as a change of the settings does.
SignalWake(k) ==
    /\ caller[k].pc = "signal"
    /\ proc' = [proc EXCEPT !.wake = TRUE]
    /\ caller' = [caller EXCEPT ![k] = NoCall]
    /\ UNCHANGED <<row, child, active, worker, waiter, channel, reaper, told>>

\* Cancel: the store first ...
Cancel(k, t) ==
    /\ caller[k].pc = "idle"
    /\ row[t].status # "none"
    /\ proc.cancels < MaxCancels
    /\ proc' = [proc EXCEPT !.cancels = @ + 1]
    /\ row' = [row EXCEPT ![t] = CancelRequested(@)]
    /\ caller' = [caller EXCEPT ![k] = [pc |-> "lookup", task |-> t,
                                        terminal |-> row'[t].status \in Terminal]]
    /\ UNCHANGED <<child, active, worker, waiter, channel, reaper, told>>

\* ... then the executor's context, if the task is registered by now ...
CancelActive(k) ==
    LET w == active[caller[k].task]
    IN  /\ caller[k].pc = "lookup"
        /\ worker' = IF w = None THEN worker ELSE [worker EXCEPT ![w] = Cancelled(@)]
        /\ caller' = [caller EXCEPT ![k].pc = "tell"]
        /\ UNCHANGED <<row, child, proc, active, waiter, channel, reaper, told>>

\* Mutant: a task canceled before it ran is not announced as ended.
CancelTellsWaiters(k) ==
    /\ caller[k].pc = "tell"
    /\ Notify(caller[k].task)
    /\ caller' = [caller EXCEPT ![k] = NoCall]
    /\ UNCHANGED <<row, child, proc, active, worker, reaper, told>>

\* ... then whoever waits for the task.
CancelTell(k) ==
    LET t == caller[k].task
    IN  /\ caller[k].pc = "tell"
        /\ IF caller[k].terminal THEN NotifyTerminal(t) ELSE Notify(t) /\ UNCHANGED told
        /\ caller' = [caller EXCEPT ![k] = NoCall]
        /\ UNCHANGED <<row, child, proc, active, worker, reaper>>

\* UpdateBackgroundRuntimeSettings: limits change and missing workers start;
\* nothing running is stopped. The signal follows outside mu.
UpdateSettings(k, n, m) ==
    LET idle == {w \in Workers : worker[w].pc = "off"}
        missing == n - Cardinality(Workers \ idle)
    IN  /\ caller[k].pc = "idle"
        /\ proc.state \in {"new", "running"}
        /\ proc.settings < MaxSettings
        /\ proc' = [proc EXCEPT !.limit = n, !.perAgent = m, !.settings = @ + 1]
        /\ IF proc.state = "running" /\ missing > 0
           THEN \E more \in SUBSET idle :
                  /\ Cardinality(more) = missing
                  /\ worker' = [w \in Workers |->
                                  IF w \in more THEN [Off EXCEPT !.pc = "loop"] ELSE worker[w]]
           ELSE UNCHANGED worker
        /\ caller' = [caller EXCEPT ![k].pc = "signal"]
        /\ UNCHANGED <<row, child, active, waiter, channel, reaper, told>>

-----------------------------------------------------------------------------
(* Workers.                                                                *)

Go(w, pc) == worker' = [worker EXCEPT ![w].pc = pc]

\* A worker whose context is cancelled leaves at the top of its loop, or while
\* it waits for work.
Exit(w) ==
    /\ worker[w].pc \in {"loop", "wait"} /\ proc.root
    /\ worker' = [worker EXCEPT ![w] = Off]
    /\ UNCHANGED <<row, child, proc, active, caller, waiter, channel, reaper, told>>

\* claim: the counters and the row change together under claimMu.
Claim(w) ==
    /\ worker[w].pc = "loop" /\ ~proc.root
    /\ IF proc.total < proc.limit /\ \E t \in Tasks : Claimable(t)
       THEN \E t \in Tasks :
              /\ Oldest(t)
              /\ row' = [row EXCEPT ![t] = Claimed(@)]
              /\ proc' = [proc EXCEPT !.total = @ + 1, !.byAgent[row[t].owner] = @ + 1]
              /\ worker' = [worker EXCEPT ![w] = [Off EXCEPT !.pc = "claimed", !.task = t,
                                                             !.rev = row'[t].revision]]
       ELSE Go(w, "wait") /\ UNCHANGED <<row, proc>>
    /\ UNCHANGED <<child, active, caller, waiter, channel, reaper, told>>

\* A database error in claim parks the worker like an empty queue.
ClaimFails(w) ==
    /\ worker[w].pc = "loop" /\ ~proc.root
    /\ Fault
    /\ Go(w, "wait")
    /\ UNCHANGED <<row, child, active, caller, waiter, channel, reaper, told>>

\* waitForWork: the token of the wake channel, or the fallback timer.
TakeWake(w) ==
    /\ worker[w].pc = "wait" /\ proc.wake
    /\ proc' = [proc EXCEPT !.wake = FALSE]
    /\ Go(w, "loop")
    /\ UNCHANGED <<row, child, active, caller, waiter, channel, reaper, told>>

PollTimer(w) ==
    /\ worker[w].pc = "wait"
    /\ Go(w, "loop")
    /\ UNCHANGED <<row, child, proc, active, caller, waiter, channel, reaper, told>>

\* Mutant: a successful claim does not re-arm the wake channel.
RegisterQuietly(w) ==
    /\ worker[w].pc = "claimed"
    /\ active' = [active EXCEPT ![worker[w].task] = w]
    /\ worker' = [worker EXCEPT ![w].pc = row[worker[w].task].kind, ![w].ctx = proc.root]
    /\ UNCHANGED <<row, child, proc, caller, waiter, channel, reaper, told>>

\* The wake channel is re-armed for a sibling; then execute registers the task,
\* with a context derived from the root.
Register(w) ==
    /\ worker[w].pc = "claimed"
    /\ proc' = [proc EXCEPT !.wake = TRUE]
    /\ active' = [active EXCEPT ![worker[w].task] = w]
    /\ worker' = [worker EXCEPT ![w] = [@ EXCEPT !.pc = row[worker[w].task].kind,
                                                 !.ctx = proc.root]]
    /\ UNCHANGED <<row, child, caller, waiter, channel, reaper, told>>

\* The executor returned; parent.Err() is read before finish.
Returned(w, outcome) ==
    worker' = [worker EXCEPT ![w] = [Off EXCEPT !.pc = "finish", !.task = worker[w].task,
                                                !.outcome = outcome, !.stopping = proc.root]]

\* The validator or the executor's own checks refuse the task.
Reject(w) ==
    /\ worker[w].pc \in {"shell", "agent"}
    /\ Returned(w, "error")
    /\ UNCHANGED <<row, child, proc, active, caller, waiter, channel, reaper, told>>

\* ShellExecutor: the command ends by itself or is terminated with its context.
ShellDone(w) ==
    /\ worker[w].pc = "shell"
    /\ \E outcome \in {"ok", "error"} : Returned(w, outcome)
    /\ UNCHANGED <<row, child, proc, active, caller, waiter, channel, reaper, told>>

\* AgentExecutor: the child run is submitted ...
Launch(w) ==
    LET t == worker[w].task
    IN  /\ worker[w].pc = "agent"
        /\ IF worker[w].ctx
           THEN Returned(w, "error") /\ UNCHANGED child
           ELSE Go(w, "attach") /\ child' = [child EXCEPT ![t] = "running"]
        /\ UNCHANGED <<row, proc, active, caller, waiter, channel, reaper, told>>

Interrupted(t) == IF child[t] = "running" THEN [child EXCEPT ![t] = "stopped"] ELSE child

\* ... attached to the row by compare-and-swap on the claimed revision, and
\* interrupted if that fails ...
CanAttach(w) ==
    LET t == worker[w].task
    IN  ~worker[w].ctx /\ row[t].revision = worker[w].rev /\ row[t].status \in Held

\* Mutant: a child that could not be attached is left running.
AttachLeavesChild(w) ==
    LET t == worker[w].task
    IN  /\ worker[w].pc = "attach"
        /\ IF CanAttach(w)
           THEN row' = [row EXCEPT ![t].revision = @ + 1, ![t].attached = TRUE] /\ Go(w, "announce")
           ELSE Returned(w, "error") /\ UNCHANGED row
        /\ UNCHANGED <<child, proc, active, caller, waiter, channel, reaper, told>>

Attach(w) ==
    LET t == worker[w].task
    IN  /\ worker[w].pc = "attach"
        /\ IF CanAttach(w)
           THEN /\ row' = [row EXCEPT ![t] = Attached(@)]
                /\ Go(w, "announce") /\ UNCHANGED child
           ELSE Returned(w, "error") /\ child' = Interrupted(t) /\ UNCHANGED row
        /\ UNCHANGED <<proc, active, caller, waiter, channel, reaper, told>>

\* ... announced on the task's output, which touches updated_at ...
Announce(w) ==
    LET t == worker[w].task
    IN  /\ worker[w].pc = "announce"
        /\ IF worker[w].ctx \/ row[t].status \in Terminal
           THEN Returned(w, "error") /\ child' = Interrupted(t) /\ UNCHANGED row
           ELSE /\ row' = [row EXCEPT ![t].stale = FALSE]
                /\ Go(w, "poll") /\ UNCHANGED child
        /\ UNCHANGED <<proc, active, caller, waiter, channel, reaper, told>>

\* ... and polled by waitChild: the child ended, has stopped making progress
\* (abandonStuckChild), or still runs.
Poll(w) ==
    LET t == worker[w].task
    IN  /\ worker[w].pc = "poll" /\ ~worker[w].ctx
        /\ \/ child[t] = "done" /\ Returned(w, "ok") /\ UNCHANGED child
           \/ child[t] = "stopped" /\ Returned(w, "error") /\ UNCHANGED child
           \/ child[t] = "running" /\ Returned(w, "error") /\ child' = Interrupted(t)
           \/ child[t] = "running" /\ Go(w, "select") /\ UNCHANGED child
        /\ UNCHANGED <<row, proc, active, caller, waiter, channel, reaper, told>>

\* The query runs under the task's context: when that is cancelled, or the
\* database fails, waitChild returns the query's error.
PollFails(w) ==
    /\ worker[w].pc = "poll"
    /\ IF worker[w].ctx THEN UNCHANGED proc ELSE Fault
    /\ Returned(w, "error")
    /\ UNCHANGED <<row, child, active, caller, waiter, channel, reaper, told>>

\* Between two polls: the timer, or the context, which interrupts the child.
Select(w) ==
    LET t == worker[w].task
    IN  /\ worker[w].pc = "select"
        /\ \/ Go(w, "poll") /\ UNCHANGED child
           \/ worker[w].ctx /\ Returned(w, "error") /\ child' = Interrupted(t)
        /\ UNCHANGED <<row, proc, active, caller, waiter, channel, reaper, told>>

\* The runner ends the child run by itself.
ChildEnds(t) ==
    /\ child[t] = "running"
    /\ \E end \in {"done", "stopped"} : child' = [child EXCEPT ![t] = end]
    /\ UNCHANGED <<row, proc, active, worker, caller, waiter, channel, reaper, told>>

\* finish reads the row ...
FinishRead(w) ==
    LET t == worker[w].task
    IN  /\ worker[w].pc = "finish"
        /\ \/ worker' = [worker EXCEPT ![w] =
                             [@ EXCEPT !.seen = row[t].status, !.rev = row[t].revision,
                                       !.pc = IF row[t].status \in Terminal
                                              THEN "notify" ELSE "commit"]]
              /\ UNCHANGED proc
           \/ Fault /\ Go(w, "wakewaiters")
        /\ UNCHANGED <<row, child, active, caller, waiter, channel, reaper, told>>

\* A result that cannot be stored would be "failed" whatever was read: the shell's
\* is one number, and an agent's report that outgrows its bound is an error already.
FinalStatus(seen, stopping, outcome) ==
    CASE seen = "cancel_requested" -> "canceled"
      [] seen # "cancel_requested" /\ stopping -> "interrupted"
      [] OTHER -> IF outcome = "ok" THEN "succeeded" ELSE "failed"

\* ... and writes the final status if the row is still what it read.
FinishCommit(w) ==
    LET t == worker[w].task
        to == FinalStatus(worker[w].seen, worker[w].stopping, worker[w].outcome)
    IN  /\ worker[w].pc = "commit"
        /\ \/ /\ CanTransition(t, worker[w].rev, to)
              /\ row' = [row EXCEPT ![t] = Ended(@, to)] /\ Go(w, "notify")
              /\ UNCHANGED proc
           \/ /\ IF CanTransition(t, worker[w].rev, to) THEN Fault ELSE UNCHANGED proc
              /\ Go(w, "recheck") /\ UNCHANGED row
        /\ UNCHANGED <<child, active, caller, waiter, channel, reaper, told>>

\* The write lost: tell of a terminal row, else only wake the waiters.
FinishRecheck(w) ==
    /\ worker[w].pc = "recheck"
    /\ Go(w, IF row[worker[w].task].status \in Terminal THEN "notify" ELSE "wakewaiters")
    /\ UNCHANGED <<row, child, proc, active, caller, waiter, channel, reaper, told>>

FinishNotify(w) ==
    LET t == worker[w].task
    IN  /\ \/ worker[w].pc = "notify" /\ NotifyTerminal(t)
           \/ worker[w].pc = "wakewaiters" /\ Notify(t) /\ UNCHANGED told
        /\ worker' = [worker EXCEPT ![w] = [Off EXCEPT !.pc = "cleanup", !.task = t]]
        /\ UNCHANGED <<row, child, proc, active, caller, reaper>>

\* Mutant: the deferred cleanup leaves the task in manager.active.
UnregisterNothing(w) ==
    /\ worker[w].pc = "cleanup"
    /\ Go(w, "release")
    /\ UNCHANGED <<row, child, proc, active, caller, waiter, channel, reaper, told>>

\* The deferred cleanup: the registration goes first ...
Unregister(w) ==
    /\ worker[w].pc = "cleanup"
    /\ active' = [active EXCEPT ![worker[w].task] = None]
    /\ Go(w, "release")
    /\ UNCHANGED <<row, child, proc, caller, waiter, channel, reaper, told>>

\* Mutant: the owner's slot is not given back.
ReleaseTotal(w) ==
    /\ worker[w].pc = "release"
    /\ proc' = [proc EXCEPT !.total = @ - 1, !.wake = TRUE]
    /\ worker' = [worker EXCEPT ![w] = [Off EXCEPT !.pc = "loop"]]
    /\ UNCHANGED <<row, child, active, caller, waiter, channel, reaper, told>>

\* ... then the counters, then the wake signal.
Release(w) ==
    LET a == row[worker[w].task].owner
    IN  /\ worker[w].pc = "release"
        /\ proc' = [proc EXCEPT !.total = @ - 1, !.byAgent[a] = @ - 1, !.wake = TRUE]
        /\ worker' = [worker EXCEPT ![w] = [Off EXCEPT !.pc = "loop"]]
        /\ UNCHANGED <<row, child, active, caller, waiter, channel, reaper, told>>

-----------------------------------------------------------------------------
(* The reaper.                                                             *)

\* A row unchanged for DefaultAbandonedTaskIdleTimeout. Timing assumption: a
\* worker registers a task within that time of claiming it.
Age(t) ==
    /\ row[t].status \in Held /\ ~row[t].stale
    /\ \A w \in Workers : worker[w].task = t => worker[w].pc # "claimed"
    /\ row' = [row EXCEPT ![t].stale = TRUE]
    /\ reaper' = [reaper EXCEPT !.list = {[e EXCEPT !.old = @ \/ e.task = t] : e \in @}]
    /\ UNCHANGED <<child, proc, active, worker, caller, waiter, channel, told>>

\* A sweep that would list nothing changes nothing and is left out.
ReapList ==
    /\ reaper.pc = "idle" /\ proc.state = "running"
    /\ \E t \in Tasks : row[t].status \in Held /\ row[t].instance = proc.instance
    /\ reaper' = [reaper EXCEPT
                    !.pc = "sweep",
                    !.list = {[task |-> t, rev |-> row[t].revision, old |-> row[t].stale] :
                                 t \in {u \in Tasks : /\ row[u].status \in Held
                                                      /\ row[u].instance = proc.instance}}]
    /\ UNCHANGED <<row, child, proc, active, worker, caller, waiter, channel, told>>

\* Mutant: any old row is taken for abandoned.
ReapCheckAge ==
    /\ reaper.pc = "sweep"
    /\ IF reaper.list = {} THEN reaper' = NoSweep
       ELSE \E e \in reaper.list :
              reaper' = [reaper EXCEPT !.list = @ \ {e}, !.entry = e,
                                       !.pc = IF e.old THEN "commit" ELSE "sweep"]
    /\ UNCHANGED <<row, child, proc, active, worker, caller, waiter, channel, told>>

\* taskIsAbandoned
ReapCheck ==
    /\ reaper.pc = "sweep"
    /\ IF reaper.list = {} THEN reaper' = NoSweep
       ELSE \E e \in reaper.list :
              reaper' = [reaper EXCEPT
                           !.list = @ \ {e}, !.entry = e,
                           !.pc = IF active[e.task] = None /\ e.old THEN "commit" ELSE "sweep"]
    /\ UNCHANGED <<row, child, proc, active, worker, caller, waiter, channel, told>>

ReapCommit ==
    LET e == reaper.entry
    IN  /\ reaper.pc = "commit"
        /\ IF CanTransition(e.task, e.rev, "interrupted")
           THEN /\ row' = [row EXCEPT ![e.task] = Ended(@, "interrupted")]
                /\ reaper' = [reaper EXCEPT !.pc = "notify"]
           ELSE reaper' = [reaper EXCEPT !.pc = "sweep"] /\ UNCHANGED row
        /\ UNCHANGED <<child, proc, active, worker, caller, waiter, channel, told>>

ReapNotify ==
    /\ reaper.pc = "notify"
    /\ NotifyTerminal(reaper.entry.task)
    /\ reaper' = [reaper EXCEPT !.pc = "sweep"]
    /\ UNCHANGED <<row, child, proc, active, worker, caller>>

-----------------------------------------------------------------------------
(* Wait.                                                                   *)

\* The waiter registers before it reads the status. Wait is reached through
\* requests, which the app serves after it started the manager.
WaitRegister(k, t) ==
    /\ proc.state # "new"
    /\ \/ waiter[k].pc = "idle" /\ row[t].status # "none"
       \/ waiter[k].pc = "again" /\ waiter[k].task = t
    /\ channel' = [channel EXCEPT ![t] = @ \cup {k}]
    /\ waiter' = [waiter EXCEPT ![k] = [pc |-> "read", task |-> t, woken |-> FALSE]]
    /\ UNCHANGED <<row, child, proc, active, worker, caller, reaper, told>>

\* Mutant: the channel is dropped without being closed.
WaitReadDrops(k) ==
    /\ waiter[k].pc = "read"
    /\ IF row[waiter[k].task].status \in Terminal
       THEN /\ channel' = [channel EXCEPT ![waiter[k].task] = {}]
            /\ waiter' = [waiter EXCEPT ![k] = NoWait]
       ELSE waiter' = [waiter EXCEPT ![k].pc = "blocked"] /\ UNCHANGED channel
    /\ UNCHANGED <<row, child, proc, active, worker, caller, reaper, told>>

\* A terminal row ends the wait and drops the channel, waking the others; so
\* does a query that fails, if only because the request was given up.
WaitRead(k) ==
    LET t == waiter[k].task
    IN  /\ waiter[k].pc = "read"
        /\ \/ /\ channel' = [channel EXCEPT ![t] = {}]
              /\ waiter' = [j \in Waiters |->
                                IF j = k THEN NoWait
                                ELSE IF j \in channel[t] THEN [waiter[j] EXCEPT !.woken = TRUE]
                                ELSE waiter[j]]
           \/ /\ row[t].status \notin Terminal
              /\ waiter' = [waiter EXCEPT ![k].pc = "blocked"] /\ UNCHANGED channel
        /\ UNCHANGED <<row, child, proc, active, worker, caller, reaper, told>>

WaitWake(k) ==
    /\ waiter[k].pc = "blocked" /\ waiter[k].woken
    /\ waiter' = [waiter EXCEPT ![k].pc = "again"]
    /\ UNCHANGED <<row, child, proc, active, worker, caller, channel, reaper, told>>

WaitTimer(k) ==
    /\ waiter[k].pc = "blocked"
    /\ waiter' = [waiter EXCEPT ![k].pc = "again"]
    /\ UNCHANGED <<row, child, proc, active, worker, caller, channel, reaper, told>>

\* The waiting request's own context ends; the channel stays for the others.
WaitLeave(k) ==
    /\ waiter[k].pc = "blocked"
    /\ waiter' = [waiter EXCEPT ![k] = NoWait]
    /\ channel' = [channel EXCEPT ![waiter[k].task] = @ \ {k}]
    /\ UNCHANGED <<row, child, proc, active, worker, caller, reaper, told>>

-----------------------------------------------------------------------------
Execute(w) ==
    \/ Reject(w) \/ ShellDone(w) \/ Launch(w) \/ Attach(w) \/ Announce(w)
    \/ Poll(w) \/ PollFails(w) \/ Select(w)

Finish(w) ==
    \/ FinishRead(w) \/ FinishCommit(w) \/ FinishRecheck(w) \/ FinishNotify(w)
    \/ Unregister(w) \/ Release(w)

Reap == ReapList \/ ReapCheck \/ ReapCommit \/ ReapNotify

Next ==
    \/ Start \/ CloseBegin \/ CloseCancel \/ CloseEnd \/ Restart
    \/ \E k \in Callers : 
          \/ SubmitCheck(k) \/ SubmitCreate(k) \/ SignalWake(k)
          \/ CancelActive(k) \/ CancelTell(k)
          \/ \E t \in Tasks : Cancel(k, t)
          \/ \E n \in Limits, m \in AgentLimits : UpdateSettings(k, n, m)
    \/ \E w \in Workers :
          \/ Exit(w) \/ Claim(w) \/ ClaimFails(w) \/ TakeWake(w) \/ PollTimer(w)
          \/ Register(w) \/ Execute(w) \/ Finish(w)
    \/ \E t \in Tasks : ChildEnds(t) \/ Age(t)
    \/ Reap
    \/ \E k \in Waiters :
          \/ WaitRead(k) \/ WaitWake(k) \/ WaitTimer(k) \/ WaitLeave(k)
          \/ \E t \in Tasks : WaitRegister(k, t)

Spec == Init /\ [][Next]_vars

\* Goroutines run on; executors return and the runner ends every run; the
\* sweep comes back, and an untouched row grows old. Neither PollTimer nor
\* WaitTimer is fair: the events alone must do.
Fairness ==
    /\ \A w \in Workers :
          /\ WF_vars(Claim(w) \/ TakeWake(w) \/ Register(w))
          /\ WF_vars(Execute(w)) /\ WF_vars(Finish(w))
    /\ \A k \in Callers :
          WF_vars(SubmitCreate(k) \/ SignalWake(k) \/ CancelActive(k) \/ CancelTell(k))
    /\ \A k \in Waiters :
          WF_vars(WaitRead(k) \/ WaitWake(k) \/ \E t \in Tasks : waiter[k].pc = "again" /\ WaitRegister(k, t))
    /\ WF_vars(Reap)
    /\ \A t \in Tasks : WF_vars(ChildEnds(t)) /\ WF_vars(Age(t))

FairSpec == Spec /\ Fairness

-----------------------------------------------------------------------------
(* Properties.                                                             *)

Finishing == {"finish", "commit", "recheck", "notify", "wakewaiters"}
Busy == {"claimed"} \cup Executing \cup Finishing \cup {"cleanup", "release"}

BusyWorkers == {w \in Workers : worker[w].pc \in Busy}

\* The claim counters are exactly the workers that hold a task, in total and
\* per owner, whatever ends a task, fails or changes the limits meanwhile: no
\* slot leaks, and none is given back twice.
CountersMatch ==
    /\ proc.total = Cardinality(BusyWorkers)
    /\ \A a \in Owners :
          proc.byAgent[a] = Cardinality({w \in BusyWorkers : row[worker[w].task].owner = a})

\* A task has one executor: no second worker, of this process or of the one
\* before it, ever holds a claimed task, and the context Cancel finds in
\* manager.active is that of the worker that holds it.
SoleExecutor ==
    /\ \A v, w \in BusyWorkers : worker[v].task = worker[w].task => v = w
    /\ \A t \in Tasks : active[t] # None => worker[active[t]].task = t
    /\ \A w \in BusyWorkers :
          LET r == row[worker[w].task]
          IN  /\ r.status # "queued"
              /\ r.status \in Held => r.instance = proc.instance

\* The reaper ends only what no executor works on any more: a row goes to
\* interrupted at the restart's reconciliation, by a worker that stops with
\* the manager, or when the worker that claimed it has unregistered it.
Ends(t) == row[t].status \in Held /\ row'[t].status = "interrupted"

ReapedIsAbandoned ==
    [][\A t \in Tasks : Ends(t) =>
          \/ proc.state = "new" \/ proc.root
          \/ \A w \in BusyWorkers : worker[w].task = t => worker[w].pc = "release"]_vars

\* The wake channel holds one token for any number of events, yet none is
\* lost: while a row can be claimed, a token is there, or a worker is on its
\* way to look at the queue, or the submitter has yet to signal.
NoLostWakeup ==
    (/\ proc.state = "running" /\ ~proc.root /\ proc.faults = 0
     /\ proc.total < proc.limit
     /\ \E t \in Tasks : Claimable(t))
    => \/ proc.wake
       \/ \E w \in Workers : worker[w].pc \in {"loop", "claimed"}
       \/ \E k \in Callers : caller[k].pc = "signal"

\* Somebody has still to tell of the end of t.
ToBeTold(t) ==
    \/ \E w \in Workers : worker[w].task = t /\ worker[w].pc = "notify"
    \/ \E k \in Callers : caller[k].task = t /\ caller[k].terminal
    \/ reaper.pc = "notify" /\ reaper.entry.task = t

\* A waiter that blocks on a terminal task has been woken or is about to be:
\* registering before the read leaves no window for the one notification.
NoLostNotify ==
    \A k \in Waiters :
        waiter[k].pc = "blocked" /\ row[waiter[k].task].status \in Terminal =>
            waiter[k].woken \/ ToBeTold(waiter[k].task)

\* Every task that ends in a running process has its terminal hook run, which
\* is what wakes a parked parent, even if a write fails or two ends race.
TerminalIsTold ==
    proc.instance = 1 =>
        \A t \in Tasks : row[t].status \in Terminal => t \in told \/ ToBeTold(t)

\* A child run outlives the wait of its task only once it is attached to the
\* row: no run that the row does not name goes on.
NoOrphanRun ==
    \A t \in Tasks : child[t] = "running" =>
        row[t].attached \/ \E w \in Workers : worker[w].task = t /\ worker[w].pc = "attach"

\* A claimed task reaches a terminal status while the manager runs.
HeldEnds ==
    \A t \in Tasks :
        (row[t].status \in Held /\ proc.state = "running")
            ~> (row[t].status \in Terminal \/ proc.state # "running")

\* A queued task is claimed or canceled while the manager runs, on the wake
\* events alone, unless a claim met a database error (then the timer helps).
QueuedStarts ==
    \A t \in Tasks :
        (row[t].status = "queued" /\ proc.state = "running")
            ~> (row[t].status # "queued" \/ proc.state # "running" \/ proc.faults > 0)

Lifecycle == INSTANCE TaskLifecycle WITH
    status <- [t \in Tasks |-> row[t].status]

\* Through claims, cancels, the reaper, crashes and restarts each task lives
\* the life of TaskLifecycle: it starts at most once and ends at most once, a
\* requested cancel never succeeds, and only ended tasks are told of.
ImplementsLifecycle == Lifecycle!Spec

\* Documented, and not what the code does: a canceled task has interrupted
\* the run it dispatched.
CanceledStopsChild ==
    \A t \in Tasks : row[t].status = "canceled" => child[t] # "running"

\* Documented, and not what the code does: in a running manager a requested
\* cancel ends as canceled.
CancelEndsCanceled ==
    [][\A t \in Tasks :
          /\ row[t].status = "cancel_requested" /\ row'[t].status # "cancel_requested"
          /\ proc.state = "running" /\ proc.faults = 0
          => row'[t].status = "canceled"]_vars
=============================================================================
