----------------------------- MODULE RunRegistry -----------------------------
(***************************************************************************)
(* The runs of one agent: the rows of the runs table                       *)
(* (internal/db/runs_checkpoints.go, background_tasks.go) and the slot     *)
(* r.running[agent] that lets one of them execute at a time                *)
(* (internal/agent/runner_lifecycle.go, runner_submission.go): a request   *)
(* that finds the slot taken becomes its queued successor and cancels the  *)
(* turn in it; Stop clears the successor and cancels; a turn that          *)
(* dispatched a subagent parks and is woken when the task ends             *)
(* (continuation.go, continuation_background.go); context compaction       *)
(* shares the slot; a reaper ends rows nobody executes.                    *)
(*                                                                         *)
(* A step is one database transaction or one section under runMu. What a   *)
(* goroutine reads in one and uses in a later one is in its own record.    *)
(***************************************************************************)
EXTENDS Integers, FiniteSets

CONSTANTS
    Threads,    \* bound: goroutines alive at once
    NoThread,   \* no goroutine
    MaxRuns,    \* bound: runs ever created; named in the order of creation
    MaxParks,   \* bound: continuations of one run
    MaxStops,   \* bound: calls of Interrupt
    MaxWork,    \* bound: runs created and continuations made, together
    Requests    \* the kinds of request made, of those below

ASSUME BoundsAssumption ==
    /\ NoThread \notin Threads
    /\ {MaxRuns, MaxParks, MaxStops, MaxWork} \subseteq Nat
    /\ Requests \subseteq {"message", "correction", "source", "compact"}

VARIABLES
    run,         \* the rows of runs
    generation,  \* agents.execution_generation
    task,        \* task[r][n]: the subagent task the n-th continuation of r awaits
    slot,        \* r.running[agent]
    compacting,  \* r.compacting[agent]; a registration waits for a background one
                 \* until it ends or the wait times out, and never for a manual one
    thread,      \* the goroutines of the runner
    stops        \* calls of Interrupt so far

vars == <<run, generation, task, slot, compacting, thread, stops>>

Runs == 1 .. MaxRuns
Parks == 1 .. MaxParks
None == 0
Parked == "continuation_pending"
Terminal == {"completed", "error", "interrupted", "superseded"}
Recoverable == {"pending", "running"}

NoRow == [status |-> "none", generation |-> 0, count |-> 0, waiting |-> FALSE, old |-> FALSE]

\* An activeRun. live: it has a cancel function; next: its pendingRunID.
NoSlot == [owner |-> NoThread, run |-> None, live |-> FALSE, next |-> None, interrupted |-> FALSE]

(* A goroutine: the run it works on and the successor it will start, the     *)
(* continuation count it read, the error or terminal status it carries,      *)
(* whether its run context is cancelled, whether its segment waits for a     *)
(* task, what it does afterwards, the goroutine it is about to cancel, the   *)
(* rows it listed with their counts, and the runs an Interrupt found.        *)
Idle == [pc |-> "idle", run |-> None, next |-> None, count |-> 0, result |-> "none",
         ctx |-> FALSE, wait |-> FALSE, after |-> "none", target |-> NoThread,
         list |-> {}, stop |-> {}]

Executing == {"load", "segment", "boundary", "mark", "revalidate", "resume", "done", "leave"}
Reserving == {"casresume", "swap"}

Init ==
    /\ run = [r \in Runs |-> NoRow]
    /\ generation = 0
    /\ task = [r \in Runs |-> [n \in Parks |-> "none"]]
    /\ slot = NoSlot
    /\ compacting = FALSE
    /\ thread = [t \in Threads |-> Idle]
    /\ stops = 0

-----------------------------------------------------------------------------
(*************************** Rows and their updates ************************)

Rows == {r \in Runs : run[r].status # "none"}
ParkedRows == {r \in Runs : run[r].status = Parked}
NewRow == Cardinality(Rows) + 1
Ended(r, n) == task[r][n] \in {"told", "untold"}

\* The statuses CompleteRun accepts for each terminal status.
Completable == [interrupted |-> Recoverable \cup {Parked}, error |-> Recoverable \cup {Parked},
                completed |-> {"running"}, superseded |-> Recoverable]

\* Mutant: the update does not compare the status it replaces.
CompleteRunBlindly(r, status) ==
    run' = [run EXCEPT ![r].status = status, ![r].old = FALSE]

\* CompleteRun: a conflict leaves the row alone.
CompleteRun(r, status) ==
    run' = IF run[r].status \in Completable[status]
           THEN [run EXCEPT ![r].status = status, ![r].old = FALSE] ELSE run

\* The compare-and-swap of ResumeContinuationRun and CancelContinuationRun.
AwaitsAt(r, n) == run[r].status = Parked /\ run[r].count = n

ResumeContinuationRun(r) ==
    run' = [run EXCEPT ![r].status = "running", ![r].waiting = FALSE, ![r].old = FALSE]

CancelContinuationRun(r, n) ==
    run' = IF AwaitsAt(r, n)
           THEN [run EXCEPT ![r].status = "interrupted", ![r].waiting = FALSE, ![r].old = FALSE]
           ELSE run

\* validateContinuationBoundary: no newer generation; for a continuation, no
\* newer message either. A row stands for the message created with it.
Current(r) == run[r].generation = generation
Valid(r) == Current(r) /\ \A q \in Rows : q <= r

Become(t, pc) == thread' = [thread EXCEPT ![t].pc = pc]
Return(t) == thread' = [thread EXCEPT ![t] = Idle]

\* A goroutine's context dies with its slot: nothing is left to cancel.
WithoutTarget(t) ==
    [u \in Threads |-> [thread[u] EXCEPT !.target = IF @ = t THEN NoThread ELSE @]]

\* go runWithRun(next), if there is one.
Successor(next) == IF next = None THEN Idle ELSE [Idle EXCEPT !.pc = "register", !.run = next]

\* What follows an attempt to wake a run: a finished turn starts its successor,
\* or tries to compact the context; the caller of a hook returns.
Finish(t) ==
    IF thread[t].next = None /\ thread[t].after = "finish" THEN [Idle EXCEPT !.pc = "compact"]
    ELSE Successor(thread[t].next)

-----------------------------------------------------------------------------
(******************************** Requests *********************************)

\* The row a request inserts; pending until a goroutine registers it.
Insert(r, gen) == run' = [run EXCEPT ![r].status = "pending", ![r].generation = gen]

\* The work done so far: a goroutine that submits will insert a row, one that
\* dispatched a task or is about to park its run will make a continuation.
RowsMade == Cardinality(Rows) + Cardinality({t \in Threads : thread[t].pc = "preempt"})
Continuations ==
    {x \in Runs \X Parks :
        \/ x[2] <= run[x[1]].count \/ task[x[1]][x[2]] # "none"
        \/ \E t \in Threads : /\ thread[t].pc \in {"boundary", "mark"}
                              /\ x = <<thread[t].run, thread[t].count + 1>>}
WorkLeft == RowsMade + Cardinality(Continuations) < MaxWork
RowsLeft == RowsMade < MaxRuns /\ WorkLeft

Listed == {<<r, run[r].count>> : r \in ParkedRows}

\* A user message: first cancel the continuations that are parked ...
SubmitMessage(t) ==
    /\ thread[t].pc = "idle"
    /\ RowsLeft
    /\ thread' = [thread EXCEPT ![t] = [Idle EXCEPT !.pc = "preempt", !.list = Listed]]
    /\ UNCHANGED <<run, generation, task, slot, compacting, stops>>

\* ... one by one; a continuation that moved meanwhile refuses the message.
Preempt(t) ==
    /\ thread[t].pc = "preempt"
    /\ \E x \in thread[t].list :
        /\ CancelContinuationRun(x[1], x[2])
        /\ IF AwaitsAt(x[1], x[2]) THEN thread' = [thread EXCEPT ![t].list = @ \ {x}]
                                    ELSE Return(t)
    /\ UNCHANGED <<generation, task, slot, compacting, stops>>

\* ... then insert the message and its run under a new execution generation.
CreateRun(t) ==
    /\ thread[t].pc = "preempt" /\ thread[t].list = {}
    /\ generation' = generation + 1
    /\ Insert(NewRow, generation')
    /\ thread' = [thread EXCEPT ![t].pc = "register", ![t].run = NewRow]
    /\ UNCHANGED <<task, slot, compacting, stops>>

\* A correction or a rerun inserts its row first and binds a generation next.
SubmitCorrection(t) ==
    /\ thread[t].pc = "idle"
    /\ RowsLeft
    /\ Insert(NewRow, 0)
    /\ thread' = [thread EXCEPT ![t] = [Idle EXCEPT !.pc = "bind", !.run = NewRow]]
    /\ UNCHANGED <<generation, task, slot, compacting, stops>>

BindPendingCorrectionRun(t) ==
    /\ thread[t].pc = "bind"
    /\ run[thread[t].run].status = "pending" /\ run[thread[t].run].generation = 0
    /\ generation' = generation + 1
    /\ run' = [run EXCEPT ![thread[t].run].generation = generation']
    /\ Become(t, "register")
    /\ UNCHANGED <<task, slot, compacting, stops>>

\* An internal or scheduled submission takes a free slot in one section.
SubmitSource(t) ==
    /\ thread[t].pc = "idle"
    /\ RowsLeft
    /\ ~compacting /\ slot = NoSlot
    /\ \A r \in Runs : run[r].status \notin Recoverable
    /\ generation' = generation + 1
    /\ Insert(NewRow, generation')
    /\ slot' = [NoSlot EXCEPT !.owner = t, !.run = NewRow, !.live = TRUE]
    /\ thread' = [thread EXCEPT ![t] = [Idle EXCEPT !.pc = "load", !.run = NewRow]]
    /\ UNCHANGED <<task, compacting, stops>>

-----------------------------------------------------------------------------
(****************************** registerRun ********************************)

\* A compaction that kept the slot too long fails the registration.
RegisterBusy(t) ==
    /\ thread[t].pc = "register"
    /\ compacting
    /\ thread' = [thread EXCEPT ![t].pc = "complete", ![t].result = "error"]
    /\ UNCHANGED <<run, generation, task, slot, compacting, stops>>

\* Mutant: the request that is replaced is not superseded in its row.
RegisterQueuedOver(t) ==
    /\ thread[t].pc = "register"
    /\ ~compacting /\ slot # NoSlot
    /\ slot' = [slot EXCEPT !.next = thread[t].run]
    /\ thread' = [thread EXCEPT ![t] =
         [Idle EXCEPT !.pc = "cancel", !.target = IF slot.live THEN slot.owner ELSE NoThread]]
    /\ UNCHANGED <<run, generation, task, compacting, stops>>

\* A taken slot keeps the newest request as successor; its turn is cancelled
\* after the request this one replaces was superseded.
RegisterQueued(t) ==
    LET replaced == IF slot.next = thread[t].run THEN None ELSE slot.next
        victim == IF slot.live THEN slot.owner ELSE NoThread IN
    /\ thread[t].pc = "register"
    /\ ~compacting /\ slot # NoSlot
    /\ slot' = [slot EXCEPT !.next = thread[t].run]
    /\ thread' = [thread EXCEPT ![t] =
         IF replaced # None
         THEN [Idle EXCEPT !.pc = "supersede", !.run = replaced, !.target = victim]
         ELSE [Idle EXCEPT !.pc = "cancel", !.target = victim]]
    /\ UNCHANGED <<run, generation, task, compacting, stops>>

\* A free slot starts the run if its row is still pending.
RegisterStart(t) ==
    LET r == thread[t].run IN
    /\ thread[t].pc = "register"
    /\ ~compacting /\ slot = NoSlot
    /\ IF run[r].status = "pending"
       THEN /\ run' = [run EXCEPT ![r].status = "running", ![r].old = FALSE]
            /\ slot' = [NoSlot EXCEPT !.owner = t, !.run = r, !.live = TRUE]
            /\ Become(t, "load")
       ELSE /\ thread' = [thread EXCEPT ![t].pc = "complete", ![t].result = "error"]
            /\ UNCHANGED <<run, slot>>
    /\ UNCHANGED <<generation, task, compacting, stops>>

Supersede(t) ==
    /\ thread[t].pc = "supersede"
    /\ CompleteRun(thread[t].run, "superseded")
    /\ Become(t, "cancel")
    /\ UNCHANGED <<generation, task, slot, compacting, stops>>

\* The cancel function captured under runMu; the last step of Interrupt too.
Cancel(t) ==
    /\ thread[t].pc = "cancel"
    /\ thread' = [u \in Threads |->
         IF u = t THEN Idle
         ELSE IF u = thread[t].target THEN [thread[u] EXCEPT !.ctx = TRUE] ELSE thread[u]]
    /\ UNCHANGED <<run, generation, task, slot, compacting, stops>>

-----------------------------------------------------------------------------
(************************ executeRegisteredRun: the turn *******************)

\* run() returns an error; the turn is over.
Fail(t, result) == thread' = [thread EXCEPT ![t].pc = "leave", ![t].result = result]

\* Every call below takes the run context and fails once it is cancelled.
Canceled(t) ==
    /\ thread[t].pc \in {"load", "segment", "boundary", "mark", "resume", "done"}
    /\ thread[t].ctx
    /\ Fail(t, "canceled")
    /\ UNCHANGED <<run, generation, task, slot, compacting, stops>>

\* loadContinuationState and the boundary check before the first segment.
Load(t) ==
    LET r == thread[t].run
        status == IF run[r].status = "pending" THEN "running" ELSE run[r].status IN
    /\ thread[t].pc = "load" /\ ~thread[t].ctx
    /\ run' = [run EXCEPT ![r].status = status, ![r].old = @ /\ run[r].status # "pending"]
    /\ IF status = "running" /\ IF run[r].count > 0 THEN Valid(r) ELSE Current(r)
       THEN thread' = [thread EXCEPT ![t].pc = "segment", ![t].count = run[r].count]
       ELSE Fail(t, "error")
    /\ UNCHANGED <<generation, task, slot, compacting, stops>>

Segment(t) == thread[t].pc = "segment" /\ ~thread[t].ctx

\* The turn calls the subagent tool: a task that will resume this run.
SegmentDispatch(t) ==
    LET r == thread[t].run  n == thread[t].count + 1 IN
    /\ Segment(t) /\ n \in Parks
    /\ task[r][n] = "none" /\ WorkLeft
    /\ task' = [task EXCEPT ![r][n] = "live"]
    /\ UNCHANGED <<run, generation, slot, compacting, thread, stops>>

SegmentComplete(t) ==
    /\ Segment(t)
    /\ Become(t, "done")
    /\ UNCHANGED <<run, generation, task, slot, compacting, stops>>

\* A provider or tool error, or an exhausted budget.
SegmentError(t) ==
    /\ Segment(t)
    /\ Fail(t, "error")
    /\ UNCHANGED <<run, generation, task, slot, compacting, stops>>

\* The segment ends waiting for its task, or out of turns.
SegmentContinue(t) ==
    /\ Segment(t) /\ thread[t].count + 1 \in Parks
    /\ WorkLeft \/ task[thread[t].run][thread[t].count + 1] # "none"
    /\ thread' = [thread EXCEPT ![t].pc = "boundary",
                                ![t].wait = task[thread[t].run][thread[t].count + 1] # "none"]
    /\ UNCHANGED <<run, generation, task, slot, compacting, stops>>

\* scheduleContinuation: check the boundary ...
Boundary(t) ==
    /\ thread[t].pc = "boundary" /\ ~thread[t].ctx
    /\ IF Valid(thread[t].run) THEN Become(t, "mark") ELSE Fail(t, "error")
    /\ UNCHANGED <<run, generation, task, slot, compacting, stops>>

\* ... then MarkRunContinuationPending. A segment that waits ends the turn.
Mark(t) ==
    LET r == thread[t].run  n == thread[t].count IN
    /\ thread[t].pc = "mark" /\ ~thread[t].ctx
    /\ IF run[r].status = "running" /\ run[r].count = n
       THEN /\ run' = [run EXCEPT ![r].status = Parked, ![r].count = n + 1,
                                  ![r].waiting = thread[t].wait, ![r].old = FALSE]
            /\ thread' = [thread EXCEPT ![t].count = n + 1,
                            ![t].pc = IF thread[t].wait THEN "leave" ELSE "revalidate"]
       ELSE Fail(t, "error") /\ UNCHANGED run
    /\ UNCHANGED <<generation, task, slot, compacting, stops>>

\* resumeContinuationCAS: a boundary that does not hold, or cannot be read
\* because the context is cancelled, interrupts the run ...
Revalidate(t) ==
    LET r == thread[t].run IN
    /\ thread[t].pc = "revalidate"
    /\ IF Valid(r) /\ ~thread[t].ctx
       THEN Become(t, "resume") /\ UNCHANGED run
       ELSE /\ CancelContinuationRun(r, thread[t].count)
            /\ Fail(t, IF thread[t].ctx THEN "canceled" ELSE "error")
    /\ UNCHANGED <<generation, task, slot, compacting, stops>>

\* ... and one that holds starts the next segment.
Resume(t) ==
    LET r == thread[t].run IN
    /\ thread[t].pc = "resume" /\ ~thread[t].ctx
    /\ IF AwaitsAt(r, thread[t].count)
       THEN ResumeContinuationRun(r) /\ Become(t, "segment")
       ELSE Fail(t, "error") /\ UNCHANGED run
    /\ UNCHANGED <<generation, task, slot, compacting, stops>>

\* completeContinuousRun.
Done(t) ==
    LET r == thread[t].run IN
    /\ thread[t].pc = "done" /\ ~thread[t].ctx
    /\ CompleteRun(r, "completed")
    /\ IF run[r].status = "running" THEN Become(t, "leave") ELSE Fail(t, "error")
    /\ UNCHANGED <<generation, task, slot, compacting, stops>>

\* Mutant: a turn that parked does not look at its task again.
LeaveBlindly(t) ==
    /\ thread[t].pc = "leave"
    /\ slot' = NoSlot
    /\ thread' = [WithoutTarget(t) EXCEPT ![t] =
         IF thread[t].result = "none" THEN Successor(slot.next)
         ELSE [Idle EXCEPT !.pc = "complete", !.run = thread[t].run, !.result = "error",
                           !.next = slot.next]]
    /\ UNCHANGED <<run, generation, task, compacting, stops>>

\* unregisterRun: free the slot, and take its successor along unless a
\* cancelled turn was stopped.
Leave(t) ==
    LET result == thread[t].result
        stopped == result = "canceled" /\ (slot.interrupted \/ slot.next = None)
        status == IF result = "error" THEN "error"
                  ELSE IF stopped THEN "interrupted" ELSE "superseded" IN
    /\ thread[t].pc = "leave"
    /\ slot' = NoSlot
    /\ thread' = [WithoutTarget(t) EXCEPT ![t] =
         IF result = "none"
         THEN [Idle EXCEPT !.pc = "check", !.run = thread[t].run,
                           !.next = slot.next, !.after = "finish"]
         ELSE [Idle EXCEPT !.pc = "complete", !.run = thread[t].run, !.result = status,
                           !.next = IF stopped THEN None ELSE slot.next]]
    /\ UNCHANGED <<run, generation, task, compacting, stops>>

\* CompleteRun, then go runWithRun for the successor.
Complete(t) ==
    /\ thread[t].pc = "complete"
    /\ CompleteRun(thread[t].run, thread[t].result)
    /\ thread' = [thread EXCEPT ![t] = Finish(t)]
    /\ UNCHANGED <<generation, task, slot, compacting, stops>>

-----------------------------------------------------------------------------
(************************** Waking a parked run ****************************)

TaskEnd(r, n) ==
    /\ task[r][n] = "live"
    /\ task' = [task EXCEPT ![r][n] = "untold"]
    /\ UNCHANGED <<run, generation, slot, compacting, thread, stops>>

\* The terminal hook of the task: WakeBackgroundContinuation.
TerminalHook(t, r, n) ==
    /\ thread[t].pc = "idle" /\ task[r][n] = "untold"
    /\ task' = [task EXCEPT ![r][n] = "told"]
    /\ thread' = [thread EXCEPT ![t] = [Idle EXCEPT !.pc = "check", !.run = r, !.count = n]]
    /\ UNCHANGED <<run, generation, slot, compacting, stops>>

\* Mutant: a run that waits is resumed without asking for its task.
CheckUnready(t) ==
    LET r == thread[t].run  ready == run[r].status = Parked /\ run[r].waiting IN
    /\ thread[t].pc = "check"
    /\ IF ready /\ Valid(r)
       THEN /\ thread' = [thread EXCEPT ![t].pc = "reserve", ![t].count = run[r].count]
            /\ UNCHANGED run
       ELSE /\ thread' = [thread EXCEPT ![t] = Finish(t)]
            /\ IF ready THEN CancelContinuationRun(r, run[r].count) ELSE UNCHANGED run
    /\ UNCHANGED <<generation, task, slot, compacting, stops>>

\* Read the row and its task: a run that waits for a task that ended, for the
\* hook the hook's own, goes on if its boundary holds and is interrupted if not.
Check(t) ==
    LET r == thread[t].run
        ready == /\ run[r].status = Parked /\ run[r].waiting
                 /\ thread[t].after = "finish" \/ run[r].count = thread[t].count
                 /\ Ended(r, run[r].count) IN
    /\ thread[t].pc = "check"
    /\ IF ready /\ Valid(r)
       THEN /\ thread' = [thread EXCEPT ![t].pc = "reserve", ![t].count = run[r].count]
            /\ UNCHANGED run
       ELSE /\ thread' = [thread EXCEPT ![t] = Finish(t)]
            /\ IF ready THEN CancelContinuationRun(r, run[r].count) ELSE UNCHANGED run
    /\ UNCHANGED <<generation, task, slot, compacting, stops>>

\* Mutant: the placeholder is put over a registration that is there.
ReserveOver(t) ==
    /\ thread[t].pc = "reserve" /\ ~compacting
    /\ slot' = [NoSlot EXCEPT !.owner = t, !.run = thread[t].run]
    /\ Become(t, "casresume")
    /\ UNCHANGED <<run, generation, task, compacting, stops>>

\* Take the slot with a placeholder that has no cancel function, or give up.
Reserve(t) ==
    /\ thread[t].pc = "reserve"
    /\ IF ~compacting /\ slot = NoSlot
       THEN /\ slot' = [NoSlot EXCEPT !.owner = t, !.run = thread[t].run]
            /\ Become(t, "casresume")
       ELSE thread' = [thread EXCEPT ![t] = Finish(t)] /\ UNCHANGED slot
    /\ UNCHANGED <<run, generation, task, compacting, stops>>

\* Resume the row, or clear the placeholder and whatever queued in it.
CasResume(t) ==
    LET r == thread[t].run IN
    /\ thread[t].pc = "casresume"
    /\ IF AwaitsAt(r, thread[t].count)
       THEN ResumeContinuationRun(r) /\ Become(t, "swap") /\ UNCHANGED slot
       ELSE /\ slot' = NoSlot
            /\ thread' = [thread EXCEPT ![t] = Finish(t)]
            /\ UNCHANGED run
    /\ UNCHANGED <<generation, task, compacting, stops>>

\* Mutant: an interrupted placeholder is dropped without ending the run.
SwapForgets(t) ==
    /\ thread[t].pc = "swap"
    /\ IF slot.interrupted
       THEN /\ slot' = NoSlot
            /\ thread' = [WithoutTarget(t) EXCEPT ![t] = Finish(t)]
       ELSE /\ slot' = [slot EXCEPT !.live = TRUE]
            /\ thread' = [thread EXCEPT ![t] = [Idle EXCEPT !.pc = "load", !.run = thread[t].run]]
    /\ UNCHANGED <<run, generation, task, compacting, stops>>

\* Replace the placeholder by the registration of a goroutine u that executes
\* the run; one that was interrupted is dropped instead ...
Swap(t) ==
    /\ thread[t].pc = "swap"
    /\ IF slot.interrupted
       THEN slot' = [slot EXCEPT !.live = TRUE] /\ Become(t, "drop")
       ELSE \E u \in Threads :
            /\ IF thread[t].next = None THEN u = t ELSE thread[u].pc = "idle"
            /\ slot' = [slot EXCEPT !.owner = u, !.live = TRUE]
            /\ thread' = [thread EXCEPT ![t] = Finish(t),
                            ![u] = [Idle EXCEPT !.pc = "load", !.run = thread[t].run]]
    /\ UNCHANGED <<run, generation, task, compacting, stops>>

\* ... with whatever queued in it, and its run ends.
Drop(t) ==
    /\ thread[t].pc = "drop"
    /\ slot' = NoSlot
    /\ thread' = [WithoutTarget(t) EXCEPT ![t].pc = "complete", ![t].result = "interrupted"]
    /\ UNCHANGED <<run, generation, task, compacting, stops>>

-----------------------------------------------------------------------------
(************************** Context compaction *****************************)

\* beginContextCompaction and its background form want an idle agent.
Compactable ==
    /\ ~compacting /\ slot = NoSlot
    /\ \A r \in Runs : run[r].status \notin Recoverable \cup {Parked}

CompactBackground(t) ==
    /\ thread[t].pc = "compact"
    /\ IF Compactable THEN compacting' = TRUE /\ Become(t, "compacting")
                      ELSE Return(t) /\ UNCHANGED compacting
    /\ UNCHANGED <<run, generation, task, slot, stops>>

CompactManual(t) ==
    /\ thread[t].pc = "idle" /\ Compactable
    /\ compacting' = TRUE
    /\ thread' = [thread EXCEPT ![t].pc = "compacting"]
    /\ UNCHANGED <<run, generation, task, slot, stops>>

CompactEnd(t) ==
    /\ thread[t].pc = "compacting"
    /\ compacting' = FALSE
    /\ Return(t)
    /\ UNCHANGED <<run, generation, task, slot, stops>>

-----------------------------------------------------------------------------
(******************************** Interrupt ********************************)

\* Forget the successor, mark the slot, capture its cancel function.
Interrupt(t) ==
    /\ thread[t].pc = "idle" /\ stops < MaxStops
    /\ stops' = stops + 1
    /\ slot' = IF slot = NoSlot THEN NoSlot
               ELSE [slot EXCEPT !.next = None, !.interrupted = TRUE]
    /\ thread' = [thread EXCEPT ![t] =
         [Idle EXCEPT !.pc = IF slot.next = None THEN "stoptasks" ELSE "stopnext",
                      !.run = slot.next,
                      !.after = IF slot.live THEN "cancel" ELSE "none",
                      !.target = IF slot.live THEN slot.owner ELSE NoThread,
                      !.stop = ParkedRows \cup ({slot.run} \ {None})]]
    /\ UNCHANGED <<run, generation, task, compacting>>

StopNext(t) ==
    /\ thread[t].pc = "stopnext"
    /\ CompleteRun(thread[t].run, "interrupted")
    /\ Become(t, "stoptasks")
    /\ UNCHANGED <<generation, task, slot, compacting, stops>>

\* stopDispatchedBackgroundWork: queued tasks end at once, the others later.
StopTasks(t) ==
    /\ thread[t].pc = "stoptasks"
    /\ \E canceled \in SUBSET {x \in Runs \X Parks : task[x[1]][x[2]] = "live"} :
         task' = [r \in Runs |-> [n \in Parks |->
                    IF <<r, n>> \in canceled THEN "untold" ELSE task[r][n]]]
    /\ Become(t, IF thread[t].after = "cancel" THEN "cancel" ELSE "stoplist")
    /\ UNCHANGED <<run, generation, slot, compacting, stops>>

\* Without a cancel function: cancel the parked continuations, as listed now.
StopList(t) ==
    /\ thread[t].pc = "stoplist"
    /\ thread' = [thread EXCEPT ![t].pc = "stopparked", ![t].list = Listed]
    /\ UNCHANGED <<run, generation, task, slot, compacting, stops>>

StopParked(t) ==
    /\ thread[t].pc = "stopparked"
    /\ \E x \in thread[t].list :
        /\ CancelContinuationRun(x[1], x[2])
        /\ IF AwaitsAt(x[1], x[2]) THEN thread' = [thread EXCEPT ![t].list = @ \ {x}]
                                    ELSE Return(t)
    /\ UNCHANGED <<generation, task, slot, compacting, stops>>

StopDone(t) ==
    /\ thread[t].pc = "stopparked" /\ thread[t].list = {}
    /\ Return(t)
    /\ UNCHANGED <<run, generation, task, slot, compacting, stops>>

-----------------------------------------------------------------------------
(******************************** The reaper *******************************)

\* A goroutine that is about to act on r does so within the idle timeout; a
\* turn that executes or a successor that is queued may outlast it.
Handles(t, r) ==
    /\ r \in {thread[t].run, thread[t].next}
    /\ thread[t].pc \notin {"idle", "segment", "abandon"}

Age(r) ==
    /\ run[r].status \in Recoverable /\ ~run[r].old
    /\ \A t \in Threads : ~Handles(t, r)
    /\ run' = [run EXCEPT ![r].old = TRUE]
    /\ UNCHANGED <<generation, task, slot, compacting, thread, stops>>

Stale == {<<r, run[r].count>> : r \in {q \in Runs : run[q].status \in Recoverable /\ run[q].old}}

\* ReapAbandonedRuns, one sweep at a time: list the rows that are old ...
Reap(t) ==
    /\ thread[t].pc = "idle" /\ Stale # {}
    /\ \A u \in Threads : thread[u].pc \notin {"reap", "abandon"}
    /\ thread' = [thread EXCEPT ![t] = [Idle EXCEPT !.pc = "reap", !.list = Stale]]
    /\ UNCHANGED <<run, generation, task, slot, compacting, stops>>

\* ... for each ask whether the agent runs ...
RunIsAbandoned(t) ==
    /\ thread[t].pc = "reap"
    /\ \E x \in thread[t].list :
         thread' = [thread EXCEPT ![t] =
           IF slot # NoSlot
           THEN [Idle EXCEPT !.pc = "reap", !.list = thread[t].list \ {x}]
           ELSE [Idle EXCEPT !.pc = "abandon", !.run = x[1], !.list = thread[t].list \ {x}]]
    /\ UNCHANGED <<run, generation, task, slot, compacting, stops>>

\* Mutant: only a row that runs can be abandoned.
AbandonRunningOnly(t) ==
    LET r == thread[t].run IN
    /\ thread[t].pc = "abandon"
    /\ run' = IF run[r].status = "running"
              THEN [run EXCEPT ![r].status = "interrupted", ![r].old = FALSE] ELSE run
    /\ thread' = [thread EXCEPT ![t].pc = "reap", ![t].run = None]
    /\ UNCHANGED <<generation, task, slot, compacting, stops>>

\* ... and if not, end it.
AbandonStrandedRun(t) ==
    LET r == thread[t].run IN
    /\ thread[t].pc = "abandon"
    /\ run' = IF run[r].status \in Recoverable
              THEN [run EXCEPT ![r].status = "interrupted", ![r].old = FALSE] ELSE run
    /\ thread' = [thread EXCEPT ![t].pc = "reap", ![t].run = None]
    /\ UNCHANGED <<generation, task, slot, compacting, stops>>

Reaped(t) ==
    /\ thread[t].pc = "reap" /\ thread[t].list = {}
    /\ Return(t)
    /\ UNCHANGED <<run, generation, task, slot, compacting, stops>>

-----------------------------------------------------------------------------
Request(t) ==
    \/ "message" \in Requests /\ SubmitMessage(t)
    \/ "correction" \in Requests /\ SubmitCorrection(t)
    \/ "source" \in Requests /\ SubmitSource(t)
    \/ "compact" \in Requests /\ CompactManual(t)
    \/ Interrupt(t)

Hook(t) == \E r \in Runs, n \in Parks : TerminalHook(t, r, n)

Work(t) ==
    \/ Preempt(t) \/ CreateRun(t) \/ BindPendingCorrectionRun(t)
    \/ RegisterBusy(t) \/ RegisterQueued(t) \/ RegisterStart(t) \/ Supersede(t) \/ Cancel(t)
    \/ Canceled(t) \/ Load(t) \/ SegmentDispatch(t) \/ SegmentComplete(t) \/ SegmentError(t)
    \/ SegmentContinue(t) \/ Boundary(t) \/ Mark(t) \/ Revalidate(t) \/ Resume(t)
    \/ Done(t) \/ Leave(t) \/ Complete(t)
    \/ Check(t) \/ Reserve(t) \/ CasResume(t) \/ Swap(t) \/ Drop(t)
    \/ CompactBackground(t) \/ CompactEnd(t)
    \/ StopNext(t) \/ StopTasks(t) \/ StopList(t) \/ StopParked(t) \/ StopDone(t)
    \/ RunIsAbandoned(t) \/ AbandonStrandedRun(t) \/ Reaped(t)

TaskEnds == \E r \in Runs, n \in Parks : TaskEnd(r, n)
Ages == \E r \in Runs : Age(r)

Next ==
    \/ \E t \in Threads : Request(t) \/ Hook(t) \/ Work(t) \/ Reap(t)
    \/ TaskEnds
    \/ Ages

Spec == Init /\ [][Next]_vars

(* A goroutine that was started keeps running and every provider or tool     *)
(* call it makes returns; a task's terminal hook is called; the reaper's     *)
(* ticker ticks and the clock goes on. Swap is strong because only the bound *)
(* Threads can keep it from starting a goroutine. Requests, Stops and the    *)
(* ends of tasks are the world's: no fairness.                               *)
FairSpec ==
    /\ Spec
    /\ \A t \in Threads : WF_vars(Work(t)) /\ SF_vars(Swap(t))
    /\ WF_vars(\E t \in Threads : Hook(t))
    /\ WF_vars(\E t \in Threads : Reap(t))
    /\ WF_vars(Ages)

-----------------------------------------------------------------------------
(******************************** Properties *******************************)

\* registerRun, schedulePendingContinuation, SubmitSource and the compactions
\* share one slot: whatever goroutine executes or reserves a run is the one the
\* slot names, so there is at most one, and no compaction rewrites the context
\* under it.
SlotExclusive ==
    /\ \A t \in Threads : thread[t].pc \in Executing \cup Reserving \cup {"drop"} =>
         /\ slot.owner = t /\ slot.run = thread[t].run
         /\ slot.live <=> thread[t].pc \notin Reserving
    /\ slot # NoSlot => ~compacting

\* A row says "running" only while a goroutine executes the run, has just
\* resumed it, or is about to write its final status: no error path of
\* registration, wake, continuation or Stop leaves one behind for the reaper.
RunningIsOwned ==
    \A r \in Runs : run[r].status = "running" =>
        \E t \in Threads : /\ thread[t].run = r
                           /\ thread[t].pc \in Executing \cup {"swap", "drop", "complete"}

\* The first terminal status of a run is its last: a late error, a Stop, the
\* reaper or a registration that lost a race never rewrites it or revives it.
FirstEndStands ==
    [][\A r \in Runs : run[r].status \in Terminal => run'[r].status = run[r].status]_vars

\* A run that waits for its subagent goes on only once that task ended, whatever
\* hook or finished turn of an earlier wait is still on its way to wake it.
WakeHonoursTask ==
    [][\A r \in Runs :
         run[r].status = Parked /\ run[r].waiting /\ run'[r].status = "running"
           => Ended(r, run[r].count)]_vars

\* A queued request that leaves the slot is taken along by the goroutine that
\* removed it, which starts it or ends its row. The exceptions are the two the
\* code has: a slot that was stopped, and a placeholder that is cleared.
ForgottenOnlyWhenStopped ==
    [][\A r \in Runs :
         slot.next = r /\ slot'.next # r /\ run'[r].status = "pending"
           => \/ \E t \in Threads : r \in {thread'[t].run, thread'[t].next}
              \/ slot.interrupted \/ ~slot.live]_vars

\* Every request ends or parks, in the worst case through the reaper.
EveryRequestEnds ==
    \A r \in Runs : run[r].status \in Recoverable ~> run[r].status \in Terminal \cup {Parked}

\* A wake that checked an earlier wait of r and has not given up yet.
StaleWake(r) ==
    \E t \in Threads : /\ thread[t].run = r /\ thread[t].pc \in Reserving \cup {"reserve"}
                       /\ thread[t].count < run[r].count

\* A run that waits for a task that has ended does not wait for ever, unless
\* another request was made: the hook that finds the slot still taken by the
\* turn that parks gives up, and that turn looks again after it left the slot.
\* The premise is needed: a wake of an earlier wait that reserves the slot in
\* vain makes the one wake of this wait give up, and nothing tries again.
ParkedEnds ==
    \A r \in Runs :
        [](~StaleWake(r)) =>
          ((run[r].status = Parked /\ run[r].waiting /\ Ended(r, run[r].count))
             ~> (run[r].status # Parked \/ Rows # {r}))

\* "interruptAgentTree stops this agent's own Run": when Interrupt returns, no
\* run it found executing or parked executes under a context that is not
\* cancelled.
StopStops ==
    [][\A t, u \in Threads :
         thread[t].stop # {} /\ thread'[t] = Idle /\ thread'[u].pc \in Executing
           => thread'[u].run \notin thread[t].stop \/ thread'[u].ctx]_vars

=============================================================================
