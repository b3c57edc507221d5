# Verification of autoto's agent runtime

TLA+ models, TLC configurations and TLAPS proofs kept beside the code of
*autoto*, a local service that runs coding agents: an HTTP and WebSocket server,
a runner that drives each agent through model turns and tool calls, durable
background tasks, and a SQLite store under all of it.

Paths below are relative to the repository (`internal/...`).

## 1. The system

```
 browser --HTTP--> server ----> agent.Runner --> providers, tools, MCP
    ^                |             |   ^  |
    |                |     publish |   |  | submit / wake
    +--WebSocket-- EventHub <------+   |  v
                                       |  background.Manager --> executors
                                       |        |                 (shell, agent)
                                       +--------+------ SQLite store (one writer)
```

| component | state | operations | interacts with |
|---|---|---|---|
| event hub (`agent/hub.go`, `server/ws.go`) | per agent: session, sequence, ring, subscribers, delivery queue | Publish, SubscribeProtocol, Watermark, snapshots, collection | runner publishes; sockets read; client resynchronises |
| background tasks (`background/*`, `db/background_tasks.go`) | rows with a revision; worker pool, slot counters, `active`, waiters, wake channel | Submit, Cancel, Wait, claim, execute, finish, reap, Start, Close | store transactions; child runs of the runner; terminal hook to the runner |
| run registry (`agent/runner_lifecycle.go`, `runner_submission.go`) | `running[agent]`: run, cancel function, queued successor, interrupted flag | submit, register, execute, interrupt, unregister | run rows; hub; background tasks |
| continuation (`agent/continuation*.go`) | runs parked as `continuation_pending` on a background task or a budget | schedule, wake, resume by compare-and-swap, recover at start | run registry, background tasks |
| stuck-work reapers (`agent/stuck_run_reaper.go`, `background/reaper.go`) | none of their own | list, judge, end | rows, `running`, `active` |
| approvals, questions (`agent/runner_policy.go`, `runner_tools.go`, `danger_reflection.go`) | pending requests of a run, session grants, remembered verdicts, the generation of the rules | resolve, ask, answer, cancel, invalidate | runner, server, chat channels |
| tool execution groups (`db/tool_execution_groups.go`) | group and item rows | create, record, settle, abort, recover | agent loop |
| plans (`db/plans.go`) | revisioned plans, approvals | edit, transition, approve | agent loop, server |
| message queue, steering (`db/message_queue.go`, `agent/runner_steer.go`) | queued rows | enqueue, claim, restore, inject | agent loop |
| schedules (`automation/manager.go`, `server/automation.go`, `db/automation_p2p3.go`) | rows with a next time and a lease | claim, trigger, dispatch, record, edit | runner |
| remote execution (`server/execution_transport.go`, `db/execution_transport.go`, `db/learned_features.go`) | task ledger with leases, devices with a heartbeat | create, claim, report, expire, release, heartbeat, switch | paired devices |
| deliveries (`automation/manager.go`, `db/automation_p2p3.go`) | rows with attempts and a lease, a wake channel | enqueue, claim, send, mark, retry | runner, webhooks, chats |
| MCP pool (`mcp/pool.go`) | pooled sessions, busy flags | Acquire, Release, Offer, Invalidate, sweep | tools |
| tunnel (`server/temporary_tunnel.go`) | one process and its state | start, stop, exit | server |
| supervisor (`runtime/*`, `app/*`) | service list | ordered start and stop | every service |
| gateway (`gateway/{manager,limiter,service}.go`, `server/gateway_runtime_admin.go`) | one listener and its service, settings; per limiter slots and reserved tokens | start, reconfigure, close, patch; acquire, reserve, record, release | HTTP clients, store |
| providers, channels, peer control, credential stores | network sessions, files | requests | outside world |
| stream client (`server/static/modules/agent-stream.mjs`, `app-main-stream.mjs`) | cursor, session, view | connect, apply, resync | hub, recovery snapshot |

What is hard in it: publishers, subscribers, workers, cancels, reapers and
restarts interleave between lock sections and transactions; rows are read in one
transaction and written by compare-and-swap in the next; one-slot channels stand
for many events; buffers, rings and pools sit at their limits. `PROJECT.json`
lists each hazard at its line.

What makes each part correct is stated as the properties of section 3. One
matter that no module covers yet is *run recovery*: at a restart every parked run
is woken or ended, once.

## 2. The modules

| module | models | role |
|---|---|---|
| `EventHub` | `internal/agent/hub.go`, the reader loop of `internal/server/ws.go` | detailed specification |
| `EventFeed` | what a subscriber is promised | abstract specification |
| `EventHubMC` | | instance for TLC |
| `EventHubProofs` | | types, structure, rings, the retry state: the first inductive invariant |
| `EventHubDelivery` | | order and completeness, the second inductive invariant; the refinement of `EventFeed` |
| `BackgroundTasks` | `internal/db/background_tasks.go`, `internal/background/{manager,reaper,agent,shell}.go` | detailed specification |
| `TaskLifecycle` | what the owner of a task is promised | abstract specification |
| `BackgroundTasksMC` | | instances for TLC |
| `BackgroundTasksProofs` | | the inductive invariant of `BackgroundTasks`, and the simulation of `TaskLifecycle` |
| `RunRegistry` | `internal/agent/{runner_lifecycle,runner_submission,continuation,continuation_background,stuck_run_reaper,context_background}.go`, `internal/db/runs_checkpoints.go` and the continuation updates of `background_tasks.go` | specification |
| `RunRegistryMC` | | instances for TLC |
| `RunRegistryProofs` | | the inductive invariant of `RunRegistry`, and its action properties |
| `Approvals` | `internal/agent/{runner_tools,runner_policy,danger_reflection,user_question}.go` | specification |
| `MessageQueue` | `internal/db/message_queue.go`, `internal/agent/runner_steer.go`, `internal/server/message_queue_api.go` | specification |
| `ToolLedger` | `internal/db/tool_execution_groups.go` and the loop of `internal/agent/continuation.go` that fills it | specification |
| `Plans` | `internal/db/plans.go`, `internal/agent/plan.go`, `internal/server/review_api.go` | specification |
| `PlansProofs` | | the inductive invariant of `Plans` |
| `McpPool` | `internal/mcp/pool.go`, `internal/tools/mcp.go`, `internal/server/mcp_servers.go` | specification |
| `Tunnel` | `internal/server/temporary_tunnel.go` | specification |
| `Gateway` | `internal/gateway/manager.go`, the settings patch of `internal/server/gateway_runtime_admin.go` | specification |
| `ComponentsMC` | | the seven above as parts of one instance |
| `ComponentsProofs` | | an inductive invariant each for `Approvals`, `MessageQueue`, `ToolLedger`, `McpPool`, `Tunnel`, `Gateway` |
| `LiveStream` | `internal/server/static/modules/{agent-stream,page-lifecycle,app-main-stream}.mjs`, `internal/server/{agent_service,stream_recovery}.go` | specification |
| `Schedules` | `internal/automation/manager.go`, `internal/server/automation.go`, the schedules of `internal/db/automation_p2p3.go` | specification |
| `RemoteTasks` | `internal/server/execution_transport.go`, `internal/db/{execution_transport,learned_features}.go` | specification |
| `RemoteTasksProofs` | | the inductive invariant of `RemoteTasks` |
| `Deliveries` | `internal/automation/manager.go`, the notification deliveries of `internal/db/automation_p2p3.go` | specification |
| `GatewayLimits` | `internal/gateway/limiter.go`, `prepareProviderRequest` of `service.go` | specification |
| `ServicesMC` | | `EventHub` and the five above as parts of one instance |
| `ServicesProofs` | | an inductive invariant each for `Deliveries`, `Schedules`, `LiveStream`, `GatewayLimits` |

`PROJECT.json` maps every definition to the lines it stands for.

### EventHub

*State.* `table` is `h.streams`. `stream` holds the `hubStream` objects, named
by the session id they began with, because a publisher keeps its pointer to a
stream that the table has dropped. A stream has its session, sequence, ring,
members (`subscribers`), delivery queue and `fanout`, the holder of `fanoutMu`.
`sub` holds the subscriber objects together with their reader: the replay it has
yet to write, the buffered channel, the queued resync reason, and `gone`, the end
of its context. `worker` is a goroutine inside `Publish`: `item` and `todo` are
the delivery it took from the queue, `overran` the subscribers it found full.

*Actions.* Each section under `h.mu` is one action. `Publish` collects idle
streams, finds or creates the stream (and evicts for it), wraps an exhausted
sequence, evicts from the ring, appends and enqueues, in one step. The fan-out
runs outside `h.mu`: `TakeFanout`, `Pop`, one `Send` for each subscriber in any
order (Go's map order), `MarkOverruns`, `Unlock`. `Subscribe` decides the cursor
and registers in one step. `Receive`, `Stop`, `Leave` and `RemoveSubscriber` are
the socket's side.

*Abstractions.* An event is its session, sequence, kind (as far as the retry
state tells kinds apart) and encoded size. `MaxSeq` stands for `math.MaxUint64`.
Session ids are drawn in order; `NewSession` may fail at any time the bound
`MaxSessions` is used up, and failing is always one of the choices. Eviction
among equally old streams is nondeterministic, as map order makes it. The clock
is read inside the lock section, while the code reads it just before taking the
lock: only the age of an idle stream could tell. Time passes in `Tick`s, up to
`MaxClock`.
A subscriber object is reused only when no queue or publisher refers to it.

### BackgroundTasks

*State.* `row` is the table, the only durable state besides `child`, the status
of the run an agent task dispatched. `proc` holds the manager's fields: lifecycle
state, limits, the slot counters under `claimMu`, the token of the one-slot wake
channel. `active`, `channel` (`manager.waiters`), and the records of workers,
callers, waiters and the reaper hold what each goroutine read earlier and uses
later.

*Actions.* A step is one transaction, or one section under `mu` or `claimMu`.
The store has a single connection, so transactions do not overlap. A worker goes
`Claim`, `Register`, the executor's steps, `FinishRead`, `FinishCommit`,
`FinishRecheck`, `FinishNotify`, `Unregister`, `Release`. `Cancel` is three
steps: row, context, notification. `Restart` is a crash at any point followed by
a new process, whose `Start` reconciles.

*Abstractions.* A row keeps its status, revision, attempt, owner, kind, instance
and whether it went stale; reports and output are left out, except that output
touches `updated_at`. A database error may strike any claim, poll or finishing
step, within `MaxMishaps`, which bounds errors and restarts together. `Age` makes a row stale at any time, under one timing
assumption: a worker registers a task within `DefaultAbandonedTaskIdleTimeout`
(5 minutes) of claiming it, as the comment on that constant says. The child run
is external: it ends by itself, is interrupted, or dies with the process. The
executors may fail at their first checks. The priority of a row is left out
because no caller sets it.

### RunRegistry

*State.* One agent. `run` holds its rows: status, execution generation,
continuation count, whether the row waits for a task, and `old`, untouched for
the reaper's idle timeout. `slot` is `r.running[agent]`, an `activeRun`: the
goroutine that owns it, its run, whether it has a cancel function (`live`; the
placeholder of a wake has none), the queued successor and `interrupted`.
`compacting` is `r.compacting[agent]`. `task[r][n]` is the subagent task the n-th
continuation of r waits for: live, ended with its hook still to be called
(`untold`), or told. `thread` is what each goroutine of the runner read earlier
and uses later: its run, the successor it took along, the continuation count, the
cancel function it captured, the rows it listed.

*Actions.* A step is one transaction or one section under `runMu`. A request is
`SubmitMessage` (list the parked rows), `Preempt` for each, `CreateRun`; or
`SubmitCorrection` (also a rerun) and `BindPendingCorrectionRun`; or
`SubmitSource`, one section. `registerRun` is `RegisterStart`, or
`RegisterQueued`, `Supersede` for the request it replaces, and `Cancel`; or
`RegisterBusy`. The turn is `Load`, then segments that end by completing, by an
error, or in a continuation: `Boundary`, `Mark`, and either the turn ends to wait
for its task or `Revalidate` and `Resume` go on. `Leave` frees the slot and takes
the successor, `Complete` writes the final status. A wake, from `TerminalHook` or
from the turn that just left, is `Check`, `Reserve`, `CasResume`, `Swap`, and
`Drop` for a placeholder that was interrupted. `Interrupt` goes on with
`StopNext`, `StopTasks`, and `Cancel` or `StopList`, `StopParked`. The reaper is
`Reap`, `RunIsAbandoned`, `AbandonStrandedRun`.

*Abstractions.* A message and its row are inserted together, and row order stands
for message order. What a segment does is left out, and so is which error ended
it. The tasks of a message's preempted runs are cancelled in the code; here a
task may end at any time, which covers it. The hook of a queued task is called
inside `Cancel`; here it is a goroutine of its own, free to run at once. `Check`
reads the row, its task and its boundary in one step: the row is compared again
when it is resumed or cancelled. A registration that meets a background
compaction waits or fails, which of the two is nondeterministic, as the wait is
bounded. Statuses of the agent itself, events and checkpoints are left out, and
so are storage errors: the update that restores a replaced successor when its
write fails is not modelled, nor is a wake whose resume is committed and cannot be
read back (`db/background_tasks.go:670`), which leaves a running row that nobody
executes to the reaper; `RunningIsOwned` speaks of runs without such errors. The abort of a wake whose placeholder was replaced
is left out because nothing replaces a placeholder, which `SlotExclusive`
confirms. `Age` makes one timing assumption, the one stated at
`DefaultAbandonedRunIdleTimeout`: a goroutine on its way between two steps
for a row takes the next one within that time. A segment, or a request queued
behind one, may outlast it.

### Approvals

*State.* `rules` takes the permission and the policy generation together. `use`
is the goroutine of the latest tool call of the run: where it is, the generation
it read, its one-slot channel. `grant` and `verdict` are what the session grants
and the reflection cache hold for the command of the calls. `editor` is a handler
that changed the rules and has yet to invalidate, `answerer` one that carries an
answer from the page, a chat or a peer.

*Actions.* The call looks up rules and grants, asks for a verdict (the model's
answer is a step of its own) and remembers it, registers its card, waits for its
channel, a timer or an interrupt, and compares generations once more. A change of
the rules is one step, and revoking grants, verdicts and waiting cards are
further ones.

*Abstractions.* All calls are of one command, so that one grant and one verdict
would serve each; which rule matches is nondeterministic. Histories in `use`
record which word let it start and the generation that word was given under.

### MessageQueue

*State.* `queue` holds the rows with their positions, `turn` what the queue sees
of the run (active, where it may steer, canceled), `drainer` the goroutines
behind `draining`, the flag of `messageQueueDrainer`; `notices` are run ends the
notifier has not handled.

*Actions.* Enqueue, edit, delete; the steering of a run (`claim`, insert or
restore); a drain (`Begin` or `Refuse`, `Look`, `DrainClaim`, `Send`,
`DrainRestore`, `End`); a direct message, a Stop, the end of the run and its
notice; a crash, which loses what is claimed.

*Abstractions.* A text is its version. A send may fail before or after the
message was stored, as the two writes of the submission may.

### ToolLedger

*State.* `group` is the group of each model turn with its items and results,
`loop` the one process that either runs the loop or recovers, `runRow` the row.

*Actions.* Generate, create the group, run a call (perhaps ahead of its turn, for
the calls that only read), store the reply, record the item, settle, decide to go
on, park or end; a crash between any two; recovery of groups, then of runs.

*Abstractions.* A call is its number; `ranTimes` and `replies` are what the world
and the conversation saw of it. The loop records each call once, so the branch that
takes a repeated record (`tool_execution_groups.go:248`) has no step.

### Plans

*State.* The `plan` row with the `inputs` it was drawn up against (generations
kept in the database, fingerprints of tools and files kept outside), the
`author`, the requests, the runs, and `torn`.

*Actions.* Draft, review, reflect; approve, execute and cancel, each in the
transactions of its handler; a run starts, parks, resumes, ends; the reset of the
plan after a canceled run; staleness; a crash with its recovery.

*Abstractions.* Revisions are left out: after the draft no caller of the program
edits a plan, so every comparison of them succeeds.

### McpPool

*State.* The server's launch `config`, the pooled `entry` of each slot, the
`process`es, the tool calls that borrow them, `doomed`, those a sweep or an
invalidation took out of the pool and is about to close.

*Actions.* Resolve, acquire or start, revalidate, call, release or offer or
close; reconfigure and then invalidate; sweep; close the pool; a process dies.

*Abstractions.* The protocol on stdio is a call that succeeds, fails, or finds
the process dead. Calls not begun are alike, so the next one is fixed.

### Tunnel

*State.* The fields of the `manager`, each process with its channels (the URL,
the one report of its end), the handlers in flight, the address of the
`listener`.

*Actions.* Install, start (check, resolve with the lock released, make, launch,
wait for URL, end, timer or context), stop, and the process with its reaper
goroutine. A revalidation compares the address, releases the lock, stops what
runs by then, and takes the lock again to say why there is no tunnel.
*Abstraction*: quick and named tunnels are alike.

### LiveStream

*State.* `feed` is the stream of `EventHub` reduced to what that module promises:
the events after the cursor in order, then perhaps a resync frame, and only the
last `ReplayDepth` of them for a late cursor. `page` holds the controller's
variables and the set of events the page shows; `network` the browser's online
state with the events of it not handled yet.

*Actions.* One per callback, between two awaits of the code: open, frame, close,
error, timer, the snapshot (ask, watermark, rows, answer), the resume request,
online and offline, hide and leave. *Abstraction*: a page that connects again
forgets what its earlier connection still awaited; the code drops it by
comparing its connection generation.

### Schedules

*State.* `schedule` is one row; its lease is named by the number of the claim,
since the code identifies a lease by its deadline and makes the dispatch id of it.
`dispatch` is the loop of the worker or the handler of a manual trigger with what
it read, `revision` the handler of an edit. `leases` records, for each claim, the
time it was for and the run that was started under it.

*Actions.* Claim (due, or by hand in two statements), compute the next time,
submit, record the run that says why there was none, record the outcome, release;
edit, disable or delete by compare-and-swap on `updated_at`; restart with
`initializeSchedules`; `PassTime`.

*Abstractions.* An expression is a period, due at its multiples, as a cron
expression is due at its minutes; `@every` counts from now and is left out. A run
is started, failed, or none.

### RemoteTasks

*State.* `job` is the ledger, `device` its row, `pairing` the pairing in force,
`service` the handlers that serve the device, `told` the revisions it was
answered. `handed` and `settled` record to whom a task went out and how it first
ended.

*Actions.* Creation is two statements. A claim is: sweep of stale devices and
check, scan of the leases, one expiry at a time, the claim, reading back, the
hand-out or the release. A report is: check, audit, heartbeat, transition. The
answer to each may get lost, and requests are repeated. The read after a claim may
fail, and leaves the lease to run out. Heartbeats, the switch,
a new pairing and time come at any moment.

*Abstractions.* `overdue` and `fresh` stand for deadlines; the clock of the
device and its payloads are left out. Grants are a lookup that may fail.

### Deliveries

*State.* `delivery` holds the rows, one for each event and sink (the dedupe key
allows no second). `teller` is a call of `Notify`, `retrier` a handler of
`RetryDelivery`, each of which writes first and signals afterwards;
`deliveryWake` is the token between them and `courier`, the one loop, with the
batch it claimed, the row in hand and what it was told of it, and the rows its
timer is set for. `sent` counts what went out and `acked` is what the other side
took; `unheard` names what it took without the loop having heard of it.

*Actions.* Enqueue for the webhook, then for the chat, then signal; claim a
batch after burying what has used up its attempts; send one, whose answer may be
lost after it was taken; write its outcome;
compute the wait; wake by token, by timer or by the fallback; retry by hand;
close, restart. Statements fail, all of them once the context is canceled.

*Abstractions.* A backoff and a lease end at any time. `EnqueueTest` is a
`Notify` that stops at the webhook. An agent has one pairing or none.

### Gateway

*State.* `gateway` holds the fields of the manager (`started` among them), `server` each
`managedServer`: whether its listener is bound, handed to a goroutine, being
served, or closed with the goroutine still to report; `op` is the call that holds
`opMu`, `patch` the HTTP handler, `saved` its settings. `lapses` records what
separates the manager from them.

*Actions.* Start and Close; `Reconfigure` with its five ways (disable, swap the
service, bind first, replace, release and restore), one action for each section
under `mu` and each bind or shutdown between them; the goroutine of a listener
begins, dies, reports; the patch applies, saves, rolls back. A start that fails
leaves the manager unstarted, and a swap may fail to make its service.

*Abstractions.* A bind fails on an address of the manager's own that is still
bound, and may fail at any time for others'. A shutdown may outlast its context.
Ephemeral isolation is the case of one address. `lastErr` is left out.

### GatewayLimits

*State.* `limiter` has an entry for each service made, `call` the requests with
the service they reached, `used` what `api_requests` adds up to. `excess` and
`raced` are histories.

*Actions.* Route, take a slot of the limiter, acquire under its lock, read the usage,
reserve, record, release under the lock, give the slot back; the service behind the
listener is replaced. `KeySlots` are the values `MaxConcurrency` may have when a
request is authenticated. *Abstractions*: one month, keys with a monthly limit, no
limit per minute, one recording for each request.

## 3. What is checked

| run | question | bounds | states |
|---|---|---|---|
| `EventHubFanout` | do two racing publishers deliver in order and completely, does the hub implement `EventFeed`, is every event eventually read | 2 publishers, 2 subscribers, channel and ring of 1, sequence 2, one wrap, 1 tick | 0.16 M |
| `TasksRace` | one executor, no unknown child, every end announced, no lost wake token, exact counters, no waiter asleep past the end | four corners, below | 1.1 M |
| `TasksLive` | a held task ends, a queued task starts, only abandoned rows are reaped, `TaskLifecycle` | 2 tasks, 1 worker, 1 cancel, 1 crash or fault | 0.43 M |
| `RunsRace` | one executor of an agent, rows that say running are executed, an end is final, no early wake, no queued request dropped | 3 goroutines, up to 3 runs and 2 continuations of a run, runs and continuations together 3 (`MaxWork`), 1 Stop | |
| `RunsLive` | every request ends or parks, a run whose task ended is woken | 2 goroutines, 2 runs, 2 continuations, together 3, 1 Stop | |
| `Components` | seven parts, one at a time | | 2.9 M |
| - queue | a follow-up is in one place and somebody attends to it | 2 messages, 2 modes, 2 drainers, 1 edit, 2 of: direct message, Stop, fault | 0.49 M |
| - ledger | groups settle complete, no call runs twice | 2 turns of 2 calls, 2 crashes | 14 k |
| - pool | one owner for each process | 2 slots, 2 launch keys, 2 calls, 3 processes, 1 change | 0.45 M |
| - plans | one run at a time, with the approved inputs | 2 requests, 2 runs, 2 file states, 1 change, 1 fault | 0.10 M |
| - tunnel | the manager holds the process it started | 2 handlers, 2 processes, 2 addresses | 0.16 M |
| - approvals | a call goes ahead on a current word and on the first answer | 2 calls, 2 answerers, 1 change | 0.41 M |
| - gateway | one listener, the one reported, with the saved settings | 3 servers, 5 settings: one differs from the first in each field | 1.3 M |
| `Services` | six parts, one at a time | | 2.9 M |
| - hub | do eviction, idle collection, wrap and re-creation keep subscribers on a live stream; is the ring the tail of its session under both bounds; does the retry state agree with it | 2 agents, table of 1, 1 subscriber, 1 publisher, sizes 1 and 2, ring of 2 entries and 3 bytes, sequence 3, 1 tick | 0.82 M |
| - page | once caught up a page shows what was published, and it is never stranded | replay of 1, 2 events, 2 sessions, 2 network changes, 1 failure | 0.33 M |
| - schedules | each time is run once | 1 trigger, periods 1 and 2, lease of 1, 2 moments, 2 claims, 2 edits, 1 failed write or restart | 0.85 M |
| - remote | a task goes out once and its end is final | 1 task, 2 handlers, 2 pairings, 2 switches, 4 requests | 0.46 M |
| - deliveries | what a row says is what the other side saw; the loop sleeps past nothing that is due | 1 event, 2 sinks, 2 attempts, batches of 1, 3 calls, 1 failed statement, lost answer or restart | 0.20 M |
| - limits | tokens stay within the monthly limit | 3 requests, 2 services, 2 slots, a key without a limit of its own or with 1, limit of 3 tokens, reservations of 1 and 2, calls use up to 2 | 0.25 M |
| `TasksCancelChild`, `TasksCancelLost` | two findings | 1 task, 1 worker, 1 cancel | |
| `RunsStop` | a finding | 3 goroutines, 1 run, 1 continuation, 1 Stop | |
| `QueueStop` | a finding | 1 message, 2 drainers, 1 Stop | |
| `RemoteStale` | a finding | 1 task, 1 switch, 1 request | |

*Parts.* `Components` and `Services` put independent state machines into one run:
the variable `part` names the one that moves, the others rest, so the state
spaces add up and do not multiply. A property of a part says nothing in the
others, where its part is in its first state.

*Corners.* `TasksRace` explores one instance under a state constraint
(`Corners`): *Race*, one task of either kind under two workers, two callers,
cancels, a storage error, the reaper and shutdown (two cancels and errors
together while the process runs, one once it shuts down); *Queue*, two tasks of one owner
or of two under a change of limits; *Again*, a child run across a crash and
restart; *Watch*, two waiters. A state outside all of them is checked and not
continued. They share no question, so their union would cost and not add.

*Why the bounds are enough.* In the hub the hard cases need two publishers (one
drains while the other enqueues), a channel that fills after one event, a ring
that expires a cursor, and a sequence that runs out while readers hold both an
old and a new session: all occur in `EventHubFanout`, the last two with a ring of
one and a sequence of two. Table pressure needs one agent more than the table
holds, and a ring bounded in bytes one event larger than another (`Services`). For tasks each race is between two goroutines on
one row: worker and canceller, worker and reaper, worker and waiter, old process
and new; two tasks are needed only where they compete for slots or for the token.
For runs, three goroutines are a turn, a request or wake, and a Stop or the
reaper; replacing a queued request needs three runs, a wake of an earlier wait
needs two continuations of one run, and `MaxWork` lets either happen beside the
other's simpler case without multiplying them. `RunsLive` needs one goroutine
fewer, as what may go wrong for ever is a step that nobody takes.
The queue needs two messages for their order and two drainers for the refused
one; a message may be lost between two writes, so one fault is one loss. A tool
group needs a call before and a call after the crash, and a second crash that hits
the recovery. Pool, tunnel, approvals and plans have at most two actors on one
resource in the code's own races (a holder and whoever takes the resource away)
and need a third process only to see a slot reused. A schedule needs a second
claim, after the first lease ran out, was dropped, or was taken for another's, and
two edits under one lease; a
remote task needs two requests of each kind, so that one can overtake another or
repeat it, and a second pairing. A page needs one event too many for the replay
and one session too many for the cursor. A delivery needs a second row, so that
one waits while the other is sent, one retry, and a call after each. The gateway
needs two listeners whose goroutines linger beside a third; its limits need two
requests that overlap and one that waits, one replaced service, and a call that
uses more than it reserved.
The proofs of section 4 remove the bounds for every property but the five of
liveness.

*Symmetry* permutes the hub's agents, the workers of tasks, the goroutines of the
run registry, and, in `Components`, slots and files (which also stand for
messages, requests and answerers, and for modes, launch keys and addresses: each
part uses a set for one purpose). It is used in runs without liveness only.

*Deadlock.* The hub never stops: a subscriber can always come or leave. The task
runs allow it: a closed manager with all rows used is really at rest. So do the
run registry's: when its bounds are used up and every turn has ended, nothing is
left to do. `Components` allows it for the same reason. `Services` checks it, as
the parts other than the hub may stutter there, so it is the hub's.

*Fairness.* `EventHub`: a goroutine inside `Publish` is scheduled until it
returns, a reader that is still there goes on reading, and the goroutine that
waits for its context removes the subscriber. Weak fairness per goroutine is what
the Go scheduler gives, as no step waits for another except on `fanoutMu`, which
its holder always releases; nothing makes anyone publish, subscribe or leave.
`BackgroundTasks`: workers, callers in a call, waiters and the reaper run on,
executors return, the runner ends every run, and an untouched row grows old.
The two fallback timers (`PollTimer`, `WaitTimer`) are *not* fair: `QueuedStarts`
thus says that wake events alone are enough. Nothing is assumed of `Close` or
`Restart`.

`RunRegistry`: a goroutine that was started runs on, every provider or tool call
returns (the code bounds both by deadlines), hooks are called, the reaper ticks
and time passes. `Swap` alone is strongly fair: the code starts a goroutine
there, which only the bound `Threads` can delay. Nothing makes anyone send,
stop, or a subagent end.

*Premises.* `ForgottenOnlyWhenStopped` has the two exceptions the code has: a
request queued after a Stop in the interrupted slot, or in a placeholder that is
cleared, is left `pending` and starts nothing; `EveryRequestEnds` shows that the
reaper ends it, ten minutes later. `ParkedEnds` supposes that no wake of an
*earlier* wait is still about: such a wake may hold the placeholder in vain while
the present wait's only wake finds the slot busy and gives up, and then the run
stays parked until the next message or restart. Without that premise the
property fails with two continuations. The reaper may also end a request that
waited behind a turn for longer than the idle timeout, if it looks in the moment
between the turn's end and the request's start. And a turn superseded between
`Mark` and `Resume` leaves its row `continuation_pending`, because `superseded`
is not written over that status: the next user message interrupts it.

The parts have premises of their own, each named in its module. `FollowUpAttended`
excepts what `missed` records: a fault, a Stop of a parked run (the finding
below), and a drain refused by one that had looked for the last time.
`ApprovedRuns` allows the plan to stay `executing` when a canceled run's reset of
it was lost in a crash (`torn`). `TunnelInHand` says nothing once two starts, or a
start and a stop or revalidation, crossed while settings were resolved with the lock
released (`crossed`): then two processes may run. `WordsCurrent` leaves out a verdict that
was being asked for while the rules changed: `rememberReflection`
(`danger_reflection.go:391`) binds it to the rules it finds afterwards, though the
comment at :370 says it is bound to those it was decided under. `RunOnce` allows a second
run of a time whose first lease ran out or was dropped (`lapsed`), and a next time
that is not of the row's expression when that was edited under a lease
(`ignored`, the lease under which it was): `RecordScheduleRun` then writes the next
time of the expression it read at the claim. The exception lasts until a next
time is written under another lease, or under none. `HandedOnce` does not say that a lease ends: only a claim of
some device sweeps them. `DeliveryTold` names the rows that stay in flight
(`stranded`): a delivery claimed by a loop that died, or whose outcome could not
be written, is never claimed again, since a claim takes queued and waiting rows
only and so never looks at the lease of one in flight, and a person cannot retry
it either. A delivery that was taken while the loop heard that it failed (`unheard`)
goes out again. A stop gives up the chat message in hand, whose pairing cannot be
looked up under a canceled context, while a webhook is tried again.
`DueIsWatched` leaves what is due to the fallback timer after a look that failed.
`SettingsKept` excepts a rollback that failed, and a swap that finds its listener
dead: `Reconfigure` then reports success without applying the settings
(`manager.go:255`). `AllowanceKept` excepts a key that was granted tokens on a
usage read before another call recorded its own, or by a limiter that does not
know what the one it replaced had reserved (`raced`): in both cases the limit can
be exceeded by what was not seen. Input tokens and further images are never
reserved; they count as `excess`.

*Runs that carry several properties* share one state space: the safety
properties of a run are checked in the same exploration as its refinement and
its liveness.

### Findings

- **A canceled task can leave its child run running** (`TasksCancelChild`).
  `waitChild` (`agent.go:278`) loads the child under the task's own context. If
  the cancel arrives before the query, the query fails with the context's error
  and the executor returns without interrupting the child, although the next
  lines would; the task is written `canceled` and the child goes on.
- **A cancel can be lost to the reaper** (`TasksCancelLost`). If the request
  commits between the read and the compare-and-swap of `finish`
  (`manager.go:492`), the write conflicts and is not retried. The row stays
  `cancel_requested`, with no executor, until the reaper calls it `interrupted`
  (worker lost). `HeldEnds` shows that it does end.

- **A Stop can wake the run it stops** (`RunsStop`). `interruptAgentTree` cancels
  the tasks of the agent before it cancels the run. If the run has just parked to
  wait for one of them, the end of that task wakes it into a new slot while the
  captured `cancel()` belongs to the old one; if it was parked before, the wake
  empties the list of parked runs that Stop reads next. Either way Stop returns and
  the run executes another segment.
- **A Stop can leave a follow-up behind** (`QueueStop`). Stopping a parked run
  publishes `continuation_blocked`, which the notifier of the queue does not list
  (`message_queue_api.go:207`); no other end of the run follows, and a follow-up
  queued during the wait stays until the next run ends.
- **A silent device goes on getting tasks** (`RemoteStale`). Only a request of a
  paired device sweeps devices that stopped reporting; creating a task and binding
  an agent trust the status without it (`learned_features.go:1263`, :1220), which
  the comment at `db/execution_transport.go:90` says they run it first.

## 4. What is proved

Every invariant, every action property and both refinements that a passing run
checks are also theorems, for every value of the constants. The hub's are for every
number of agents, publishers and subscribers, every ring and buffer size and every
sequence limit, under `ConfigAssumption` (sizes are positive; an event fits into the
ring, as `NewHubWithConfig` enforces) and `NobodyIsNone` (the name for "no owner" is
not a publisher or an agent). Of the other modules the assumptions say that bounds
are numbers, that a limit the code requires to be positive is, and that a name with a
meaning of its own (`"none"`, `"off"`) is no process, message or key. Two sets are
finite because they are counted: the workers of the tasks and the calls of the
gateway.

| theorem | says |
|---|---|
| `TypeCorrect` | `TypeOK` |
| `OneDrainerHolds` | one publisher drains a stream's queue |
| `OpenIsRegisteredHolds` | open subscribers are exactly the members of mapped streams |
| `RingIsTailHolds` | a ring is the bounded, gap-free tail of its session |
| `DeliveredInOrderHolds` | what a subscriber reads next is the next event of its session |
| `NothingLostHolds` | between a subscriber's cursor and the sequence nothing is missing |
| `FeedImplemented` | `EventHub` implements `EventFeed` |
| `RetryMatchesRingHolds` | the retry state is what the newest event of the ring that speaks of it says |
| `SoleExecutorHolds` | a task has one executor, the one a cancel finds |
| `CountersMatchHolds` | the claim counters are the workers that hold a task |
| `NoOrphanRunHolds` | a child run that goes on is named by its row, or about to be attached or interrupted |
| `TerminalIsToldHolds` | an end has had, or is about to have, its hook run |
| `NoLostNotifyHolds` | no waiter sleeps past the end of its task |
| `NoLostWakeupHolds` | no wake event is lost while a row can be claimed |
| `ReapedIsAbandonedHolds` | only what no worker executes is called interrupted |
| `LifecycleImplemented` | `BackgroundTasks` implements `TaskLifecycle` |
| `ApprovedRunsHolds` | a plan is executed by one run at a time, as approved (every number of requests, runs, changes and crashes) |
| `HandedOnceHolds` | a remote task goes out at most once, its end is final and is what the pairing it went out to reported (every number of tasks, pairings, handlers and requests) |
| `OneHolderOfTheSlot` | one goroutine at a time has the slot of the agent, and the slot names it |
| `NoRunIsOrphaned` | a row says running only while a goroutine answers for it |
| `FinalStatusIsFinal` | no step rewrites the final status of a run |
| `NoWakeBeforeTheTask` | a run that waits goes on only after its own task ended |
| `QueuedRequestsAreTakenAlong` | a queued request that leaves the slot is in somebody's hands, or was stopped |
| `LedgerHoldsAlways` | no tool call runs twice, and settled groups are complete, across any number of crashes |
| `SessionsAreOwned` | an MCP process has one owner and is not closed under a call |
| `TunnelStaysInHand` | a tunnel that runs is the manager's, or was told to end |
| `WordsAreCurrent` | what lets a tool call go ahead was said under the rules in force |
| `FirstAnswerIsFollowed` | a call follows the first answer accepted for it |
| `ListenersStayInHand` | a listener that accepts is the manager's, with the settings it reports |
| `SettingsAreKept` | between two patches the gateway runs what was saved |
| `FollowUpsAreHeldOnce` | a follow-up is in one place and is said once, with its last text |
| `WaitingIsAttended` | a follow-up waits on an idle agent only when something will look |
| `DeliveriesTellTheTruth` | what a delivery's row says is what the other side saw |
| `NothingDueIsSleptThrough` | the delivery loop sleeps past nothing that is due |
| `EachTimeRunsOnce` | a time of a schedule is run once |
| `ThePageCatchesUp` | a page shows what its cursor says, and is never stranded |
| `AllowancesAreKept` | limiters count their leases, and tokens stay within the monthly limit |

The premises of section 3 are part of the properties, so of the theorems too.

*First invariant* (`SafeInv`, in `EventHubProofs`). Types alone are not
inductive: that a reader's cursor stays in range depends on its events, and that
`MarkOverruns` closes the right subscribers depends on who is registered where.
`Structure` joins types, allocation (unused sessions are blank and unreferenced),
membership (open, registered and mapped are one thing) and draining (a delivery
in someone's hands or in a queue concerns open subscribers of that stream only,
and only `fanout`'s holder has any). `Rings` adds that rings are gap-free and
bounded. An action that needs a stream first collects, evicts or creates and then
works on the result, within one step; so `Structure` is stated of a view
`<<T, S, U, W, N>>` that stands for the state before, after, and between the two
halves, and lemmas compose.

*Second invariant* (`DeliveryInv`, in `EventHubDelivery`). `DeliveredInOrder`
speaks only of what was already sent, and `NothingLost` only of subscribers that
are open and not overrun: neither is inductive without the other. `Order` gives
the order of replay and channel of every subscriber; `Account` settles for each
open one, with `Reach` the last event sent to it: the drainer's item is
`Reach + 1`, and the deliveries for it are exactly the last `Due` of the queue,
in sequence. The uniqueness of the drainer (`OneHolder`) is what keeps two
deliveries from overtaking each other; that overrun open subscribers are still
members (`Members`) is what makes `MarkOverruns` close every one of them.

*Retry state.* `RetryMatchesRing` is carried beside the first invariant: only
`Publish` changes ring and state, together, and what it drops from the front of the
ring is never the newest event.

*Refinement of `EventFeed`* (`FeedInv`, in `EventHubDelivery`). The log of a session
is as long as the sequence of the stream the session is current in, or full once a
wrap has left it behind. That this is a function of the session rests on `Apart` (no
two streams have a session in common), and that a reader never gets ahead of its log
on `Within`, together with `DeliveryInv`. A `Publish` is then one more event of one
log (`LogGrows`, `LogWraps`), a subscription is `Open`, a read is `Read`, a
resynchronisation or removal is `End`; collection, eviction and the whole fan-out
are not seen.

*Tasks* (`TaskInv` and `Unstarted`, in `BackgroundTasksProofs`), for every number of
tasks, workers, callers and waiters, every limit, and any number of crashes,
database errors, cancels and changes of settings, under `BoundsAssumption` (the
workers are finitely many, as counting them needs, and none is called 0, the name
of no worker). `SoleExecutor` and `CountersMatch` rest on `Holding`: a worker has a
task exactly while it is busy, is the only one to have it, and is the registered one
from the moment it executes until its cleanup; a held row is of the process that runs.
`TerminalIsTold` and `NoLostNotify` need `Telling`: whoever is about to tell of an
end tells of a row that has ended. `NoLostNotify` also needs `Listening`: a waiter that reads or
blocks is on the channel or has been woken, so that the one notification finds
it. `ReapedIsAbandoned` needs `Sweeping`: a row gets old only after its worker has registered it, so
an old row that the reaper finds unregistered is one whose worker is past its cleanup.
`Unstarted` (no worker runs before `Start`) keeps claims out of a process whose
rows are not reconciled. Most steps leave the tasks with the workers that have
them; `Steady` says so once, and `SteadyHolds` carries `Holding` and the counters
through all of them. What is left are the steps that hand a task over (`Claim`,
`Register`, `Unregister`, `Release`) and the two that begin a process. The simulation of
`TaskLifecycle` follows from the same invariant: a reconciliation is `Lose`, a
transition of the store is `End`, a hook is `Tell`, the rest is not seen.

*Plans* (`PlansInv`, in `PlansProofs`). `ApprovedRuns` relates plan, runs and
approvals where there are some; it is inductive with four more parts. `PlansTypes`
gives the statuses their ranges. `Undrafted` says that an author who has not
drafted yet has no plan, so that drafting cannot overwrite one. `Early` says that a
plan before its approval has neither approval nor, before its draft, runs: hence
the first approval is the only one. `Parting` says that a run whose plan is still
to be reset is over, so that the reset does not take the plan from a live run.

*Remote tasks* (`RemoteInv`, in `RemoteTasksProofs`). `HandedOnce` says what went
out and what was settled; that nothing else can go out rests on what the handlers
hold. `Row` ties a row's owner, status, hand-outs and end together. `Serving` says
that a handler about to hand a task out holds one that has not gone out, and that
one about to report was told of its task. `Sole` says that no two handlers hold the
same task, so that neither hands out what the other did. `Line` keeps the device's
switch and its status together.

*Runs* (`RegistryInv`, in `RunRegistryProofs`). Between two sections a goroutine
has only what it read before, and `Sound` says what of that still holds in the one it
is about to enter: `Holds` (a goroutine that executes or reserves a run is the one the
slot names, with a cancel function unless it has a placeholder), `Relies` (what it
still knows of its row and count) and `Brings` (which run and which result it carries; a
wake that reserves has seen its task end). `SlotExclusive` follows, and
`RunningIsOwned` is inductive beside it: a row becomes running in the hands of the
slot's holder, and whoever takes the slot from it takes the row along. `Room` counts
the goroutines that are yet to insert a row, so that each has a name left.
The action properties are read off the steps under that invariant.
`WakeHonoursTask` needs that a wake compares the count of the continuation when it
resumes, and that the task of *that* count had ended when it read it (`Brings`).

*Tool groups* (`LedgerInv`, in `ComponentsProofs`). `GroupSound` says that a
recorded call has run once and was replied to, and that only the last turn's group
can be open. `LoopSound` says what the loop knows at each step: in particular which
calls have run ahead of their turn (`RanAhead`), without which a second run could not
be excluded after the first of a batch.

*MCP pool* (`PoolInv`). Each process is seen from the pool (`Pooled`), from the call
that has it (`Lent`) and by itself (`Owned`); each leans on
the other two when a process changes hands, on release, offer, sweep or invalidation.

*Tunnel* (`TunnelInv`). The manager is unlocked while a process starts, so
`HandlerSound` says for each step of a handler what the manager still holds of it: the
process, or nothing. A revalidation relies on neither between its two sections. Only one handler starts at a time. Nothing is claimed once two
calls crossed, and the invariant says so at its head, as the property does.

*Approvals* (`ApprovalsInv`). `BoundToThePast` keeps every stored generation at or
below the present one, so that a comparison for equality is one for "not changed
since". `ChannelSound` follows the one-slot channel from the card to the answer taken.

*Gateway* (`GatewayInv`). Three goroutines may speak for a listener: `Claimed` says
whose each one is, `CallSound` what the call under `opMu` may rely on between its
sections under `mu`, `CallFits` and `FollowsUp` how far the settings handler, the
manager and the saved settings are apart at each of its steps.

*Message queue* (`QueueInv`). `Sole` says that rows, the run's hand and the drains'
hands never name the same follow-up; `Kept` ties it to what was asked and what was
said; `Drained` says that the flag `draining` is up exactly while one drain looks.

*Deliveries* (`DeliveryInv`, in `ServicesProofs`). `Carried` says where the loop has
the rows it claimed, and that none of them went out under this claim. `Awaited` is
`DueIsWatched` for rows that are not due *yet*, which is what makes it hold when their
time comes.

*Schedules* (`ScheduleInv`). `Works` says that a dispatcher whose lease was not lost
is the one the row names and that the next time it is about to write lies behind no
lease (`Behind`); `Settled` says that a time that was run is not claimed again. Seeking
it corrected the model: `ignored` was a flag, which a second edit under the same lease
could clear although the outcome still to come would write the old expression's next
time. It now names the lease, and the run allows two edits.

*Page* (`StreamInv`). Rows are read after the mark (`Sound`), so that a snapshot never
promises more than it shows. A page that is on has something under way (`Attended`), or
the browser will tell it that it is online again (`Promised`), because the last word in
the queue of network events is what the network is (`Lasting`).

*Limits* (`LimitInv`). Every limiter, also one that was replaced, counts exactly the
calls with a lease on it, and its slots also those about to get one or just past it
(`Counted`). `Allowed` adds what is reserved to what is used.
Sums over calls are taken as the size of the set of all their tokens, so that the
facts about finite sets apply and no induction over a sum is needed.

*Proved and not checked by a run*: `TypeOK` and `OneDrainer` of the hub, which the
proofs establish for all instances.

*Only model-checked*: liveness, which is out of the prover's reach: `EventuallyRead`
of the hub, `HeldEnds` and `QueuedStarts` of the tasks, `EveryRequestEnds` and
`ParkedEnds` of the runs. The five findings are counterexamples, which TLC shows.

## 5. Plan

Done: the hub and the tasks with their proofs, runs, and one module for each of the
twelve resources above, all with their proofs. What remains, in order of importance:

1. The recovery of runs at a restart (`RecoverInterruptedRuns`,
   `RecoverContinuationPendingRuns`) in `RunRegistry`.
2. A composition of `RunRegistry` with `TaskLifecycle` in place of `task`, so that
   hook, sweep and restart are those of the manager; and of `LiveStream` with
   `EventHub` in place of `feed`.
3. Pairing with its challenges and grants.

## 6. What is not modelled

The components marked `not_modelled` in `PROJECT.json`, with the reason there.
Most of the repository's lines are of that kind: providers, credential
flows and channels translate formats and talk to networks, the tools and the HTTP
layer process one request at a time, and the user interface draws.

Within the modelled ones: recovery of runs at a restart, plan reflection,
dispatch-id lookup and storage errors of the run registry; the tool-activity
display ring, socket authentication and encoding; task output and its cursor,
report texts (both executors bound what they report, so that no result is too
large to store), the send-message branch of the agent executor (`message_task.go`),
which goes through the same attach, poll and cancel path and has the shape of the
first finding too; which permission rule matches which call; replanning from an
older plan; the settings of a named tunnel; what an event does to the page;
interval expressions and the calendar; the authentication, models and protocols
of the gateway; the grants that a request of a paired
device looks up; the payloads of notifications.
