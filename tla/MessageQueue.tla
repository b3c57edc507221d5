---------------------------- MODULE MessageQueue ----------------------------
(***************************************************************************)
(* The follow-ups a user parks while one agent is busy                     *)
(* (internal/db/message_queue.go). A follow-up leaves the queue in one of  *)
(* two ways: the run inserts it into its own conversation after a tool     *)
(* batch (steering, internal/agent/runner_steer.go), or a drain goroutine  *)
(* of the server sends it as a new run once the agent is idle              *)
(* (internal/server/message_queue_api.go). Both claim the head row by      *)
(* deleting it, and put it back when they cannot deliver it.               *)
(*                                                                         *)
(* The run is reduced to what the queue sees of it: whether its row counts *)
(* as active, where it may steer, and whether its context is canceled.     *)
(***************************************************************************)
EXTENDS Integers, FiniteSets

CONSTANTS
    Messages,         \* the follow-ups the user may park
    RunModes,         \* execution modes of a run
    Drainers,         \* goroutines ScheduleMessageQueueDrain may have in flight
    QueueLimit,       \* QueuedMessageLimitPerAgent
    MaxEdits,         \* bound: edits of one follow-up
    MaxSubmits,       \* bound: messages submitted directly, past the queue
    MaxStops,         \* bound: Stops
    MaxQueueFaults,   \* bound: storage errors and crashes, together
    MaxTrouble        \* bound: direct submits, Stops, errors and crashes, together

ASSUME QueueAssumption ==
    /\ QueueLimit \in Nat \ {0}
    /\ MaxEdits \in Nat /\ MaxSubmits \in Nat /\ MaxStops \in Nat
    /\ MaxQueueFaults \in Nat /\ MaxTrouble \in Nat
    /\ RunModes # {} /\ "any" \notin RunModes
    /\ "none" \notin Messages  \* the ids of rows are generated, and none is this one

VARIABLES
    queue,     \* the rows of agent_message_queue: [msg, pos, text, mode]
    turn,      \* the agent's run, as the queue sees it
    drainer,   \* goroutine -> [pc, item]
    draining,  \* messageQueueDrainer.running of the agent
    notices,   \* ends of runs the notifier has not been told of yet
    said,      \* message -> texts it has in the conversation, with their number
    asked,     \* history: what the user was told of each message
    spent      \* history: the bounds used, and whether a drain was missed

queueVars == <<queue, turn, drainer, draining, notices, said, asked, spent>>

NoItem == [msg |-> "none", pos |-> 0, text |-> 0, mode |-> "any"]
NoTurn == [pc |-> "none", item |-> NoItem, mode |-> "any", shut |-> "no",
           canceled |-> FALSE, next |-> FALSE]
AtRest == [pc |-> "none", item |-> NoItem]

QueueInit ==
    /\ queue = {}
    /\ turn = NoTurn
    /\ drainer = [d \in Drainers |-> AtRest]
    /\ draining = FALSE
    /\ notices = 0
    /\ said = [m \in Messages |-> {}]
    /\ asked = [m \in Messages |-> [state |-> "new", text |-> 0, late |-> 0]]
    /\ spent = [submits |-> 0, stops |-> 0, faults |-> 0, missed |-> FALSE]

-----------------------------------------------------------------------------
\* ActiveRunSummary: a pending, running or parked run makes the agent busy.
Busy == turn.pc # "none"

Row(m) == {r \in queue : r.msg = m}

\* Rows with equal positions are ordered by their random ids.
Heads == {r \in queue : \A s \in queue : r.pos <= s.pos}

LastPosition == IF queue = {} THEN 0
                ELSE CHOOSE p \in {r.pos : r \in queue} : \A r \in queue : r.pos <= p

ClaimByReading(r) ==
    /\ r \in Heads
    /\ UNCHANGED queue

ClaimNext(r) ==
    /\ r \in Heads
    /\ queue' = queue \ {r}

RestoreRow(r) == queue' = queue \cup {r}

\* Insert a claimed message into the conversation, once more if it is there.
Say(r) == said' = [said EXCEPT ![r.msg] = @ \cup {<<Cardinality(@) + 1, r.text>>}]

Lose(r) == asked' = [asked EXCEPT ![r.msg].state = "lost"]

InBounds == spent.submits + spent.stops + spent.faults < MaxTrouble

\* A fault, within the bound, and whether the drain misses its turn by it.
Fault(missed) ==
    /\ spent.faults < MaxQueueFaults /\ InBounds
    /\ spent' = [spent EXCEPT !.faults = @ + 1, !.missed = @ \/ missed]

\* ScheduleMessageQueueDrain: a goroutine of its own, which the caller leaves.
\* Goroutines at rest are alike, so any one of them stands for the new one.
Schedule == \E d \in Drainers :
    /\ drainer[d] = AtRest
    /\ d = CHOOSE e \in Drainers : drainer[e] = AtRest
    /\ drainer' = [drainer EXCEPT ![d].pc = "begin"]

-----------------------------------------------------------------------------
(* The user *)

EnqueueSilently(m, mode) ==
    /\ asked[m].state = "new"
    /\ Cardinality(queue) < QueueLimit
    /\ queue' = queue \cup {[msg |-> m, pos |-> LastPosition + 1, text |-> 0, mode |-> mode]}
    /\ asked' = [asked EXCEPT ![m].state = "asked"]
    /\ UNCHANGED <<turn, drainer, draining, notices, said, spent>>

EnqueueMessage(m, mode) ==
    /\ asked[m].state = "new"
    /\ Cardinality(queue) < QueueLimit
    /\ queue' = queue \cup {[msg |-> m, pos |-> LastPosition + 1, text |-> 0, mode |-> mode]}
    /\ asked' = [asked EXCEPT ![m].state = "asked"]
    /\ Schedule
    /\ UNCHANGED <<turn, draining, notices, said, spent>>

UpdateQueuedMessage(m) == \E r \in Row(m) :
    /\ r.text < MaxEdits
    /\ queue' = (queue \ {r}) \cup {[r EXCEPT !.text = @ + 1]}
    /\ asked' = [asked EXCEPT ![m].text = r.text + 1]
    /\ UNCHANGED <<turn, drainer, draining, notices, said, spent>>

DeleteQueuedMessage(m) == \E r \in Row(m) :
    /\ queue' = queue \ {r}
    /\ asked' = [asked EXCEPT ![m].state = "deleted"]
    /\ UNCHANGED <<turn, drainer, draining, notices, said, spent>>

\* A submitted message starts a run, replaces a parked one, or supersedes the
\* run that holds the slot, whose context it cancels.
Submitted(mode) ==
    turn' = IF turn.pc \in {"none", "parked"}
            THEN [NoTurn EXCEPT !.pc = "model", !.mode = mode]
            ELSE [turn EXCEPT !.canceled = TRUE, !.next = TRUE]

SubmitDirect ==
    /\ spent.submits < MaxSubmits /\ InBounds
    /\ spent' = [spent EXCEPT !.submits = @ + 1]
    /\ \E mode \in RunModes \cup {"any"} : Submitted(mode)
    /\ UNCHANGED <<queue, drainer, draining, notices, said, asked>>

\* Interrupt cancels a registered run and drops the one queued behind it. A
\* parked run ends here, and no notification the drain listens to is sent.
Interrupt ==
    /\ Busy
    /\ spent.stops < MaxStops /\ InBounds
    /\ spent' = [spent EXCEPT !.stops = @ + 1, !.missed = @ \/ turn.pc = "parked"]
    /\ turn' = IF turn.pc = "parked" THEN NoTurn
               ELSE [turn EXCEPT !.canceled = TRUE, !.next = FALSE]
    /\ UNCHANGED <<queue, drainer, draining, notices, said, asked>>

-----------------------------------------------------------------------------
(* The run *)

\* A tool batch settles. A batch that dispatched a child parks without
\* steering; the resumed segment steers before its first model call.
Settled ==
    /\ turn.pc = "model" /\ ~turn.canceled
    /\ turn' = [turn EXCEPT !.pc = "steer"]
    /\ UNCHANGED <<queue, drainer, draining, notices, said, asked, spent>>

Park ==
    /\ turn.pc = "model" /\ ~turn.canceled
    /\ turn' = [turn EXCEPT !.pc = "parked"]
    /\ UNCHANGED <<queue, drainer, draining, notices, said, asked, spent>>

Wake ==
    /\ turn.pc = "parked"
    /\ turn' = [turn EXCEPT !.pc = "steer"]
    /\ UNCHANGED <<queue, drainer, draining, notices, said, asked, spent>>

\* An approval or a question opens or is answered; a permission, policy or
\* execution generation moves past the one the run was admitted with.
Shut ==
    /\ turn.pc \in {"model", "steer", "parked"}
    /\ \E s \in CASE turn.shut = "no"    -> {"gate", "stale"}
                  [] turn.shut = "gate"  -> {"no", "stale"}
                  [] turn.shut = "stale" -> {} : turn' = [turn EXCEPT !.shut = s]
    /\ UNCHANGED <<queue, drainer, draining, notices, said, asked, spent>>

SteerSkip ==
    /\ turn.pc = "steer"
    /\ \/ (turn.canceled \/ turn.shut # "no" \/ queue = {}) /\ UNCHANGED spent
       \/ Fault(FALSE)  \* the generations or the claim cannot be read
    /\ turn' = [turn EXCEPT !.pc = "model"]
    /\ UNCHANGED <<queue, drainer, draining, notices, said, asked>>

SteerClaim ==
    /\ turn.pc = "steer" /\ ~turn.canceled /\ turn.shut = "no"
    /\ \E r \in queue :
          /\ ClaimNext(r)
          /\ turn' = [turn EXCEPT !.pc = "claimed", !.item = r]
    /\ UNCHANGED <<drainer, draining, notices, said, asked, spent>>

\* queuedSteeringMatchesRun: a conversation run takes every message.
Fits(r) == turn.mode = "any" \/ r.mode \in {"any", turn.mode}

SteerInsert ==
    /\ turn.pc = "claimed" /\ ~turn.canceled /\ Fits(turn.item)
    /\ Say(turn.item)
    /\ turn' = [turn EXCEPT !.pc = "model", !.item = NoItem]
    /\ UNCHANGED <<queue, drainer, draining, notices, asked, spent>>

SteerFails ==
    /\ turn.pc = "claimed" /\ Fits(turn.item)
    /\ IF turn.canceled THEN UNCHANGED spent ELSE Fault(FALSE)
    /\ turn' = [turn EXCEPT !.pc = "restore"]
    /\ UNCHANGED <<queue, drainer, draining, notices, said, asked>>

\* The restore writes under the run's own context: canceled, it fails and the
\* claimed message is gone.
SteerRestore ==
    /\ \/ turn.pc = "restore"
       \/ turn.pc = "claimed" /\ ~Fits(turn.item)
    /\ \/ ~turn.canceled /\ RestoreRow(turn.item) /\ UNCHANGED <<asked, spent>>
       \/ turn.canceled /\ Lose(turn.item) /\ UNCHANGED <<queue, spent>>
       \/ ~turn.canceled /\ Fault(FALSE) /\ Lose(turn.item) /\ UNCHANGED queue
    /\ turn' = [turn EXCEPT !.pc = "model", !.item = NoItem]
    /\ UNCHANGED <<drainer, draining, notices, said>>

\* The row ends before the notifier is told; a superseding run starts behind it.
RunEnds ==
    /\ turn.pc = "model"
    /\ notices' = notices + 1
    /\ \E mode \in IF turn.next THEN RunModes \cup {"any"} ELSE {"any"} :
          turn' = IF turn.next THEN [NoTurn EXCEPT !.pc = "model", !.mode = mode] ELSE NoTurn
    /\ UNCHANGED <<queue, drainer, draining, said, asked, spent>>

Notify ==
    /\ notices > 0
    /\ notices' = notices - 1
    /\ Schedule
    /\ UNCHANGED <<queue, turn, draining, said, asked, spent>>

-----------------------------------------------------------------------------
(* The drain *)

Step(d, from, to) ==
    /\ drainer[d].pc = from
    /\ drainer' = [drainer EXCEPT ![d].pc = to]

Begin(d) ==
    /\ ~draining
    /\ draining' = TRUE
    /\ Step(d, "begin", "look")
    /\ UNCHANGED <<queue, turn, notices, said, asked, spent>>

\* A second drain leaves; when the first has already looked for the last time,
\* nobody looks again.
Refuse(d) ==
    /\ draining
    /\ Step(d, "begin", "none")
    /\ spent' = [spent EXCEPT !.missed = @ \/ \E e \in Drainers : drainer[e].pc = "end"]
    /\ UNCHANGED <<queue, turn, draining, notices, said, asked>>

Look(d) ==
    /\ Step(d, "look", IF Busy THEN "end" ELSE "claim")
    /\ spent' = [spent EXCEPT !.missed = FALSE]
    /\ UNCHANGED <<queue, turn, draining, notices, said, asked>>

DrainClaim(d) ==
    /\ drainer[d].pc = "claim"
    /\ \/ /\ queue = {}
          /\ drainer' = [drainer EXCEPT ![d].pc = "end"]
          /\ UNCHANGED queue
       \/ \E r \in queue :
          /\ ClaimNext(r)
          /\ drainer' = [drainer EXCEPT ![d] = [pc |-> "send", item |-> r]]
    /\ UNCHANGED <<turn, draining, notices, said, asked, spent>>

\* sendQueuedMessage: the message is stored, then its run is created and started.
Send(d) ==
    LET r == drainer[d].item IN
    /\ drainer[d].pc = "send"
    /\ Say(r)
    /\ \E mode \in IF r.mode = "any" THEN RunModes \cup {"any"} ELSE {r.mode} : Submitted(mode)
    /\ drainer' = [drainer EXCEPT ![d] = [pc |-> "look", item |-> NoItem]]
    /\ UNCHANGED <<queue, draining, notices, asked, spent>>

\* The send fails, before the message is stored or after.
SendFails(d) ==
    LET r == drainer[d].item IN
    /\ Fault(TRUE)
    /\ Step(d, "send", "restore")
    /\ \/ UNCHANGED <<said, asked>>
       \/ Say(r) /\ asked' = [asked EXCEPT ![r.msg].late = @ + 1]
    /\ UNCHANGED <<queue, turn, draining, notices>>

\* The error of the restore itself is dropped.
DrainRestore(d) ==
    /\ drainer[d].pc = "restore"
    /\ \/ RestoreRow(drainer[d].item) /\ UNCHANGED <<asked, spent>>
       \/ Fault(TRUE) /\ Lose(drainer[d].item) /\ UNCHANGED queue
    /\ drainer' = [drainer EXCEPT ![d] = [pc |-> "end", item |-> NoItem]]
    /\ UNCHANGED <<turn, draining, notices, said>>

\* A storage error ends a drain that looks or claims.
DrainFails(d) ==
    /\ Fault(TRUE)
    /\ Step(d, "look", "end") \/ Step(d, "claim", "end")
    /\ UNCHANGED <<queue, turn, draining, notices, said, asked>>

End(d) ==
    /\ Step(d, "end", "none")
    /\ draining' = FALSE
    /\ UNCHANGED <<queue, turn, notices, said, asked, spent>>

-----------------------------------------------------------------------------
InHand == ({turn.item} \cup {drainer[d].item : d \in Drainers}) \ {NoItem}

\* The process dies. Rows survive; what was claimed does not, and no drain
\* starts with the next process. An active run is ended by the recovery.
Crash ==
    /\ Fault(TRUE)
    /\ turn' = NoTurn
    /\ drainer' = [d \in Drainers |-> AtRest]
    /\ draining' = FALSE
    /\ notices' = 0
    /\ asked' = [m \in Messages |-> IF \E r \in InHand : r.msg = m /\ said[m] = {}
                                    THEN [asked[m] EXCEPT !.state = "lost"] ELSE asked[m]]
    /\ UNCHANGED <<queue, said>>

QueueNext ==
    \/ \E m \in Messages :
          \/ \E mode \in RunModes \cup {"any"} : EnqueueMessage(m, mode)
          \/ UpdateQueuedMessage(m) \/ DeleteQueuedMessage(m)
    \/ SubmitDirect \/ Interrupt
    \/ Settled \/ Park \/ Wake \/ Shut
    \/ SteerSkip \/ SteerClaim \/ SteerInsert \/ SteerFails \/ SteerRestore
    \/ RunEnds \/ Notify
    \/ \E d \in Drainers :
          \/ Begin(d) \/ Refuse(d) \/ Look(d) \/ DrainClaim(d) \/ Send(d)
          \/ SendFails(d) \/ DrainRestore(d) \/ DrainFails(d) \/ End(d)
    \/ Crash

QueueSpec == QueueInit /\ [][QueueNext]_queueVars

-----------------------------------------------------------------------------
\* A follow-up the user parked is in one place: its row, one claimant's hand,
\* or the conversation. It is said once, but for the sends that failed after
\* storing it; once deleted it is never said; it carries the last text the user
\* was told is saved; and it disappears only with a canceled context, a failed
\* restore or a crash while claimed.
HeldOnce ==
    /\ \A m \in Messages :
          LET rows == Row(m)
              hands == {r \in InHand : r.msg = m}
              known == rows \cup hands
          IN /\ Cardinality(rows) + Cardinality(hands) <= 1
             /\ Cardinality(said[m]) + Cardinality(known) <= 1 + asked[m].late
             /\ asked[m].state = "asked" => known # {} \/ said[m] # {}
             /\ asked[m].state = "deleted" => known = {} /\ Cardinality(said[m]) <= asked[m].late
             /\ \A r \in known : r.text = asked[m].text
    /\ Cardinality({d \in Drainers : drainer[d].pc \in {"look", "claim", "send", "restore", "end"}}) <= 1

\* An idle agent has no follow-up waiting while nothing is about to look.
Attended ==
    \/ notices > 0
    \/ \E d \in Drainers : drainer[d].pc \in {"begin", "look", "claim", "send", "restore"}

\* "An agent that is already idle should not sit on a fresh follow-up waiting
\* for a run-finished event that has already been and gone"
\* (message_queue_api.go:84). The code does not keep this.
FollowUpPulled == queue # {} /\ ~Busy => Attended

\* What it keeps: a follow-up waits unattended only after a fault, a Stop of a
\* parked run, or a drain refused by one that had looked for the last time.
FollowUpAttended == queue # {} /\ ~Busy /\ ~spent.missed => Attended
=============================================================================
