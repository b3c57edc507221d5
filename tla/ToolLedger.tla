----------------------------- MODULE ToolLedger -----------------------------
(***************************************************************************)
(* The durable ledger of tool calls (internal/db/tool_execution_groups.go) *)
(* under the loop that fills it (internal/agent/continuation.go). A model  *)
(* turn that asks for tools gets a group with one pending item per call;   *)
(* each call is run, its result stored as a message and its item recorded; *)
(* then the group settles. Groups of a run must be settled before its next *)
(* turn and before it parks. A crash may come between any two writes; the  *)
(* next process settles a group whose items are all recorded and aborts    *)
(* the others, before it looks at the runs.                                *)
(***************************************************************************)
EXTENDS Integers, FiniteSets

CONSTANTS
    Turns,             \* number of model turns that may ask for tools
    Calls,             \* number of tool calls of a turn, at most
    MaxLedgerCrashes   \* bound: crashes

ASSUME LedgerAssumption == Turns \in Nat /\ Calls \in Nat \ {0} /\ MaxLedgerCrashes \in Nat

VARIABLES
    group,     \* turn -> its group: status, expected count, item statuses, result messages
    loop,      \* the process: where its loop or its startup recovery is
    runRow,    \* status of the run's row
    ranTimes,  \* history: turn and call -> times the tool was executed
    replies,   \* the tool result messages of the conversation, as <<turn, call>>
    crashes    \* history: crashes so far

ledgerVars == <<group, loop, runRow, ranTimes, replies, crashes>>

NoGroup == [status |-> "none", expected |-> 0,
            item |-> [c \in 1..Calls |-> "none"], result |-> [c \in 1..Calls |-> <<>>]]

\* pc: "turn" before a model call, "ledger" its tool calls persisted, "run",
\* "reply" and "record" for call number at, "settle", "decide" what follows;
\* "groups", "runs" and "resume" are the startup recovery.
LedgerInit ==
    /\ group = [t \in 1..Turns |-> NoGroup]
    /\ loop = [pc |-> "turn", turn |-> 0, at |-> 1, early |-> {}]
    /\ runRow = "running"
    /\ ranTimes = [t \in 1..Turns |-> [c \in 1..Calls |-> 0]]
    /\ replies = {}
    /\ crashes = 0

Recordable == {"completed", "error", "denied"}
Pending(g) == {c \in 1..g.expected : g.item[c] = "pending"}
Open == {t \in 1..Turns : group[t].status = "open"}

\* RequireRunToolExecutionGroupsSettled
Settleable(g) == Pending(g) = {}
BarrierHolds == \A t \in 1..Turns :
    group[t].status # "none" => group[t].status = "settled" /\ Settleable(group[t])

\* SettleToolExecutionGroup refuses an aborted or incomplete group.
CanSettleBlindly(g) == g.status \in {"open", "settled"}

CanSettle(g) == g.status \in {"open", "settled"} /\ Settleable(g)

SettleToolExecutionGroup(t) ==
    /\ CanSettle(group[t])
    /\ group' = [group EXCEPT ![t].status = "settled"]

AbortToolExecutionGroup(t) ==
    /\ group[t].status = "open"
    /\ group' = [group EXCEPT ![t].status = "aborted",
          ![t].item = [c \in 1..Calls |-> IF @[c] = "pending" THEN "aborted" ELSE @[c]]]

-----------------------------------------------------------------------------
(* The segment loop *)

EndRun(status) ==
    /\ runRow' = status
    /\ loop' = [loop EXCEPT !.pc = "done"]

\* The barrier, then the model: it asks for tools or answers.
Generate ==
    /\ loop.pc = "turn"
    /\ IF ~BarrierHolds
       THEN EndRun("error")
       ELSE \/ EndRun("completed")
            \/ /\ loop.turn < Turns
               /\ loop' = [loop EXCEPT !.pc = "ledger", !.turn = @ + 1]
               /\ UNCHANGED runRow
    /\ UNCHANGED <<group, ranTimes, replies, crashes>>

CreateToolExecutionGroup ==
    /\ loop.pc = "ledger"
    /\ \E n \in 1..Calls :
          group' = [group EXCEPT ![loop.turn] =
              [status |-> "open", expected |-> n,
               item |-> [c \in 1..Calls |-> IF c <= n THEN "pending" ELSE "none"],
               result |-> [c \in 1..Calls |-> <<>>]]]
    /\ loop' = [loop EXCEPT !.pc = "prefetch", !.at = 1]
    /\ UNCHANGED <<runRow, ranTimes, replies, crashes>>

\* Two or more calls that policy allows as plain reads run ahead, together.
Prefetch ==
    /\ loop.pc = "prefetch"
    /\ \E early \in SUBSET (1..group[loop.turn].expected) :
          /\ Cardinality(early) # 1
          /\ ranTimes' = [ranTimes EXCEPT ![loop.turn] =
                [c \in 1..Calls |-> @[c] + (IF c \in early THEN 1 ELSE 0)]]
          /\ loop' = [loop EXCEPT !.pc = "run", !.early = early]
    /\ UNCHANGED <<group, runRow, replies, crashes>>

Execute ==
    /\ loop.pc = "run"
    /\ ranTimes' = IF loop.at \in loop.early THEN ranTimes
                   ELSE [ranTimes EXCEPT ![loop.turn][loop.at] = @ + 1]
    /\ loop' = [loop EXCEPT !.pc = "reply"]
    /\ UNCHANGED <<group, runRow, replies, crashes>>

AddReply ==
    /\ loop.pc = "reply"
    /\ replies' = replies \cup {<<loop.turn, loop.at>>}
    /\ loop' = [loop EXCEPT !.pc = "record"]
    /\ UNCHANGED <<group, runRow, ranTimes, crashes>>

\* Only a pending item of an open group takes a result, and a message that is
\* no other item's. The branch for an item recorded before is never taken: the loop
\* records each of its calls once.
RecordToolExecutionItemTerminal ==
    LET t == loop.turn
        c == loop.at
    IN /\ loop.pc = "record"
       /\ group[t].status = "open" /\ c \in Pending(group[t])
       /\ <<t, c>> \in replies
       /\ \A u \in 1..Turns, d \in 1..Calls : group[u].result[d] # <<t, c>>
       /\ \E s \in Recordable :
             group' = [group EXCEPT ![t].item[c] = s, ![t].result[c] = <<t, c>>]
       /\ loop' = IF c < group[t].expected THEN [loop EXCEPT !.pc = "run", !.at = c + 1]
                  ELSE [loop EXCEPT !.pc = "settle"]
       /\ UNCHANGED <<runRow, ranTimes, replies, crashes>>

Settle ==
    /\ loop.pc = "settle"
    /\ SettleToolExecutionGroup(loop.turn)
    /\ loop' = [loop EXCEPT !.pc = "decide", !.early = {}]
    /\ UNCHANGED <<runRow, ranTimes, replies, crashes>>

\* On to the next turn, or to a durable boundary, behind the barrier again.
Decide ==
    /\ loop.pc = "decide"
    /\ \/ loop' = [loop EXCEPT !.pc = "turn"] /\ UNCHANGED runRow
       \/ /\ BarrierHolds
          /\ runRow' = "continuation_pending"
          /\ loop' = [loop EXCEPT !.pc = "parked"]
       \/ ~BarrierHolds /\ EndRun("error")
    /\ UNCHANGED <<group, ranTimes, replies, crashes>>

ResumeParked ==
    /\ loop.pc = "parked" /\ runRow = "continuation_pending"
    /\ runRow' = "running"
    /\ loop' = [loop EXCEPT !.pc = "turn"]
    /\ UNCHANGED <<group, ranTimes, replies, crashes>>

\* A canceled context or a failed write ends the run and leaves its group as it is.
Abandon ==
    /\ loop.pc \in {"ledger", "prefetch", "run", "reply", "record", "settle", "decide"}
    /\ \E status \in {"error", "interrupted"} : EndRun(status)
    /\ UNCHANGED <<group, ranTimes, replies, crashes>>

-----------------------------------------------------------------------------
(* Crash and startup *)

LedgerCrash ==
    /\ crashes < MaxLedgerCrashes
    /\ crashes' = crashes + 1
    /\ loop' = [loop EXCEPT !.pc = "groups", !.early = {}]
    /\ UNCHANGED <<group, runRow, ranTimes, replies>>

\* RecoverInterruptedToolExecutionGroups: settle what can be settled, abort the rest.
RecoverGroup ==
    /\ loop.pc = "groups"
    /\ \E t \in Open :
          IF CanSettle(group[t]) THEN SettleToolExecutionGroup(t) ELSE AbortToolExecutionGroup(t)
    /\ UNCHANGED <<loop, runRow, ranTimes, replies, crashes>>

\* RecoverInterruptedRuns, then RecoverContinuationPendingRuns.
RecoverRuns ==
    /\ loop.pc = "groups" /\ Open = {}
    /\ runRow' = IF runRow = "running" THEN "interrupted" ELSE runRow
    /\ loop' = [loop EXCEPT !.pc = IF runRow = "continuation_pending" THEN "parked" ELSE "done"]
    /\ UNCHANGED <<group, ranTimes, replies, crashes>>

LedgerNext ==
    \/ Generate \/ CreateToolExecutionGroup \/ Prefetch \/ Execute \/ AddReply
    \/ RecordToolExecutionItemTerminal \/ Settle \/ Decide \/ ResumeParked \/ Abandon
    \/ LedgerCrash \/ RecoverGroup \/ RecoverRuns

LedgerSpec == LedgerInit /\ [][LedgerNext]_ledgerVars

-----------------------------------------------------------------------------
\* No call is run twice, over any crash. A recorded item has run and has its
\* reply in the conversation; a settled group is complete; an aborted one lost
\* a call. A run that goes on, resumed after a crash or not, is never refused
\* by the settlement barrier: whatever is left unsettled belongs to the last
\* turn of a run that is over or about to be.
LedgerHolds ==
    /\ \A t \in 1..Turns :
          LET g == group[t] IN
          /\ \A c \in 1..Calls :
                /\ ranTimes[t][c] <= 1
                /\ g.item[c] \in Recordable => ranTimes[t][c] = 1 /\ g.result[c] \in replies
                /\ g.result[c] # <<>> => \A d \in 1..Calls \ {c} : g.result[d] # g.result[c]
          /\ g.status = "settled" => \A c \in 1..g.expected : g.item[c] \in Recordable
          /\ g.status = "aborted" => \E c \in 1..g.expected : g.item[c] = "aborted"
          /\ g.status \in {"open", "aborted"} => t = loop.turn
    /\ runRow = "continuation_pending" \/ (runRow = "running" /\ loop.pc \in {"turn", "decide"})
          => BarrierHolds
=============================================================================
