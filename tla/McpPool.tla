------------------------------ MODULE McpPool ------------------------------
(***************************************************************************)
(* The warm MCP processes of one registered server (internal/mcp/pool.go)  *)
(* and the tool calls that borrow them (internal/tools/mcp.go). A slot, an *)
(* agent in a directory, has at most one pooled process. A call borrows it *)
(* or starts one of its own, checks that the server's configuration has    *)
(* not moved, uses the process and gives it back; meanwhile the server is  *)
(* reconfigured or disabled, processes die, and a timer closes idle ones.  *)
(***************************************************************************)
EXTENDS Integers, FiniteSets

CONSTANTS
    Slots,        \* agents that call the server
    LaunchKeys,   \* launch configurations the server may have
    Borrowers,    \* tool calls in flight at once
    Processes,    \* bound: processes ever started
    MaxCalls,     \* maxPooledCalls
    MaxConfigs    \* bound: changes of the configuration

ASSUME PoolAssumption ==
    /\ MaxCalls \in Nat /\ MaxCalls > 1
    /\ MaxConfigs \in Nat
    /\ "off" \notin LaunchKeys
    /\ "none" \notin Processes    \* the client of an empty entry, and of a call that holds no process

VARIABLES
    config,    \* the server's launch key, or "off": disabled or deleted
    changes,   \* history: changes of config
    entry,     \* slot -> the pooled process: ProcessPool.entries
    process,   \* process -> its state and what it was launched with
    borrower,  \* tool call -> where withMCPSession is
    doomed,    \* processes the sweep, an invalidation or Close is about to close
    timer,     \* a sweep is scheduled
    poolClosed

poolVars == <<config, changes, entry, process, borrower, doomed, timer, poolClosed>>

Vacant == [client |-> "none", key |-> "off", busy |-> FALSE, calls |-> 0]
Unstarted == [state |-> "unused", key |-> "off"]
Away == [pc |-> "idle", slot |-> "none", key |-> "off", client |-> "none", pooled |-> FALSE]

PoolBegins(key) ==
    /\ config = key
    /\ changes = 0
    /\ entry = [s \in Slots |-> Vacant]
    /\ process = [p \in Processes |-> Unstarted]
    /\ borrower = [b \in Borrowers |-> Away]
    /\ doomed = {}
    /\ timer = FALSE
    /\ poolClosed = FALSE

PoolInit == \E k \in LaunchKeys : PoolBegins(k)

Taken == {s \in Slots : entry[s] # Vacant}
Alive(p) == process[p].state = "live"
Closed(p) == process' = [process EXCEPT ![p].state = "closed"]
Sent(b, r) == borrower' = [borrower EXCEPT ![b] = r]

-----------------------------------------------------------------------------
\* resolveMCPSession: a disabled server is refused and invalidated. Calls that
\* have not begun are alike, so any one of them stands for the new one.
Resolve(b) ==
    /\ borrower[b] = Away /\ config # "off"
    /\ b = CHOOSE c \in Borrowers : borrower[c] = Away
    /\ \E s \in Slots : Sent(b, [Away EXCEPT !.pc = "acquire", !.slot = s, !.key = config])
    /\ UNCHANGED <<config, changes, entry, process, doomed, timer, poolClosed>>

\* A mismatched or dead process is dropped and closed; a busy one is left alone.
Acquire(b) ==
    LET s == borrower[b].slot
        e == entry[s]
        start == [borrower[b] EXCEPT !.pc = "start"]
    IN /\ borrower[b].pc = "acquire"
       /\ IF poolClosed \/ e = Vacant \/ e.busy
          THEN Sent(b, start) /\ UNCHANGED <<entry, process>>
          ELSE IF e.key # borrower[b].key \/ ~Alive(e.client)
          THEN Sent(b, start) /\ Closed(e.client) /\ entry' = [entry EXCEPT ![s] = Vacant]
          ELSE /\ Sent(b, [borrower[b] EXCEPT !.pc = "check", !.client = e.client, !.pooled = TRUE])
               /\ entry' = [entry EXCEPT ![s].busy = TRUE]
               /\ UNCHANGED process
       /\ UNCHANGED <<config, changes, doomed, timer, poolClosed>>

\* startPooledMCPClient: launch and initialize, or close and give up.
Start(b) ==
    /\ borrower[b].pc = "start"
    /\ \/ \E p \in Processes :
          /\ process[p] = Unstarted
          /\ p = CHOOSE q \in Processes : process[q] = Unstarted
          /\ process' = [process EXCEPT ![p] = [state |-> "live", key |-> borrower[b].key]]
          /\ Sent(b, [borrower[b] EXCEPT !.pc = "check", !.client = p])
       \/ Sent(b, Away) /\ UNCHANGED process
    /\ UNCHANGED <<config, changes, entry, doomed, timer, poolClosed>>

\* A slip: any client of the slot is taken for the one that was borrowed.
ReleaseBySlot(b, failed) ==
    LET s == borrower[b].slot
        p == borrower[b].client
        e == entry[s]
    IN IF e = Vacant
       THEN Closed(p) /\ UNCHANGED <<entry, timer>>
       ELSE IF failed \/ poolClosed \/ e.calls + 1 >= MaxCalls \/ ~Alive(p)
       THEN Closed(p) /\ entry' = [entry EXCEPT ![s] = Vacant] /\ UNCHANGED timer
       ELSE /\ entry' = [entry EXCEPT ![s].busy = FALSE, ![s].calls = @ + 1]
            /\ timer' = TRUE
            /\ UNCHANGED process

\* Another client of the slot, or none, means this one was invalidated.
Release(b, failed) ==
    LET s == borrower[b].slot
        p == borrower[b].client
        e == entry[s]
    IN IF e.client # p
       THEN Closed(p) /\ UNCHANGED <<entry, timer>>
       ELSE IF failed \/ poolClosed \/ e.calls + 1 >= MaxCalls \/ ~Alive(p)
       THEN Closed(p) /\ entry' = [entry EXCEPT ![s] = Vacant] /\ UNCHANGED timer
       ELSE /\ entry' = [entry EXCEPT ![s].busy = FALSE, ![s].calls = @ + 1]
            /\ timer' = TRUE
            /\ UNCHANGED process

Offer(b) ==
    LET s == borrower[b].slot
        p == borrower[b].client
    IN IF poolClosed \/ entry[s] # Vacant \/ ~Alive(p)
       THEN Closed(p) /\ UNCHANGED <<entry, timer>>
       ELSE /\ entry' = [entry EXCEPT ![s] =
                  [client |-> p, key |-> borrower[b].key, busy |-> FALSE, calls |-> 1]]
            /\ timer' = TRUE
            /\ UNCHANGED process

\* finishMCPSession
Finish(b, failed) ==
    /\ IF borrower[b].pooled THEN Release(b, failed)
       ELSE IF failed THEN Closed(borrower[b].client) /\ UNCHANGED <<entry, timer>>
       ELSE Offer(b)
    /\ Sent(b, Away)

\* The server's entries go; idle processes are closed after the unlock, a busy
\* one is left to its borrower.
Invalidated ==
    /\ entry' = [s \in Slots |-> Vacant]
    /\ doomed' = doomed \cup {entry[s].client : s \in {t \in Taken : ~entry[t].busy}}

\* Revalidate against the configuration of now. A server found disabled is
\* invalidated by the same read.
Revalidate(b) ==
    /\ borrower[b].pc = "check"
    /\ config = borrower[b].key
    /\ Sent(b, [borrower[b] EXCEPT !.pc = "call"])
    /\ UNCHANGED <<config, changes, entry, process, doomed, timer, poolClosed>>

Reject(b) ==
    /\ borrower[b].pc = "check"
    /\ config # borrower[b].key
    /\ IF config = "off"
       THEN Invalidated /\ Closed(borrower[b].client) /\ Sent(b, Away) /\ UNCHANGED timer
       ELSE Finish(b, TRUE) /\ UNCHANGED doomed
    /\ UNCHANGED <<config, changes, poolClosed>>

Call(b) ==
    /\ borrower[b].pc = "call"
    /\ \E failed \in BOOLEAN : (~Alive(borrower[b].client) => failed) /\ Finish(b, failed)
    /\ UNCHANGED <<config, changes, doomed, poolClosed>>

-----------------------------------------------------------------------------
\* The row changes first; the handler invalidates after its write.
Configure ==
    /\ changes < MaxConfigs
    /\ changes' = changes + 1
    /\ \E k \in (LaunchKeys \cup {"off"}) \ {config} : config' = k
    /\ UNCHANGED <<entry, process, borrower, doomed, timer, poolClosed>>

InvalidateServer ==
    /\ changes > 0 /\ Taken # {}
    /\ Invalidated
    /\ UNCHANGED <<config, changes, process, borrower, timer, poolClosed>>

\* Which idle entries are past the idle time is left open.
SweepPool ==
    /\ timer
    /\ \E old \in SUBSET {s \in Taken : ~entry[s].busy} :
          /\ entry' = [s \in Slots |-> IF s \in old THEN Vacant ELSE entry[s]]
          /\ doomed' = doomed \cup {entry[s].client : s \in old}
          /\ timer' = (Taken \ old # {})
    /\ UNCHANGED <<config, changes, process, borrower, poolClosed>>

\* Close takes the busy ones too.
ClosePool ==
    /\ ~poolClosed
    /\ poolClosed' = TRUE
    /\ timer' = FALSE
    /\ entry' = [s \in Slots |-> Vacant]
    /\ doomed' = doomed \cup {entry[s].client : s \in Taken}
    /\ UNCHANGED <<config, changes, process, borrower>>

CloseDoomed ==
    /\ \E p \in doomed : doomed' = doomed \ {p} /\ Closed(p)
    /\ UNCHANGED <<config, changes, entry, borrower, timer, poolClosed>>

ProcessDies ==
    /\ \E p \in Processes : Alive(p) /\ process' = [process EXCEPT ![p].state = "dead"]
    /\ UNCHANGED <<config, changes, entry, borrower, doomed, timer, poolClosed>>

PoolNext ==
    \/ \E b \in Borrowers :
          Resolve(b) \/ Acquire(b) \/ Start(b) \/ Revalidate(b) \/ Reject(b) \/ Call(b)
    \/ Configure \/ InvalidateServer \/ SweepPool \/ ClosePool \/ CloseDoomed \/ ProcessDies

PoolSpec == PoolInit /\ [][PoolNext]_poolVars

-----------------------------------------------------------------------------
Hands(p) == {b \in Borrowers : borrower[b].client = p}

\* Every running process has one owner that will close it: its slot, the call
\* that borrowed it, or a sweep on its way. A process serves one call at a time,
\* of its own slot and launched as that call was checked for; it is not closed
\* under a call but by the shutdown of the pool; and pooled processes always
\* have a sweep scheduled, so that an idle one does not outlive its welcome.
SessionsOwned ==
    /\ \A p \in Processes :
          LET slots == {s \in Taken : entry[s].client = p} IN
          /\ Cardinality(slots) <= 1 /\ Cardinality(Hands(p)) <= 1
          /\ p \in doomed => slots = {}
          /\ Alive(p) => slots # {} \/ Hands(p) # {} \/ p \in doomed
          /\ Hands(p) # {} /\ (p \in doomed \/ process[p].state = "closed") => poolClosed
    /\ \A s \in Taken :
          LET e == entry[s] IN
          /\ process[e.client].state # "closed" /\ e.key = process[e.client].key
          /\ e.calls < MaxCalls
          /\ e.busy <=> Hands(e.client) # {}
          /\ \A b \in Hands(e.client) : borrower[b].slot = s /\ borrower[b].pooled
    /\ \A b \in Borrowers :
          borrower[b].client \in Processes => process[borrower[b].client].key = borrower[b].key
    /\ Taken # {} => timer /\ ~poolClosed
=============================================================================
