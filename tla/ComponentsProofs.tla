--------------------------- MODULE ComponentsProofs ---------------------------
(***************************************************************************)
(* Proofs about the components that ComponentsMC puts together, for every  *)
(* value of their constants. Each part has an inductive invariant of its   *)
(* own, named for the component: what its goroutines may rely on between   *)
(* two of their steps.                                                     *)
(***************************************************************************)
EXTENDS MessageQueue, ToolLedger, McpPool, Tunnel, Approvals, Gateway, FiniteSetTheorems, TLAPS

-----------------------------------------------------------------------------
(* The ledger of tool calls.                                               *)

ItemStatuses == {"none", "pending", "aborted"} \cup Recordable
InBatch == {"prefetch", "run", "reply", "record", "settle"}
InTurn == {"turn", "ledger", "decide"} \cup InBatch

ToolGroups == [status : {"none", "open", "settled", "aborted"}, expected : 0 .. Calls,
               item : [1 .. Calls -> ItemStatuses],
               result : [1 .. Calls -> {<<>>} \cup ((1 .. Turns) \X (1 .. Calls))]]

LoopRecords == [pc : InTurn \cup {"done", "parked", "groups"}, turn : 0 .. Turns, at : 1 .. Calls,
                early : SUBSET (1 .. Calls)]

LedgerTypes ==
    /\ group \in [1 .. Turns -> ToolGroups]
    /\ loop \in LoopRecords
    /\ runRow \in {"running", "completed", "error", "interrupted", "continuation_pending"}
    /\ ranTimes \in [1 .. Turns -> [1 .. Calls -> {0, 1}]]
    /\ replies \in SUBSET ((1 .. Turns) \X (1 .. Calls))

\* The row of a call: recorded only after it ran and its reply was stored.
Recorded(t, c) ==
    /\ group[t].result[c] \in {<<>>, <<t, c>>}
    /\ group[t].item[c] \in Recordable =>
         ranTimes[t][c] = 1 /\ group[t].result[c] = <<t, c>> /\ <<t, c>> \in replies

\* A group is left unsettled only by the last turn.
GroupSound(t) ==
    /\ \A c \in 1 .. Calls : Recorded(t, c)
    /\ group[t].status = "open" => \A c \in 1 .. group[t].expected : group[t].item[c] \in Recordable \cup {"pending"}
    /\ group[t].status = "settled" => \A c \in 1 .. group[t].expected : group[t].item[c] \in Recordable
    /\ group[t].status = "aborted" => \E c \in 1 .. group[t].expected : group[t].item[c] = "aborted"
    /\ group[t].status \in {"open", "aborted"} => t = loop.turn
    /\ t > loop.turn \/ (t = loop.turn /\ loop.pc \in {"ledger", "prefetch"}) =>
         \A c \in 1 .. Calls : ranTimes[t][c] = 0

AllSettled == \A t \in 1 .. Turns : group[t].status \in {"none", "settled"}

\* Calls from the one at hand on: those that ran are the early ones.
RanAhead(c) == ranTimes[loop.turn][c] = IF c \in loop.early THEN 1 ELSE 0

LoopSound ==
    /\ loop.pc \in InTurn => runRow = "running"
    /\ loop.pc = "parked" => runRow = "continuation_pending"
    /\ loop.pc \in {"turn", "decide"} \/ runRow = "continuation_pending" => AllSettled
    /\ loop.pc \in InBatch \cup {"ledger"} => loop.turn \in 1 .. Turns
    /\ loop.pc \in InBatch => group[loop.turn].status = "open" /\ loop.at \in 1 .. group[loop.turn].expected
    /\ loop.pc = "run" => \A c \in loop.at .. Calls : RanAhead(c)
    /\ loop.pc \in {"reply", "record"} =>
         ranTimes[loop.turn][loop.at] = 1 /\ \A c \in (loop.at + 1) .. Calls : RanAhead(c)
    /\ loop.pc = "record" => <<loop.turn, loop.at>> \in replies

LedgerInv == LedgerTypes /\ (\A t \in 1 .. Turns : GroupSound(t)) /\ LoopSound

LEMMA LedgerStarts == LedgerInit => LedgerInv
<1> SUFFICES ASSUME LedgerInit PROVE LedgerInv
  OBVIOUS
<1>1. Turns \in Nat /\ Calls \in Nat /\ 1 \in 1 .. Calls /\ 0 \in 0 .. Turns /\ 0 \in 0 .. Calls
  BY LedgerAssumption DEF LedgerAssumption
<1>2. NoGroup \in ToolGroups /\ NoGroup.status = "none" /\ NoGroup.expected = 0
      /\ \A c \in 1 .. Calls : NoGroup.item[c] = "none" /\ NoGroup.result[c] = <<>>
  BY <1>1 DEF NoGroup, ToolGroups, ItemStatuses
<1>3. \A t \in 1 .. Turns : group[t] = NoGroup
  BY DEF LedgerInit
<1>4. /\ loop = [pc |-> "turn", turn |-> 0, at |-> 1, early |-> {}] /\ runRow = "running" /\ replies = {}
      /\ ranTimes = [t \in 1 .. Turns |-> [c \in 1 .. Calls |-> 0]]
  BY DEF LedgerInit
<1>5. ranTimes \in [1 .. Turns -> [1 .. Calls -> {0, 1}]]
      /\ \A t \in 1 .. Turns, c \in 1 .. Calls : ranTimes[t][c] = 0
  BY <1>4
<1>6. LedgerTypes
  BY <1>1, <1>2, <1>4, <1>5 DEF LedgerInit, LedgerTypes, LoopRecords, InTurn
<1>7. ASSUME NEW t \in 1 .. Turns PROVE GroupSound(t)
  BY <1>2, <1>3, <1>5 DEF GroupSound, Recorded, Recordable
<1>8. LoopSound
  BY <1>2, <1>3, <1>4 DEF LoopSound, InTurn, InBatch, AllSettled
<1> QED
  BY <1>6, <1>7, <1>8 DEF LedgerInv

\* The group of t is left alone, and so are its calls.
LEMMA GroupStays ==
    ASSUME LedgerInv, NEW t \in 1 .. Turns, group'[t] = group[t], replies \subseteq replies',
           \A c \in 1 .. Calls : ranTimes'[t][c] = ranTimes[t][c],
           loop'.turn = loop.turn \/ (loop'.turn = loop.turn + 1 /\ AllSettled),
           loop'.pc \in {"ledger", "prefetch"} =>
               loop.pc \in {"ledger", "prefetch"} \/ loop'.turn = loop.turn + 1
    PROVE  GroupSound(t)'
<1>1. GroupSound(t) /\ loop.turn \in Nat
  BY LedgerAssumption DEF LedgerInv, LedgerTypes, LoopRecords, LedgerAssumption
<1>2. ASSUME NEW c \in 1 .. Calls PROVE Recorded(t, c)'
  BY <1>1 DEF GroupSound, Recorded
<1>3. group[t].status \in {"open", "aborted"} => loop'.turn = loop.turn
  BY DEF AllSettled
<1> QED
  BY <1>1, <1>2, <1>3 DEF GroupSound

\* A step that only moves the loop on within the same turn.
LEMMA LoopMoves ==
    ASSUME LedgerInv, LedgerTypes', UNCHANGED <<group, ranTimes>>, replies \subseteq replies',
           loop'.turn = loop.turn, loop'.pc \notin {"ledger", "prefetch"}, LoopSound'
    PROVE  LedgerInv'
<1>1. \A t \in 1 .. Turns : GroupSound(t)'
  BY GroupStays
<1> QED
  BY <1>1 DEF LedgerInv

LEMMA BarrierIsSettled == LedgerInv => (BarrierHolds <=> AllSettled)
<1> SUFFICES ASSUME LedgerInv PROVE BarrierHolds <=> AllSettled
  OBVIOUS
<1>1. ASSUME NEW t \in 1 .. Turns, group[t].status = "settled" PROVE Settleable(group[t])
  BY <1>1 DEF LedgerInv, GroupSound, Settleable, Pending, Recordable
<1>2. \A t \in 1 .. Turns : group[t].status \in {"none", "open", "settled", "aborted"}
  BY DEF LedgerInv, LedgerTypes, ToolGroups
<1> QED
  BY <1>1, <1>2 DEF BarrierHolds, AllSettled

LEMMA LedgerHoldsByInv == LedgerInv => LedgerHolds
<1> SUFFICES ASSUME LedgerInv PROVE LedgerHolds
  OBVIOUS
<1>1. ASSUME NEW t \in 1 .. Turns
      PROVE  LET g == group[t] IN
             /\ \A c \in 1 .. Calls :
                  /\ ranTimes[t][c] <= 1
                  /\ g.item[c] \in Recordable => ranTimes[t][c] = 1 /\ g.result[c] \in replies
                  /\ g.result[c] # <<>> => \A d \in (1 .. Calls) \ {c} : g.result[d] # g.result[c]
             /\ g.status = "settled" => \A c \in 1 .. g.expected : g.item[c] \in Recordable
             /\ g.status = "aborted" => \E c \in 1 .. g.expected : g.item[c] = "aborted"
             /\ g.status \in {"open", "aborted"} => t = loop.turn
  <2>1. GroupSound(t)
    BY DEF LedgerInv
  <2>2. ASSUME NEW c \in 1 .. Calls
        PROVE  /\ ranTimes[t][c] <= 1
               /\ group[t].item[c] \in Recordable => ranTimes[t][c] = 1 /\ group[t].result[c] \in replies
               /\ group[t].result[c] \in {<<>>, <<t, c>>}
    <3>1. Recorded(t, c)
      BY <2>1 DEF GroupSound
    <3>2. ranTimes \in [1 .. Turns -> [1 .. Calls -> {0, 1}]]
      BY DEF LedgerInv, LedgerTypes
    <3>3. ranTimes[t] \in [1 .. Calls -> {0, 1}]
      BY <3>2
    <3>4. ranTimes[t][c] \in {0, 1}
      BY <3>3
    <3> QED
      BY <3>1, <3>4 DEF Recorded
  <2>3. ASSUME NEW c \in 1 .. Calls, group[t].result[c] # <<>>, NEW d \in (1 .. Calls) \ {c}
        PROVE  group[t].result[d] # group[t].result[c]
    <3>1. <<t, c>> # <<t, d>>
      OBVIOUS
    <3> QED
      BY <2>2, <2>3, <3>1
  <2> QED
    BY <2>1, <2>2, <2>3 DEF GroupSound
<1>2. runRow = "continuation_pending" \/ (runRow = "running" /\ loop.pc \in {"turn", "decide"}) => BarrierHolds
  BY BarrierIsSettled DEF LedgerInv, LoopSound
<1> QED
  BY <1>1, <1>2 DEF LedgerHolds

LEMMA LoopStepKeeps ==
    ASSUME LedgerInv, Decide \/ ResumeParked \/ Abandon \/ LedgerCrash \/ RecoverRuns
    PROVE  LedgerInv'
<1>1. LedgerTypes /\ LoopSound
  BY DEF LedgerInv
<1>2. UNCHANGED <<group, ranTimes, replies>>
  BY DEF Decide, ResumeParked, Abandon, LedgerCrash, RecoverRuns
<1>3. /\ runRow' \in {"running", "completed", "error", "interrupted", "continuation_pending"}
      /\ loop' \in LoopRecords /\ loop'.pc \in {"turn", "parked", "done", "groups"} /\ loop'.turn = loop.turn
  BY <1>1 DEF LedgerTypes, LoopRecords, InTurn, Decide, ResumeParked, Abandon, LedgerCrash, RecoverRuns, EndRun
<1>4. LedgerTypes'
  BY <1>1, <1>2, <1>3 DEF LedgerTypes, LoopRecords, InTurn
<1>5. LoopSound'
  <2>1. CASE Decide
    BY <1>1, <2>1, BarrierIsSettled DEF LoopSound, Decide, EndRun, AllSettled, LedgerTypes, LoopRecords, InTurn, InBatch
  <2>2. CASE ResumeParked
    BY <1>1, <2>2 DEF LoopSound, ResumeParked, AllSettled, LedgerTypes, LoopRecords, InTurn, InBatch
  <2>3. CASE Abandon
    BY <1>1, <2>3 DEF LoopSound, Abandon, EndRun, AllSettled, LedgerTypes, LoopRecords, InTurn, InBatch
  <2>4. CASE LedgerCrash
    BY <1>1, <2>4 DEF LoopSound, LedgerCrash, AllSettled, LedgerTypes, LoopRecords, InTurn, InBatch
  <2>5. CASE RecoverRuns
    BY <1>1, <2>5 DEF LoopSound, RecoverRuns, AllSettled, LedgerTypes, LoopRecords, InTurn, InBatch
  <2> QED
    BY <2>1, <2>2, <2>3, <2>4, <2>5
<1> QED
  BY <1>2, <1>3, <1>4, <1>5, LoopMoves

LEMMA GenerateKeeps == ASSUME LedgerInv, Generate PROVE LedgerInv'
<1>1. LedgerTypes /\ LoopSound /\ Turns \in Nat /\ AllSettled
  BY LedgerAssumption DEF LedgerInv, LedgerAssumption, LoopSound, Generate
<1>2. UNCHANGED <<group, ranTimes, replies>>
  BY DEF Generate
<1>3. CASE \E status \in {"error", "completed"} : EndRun(status)
  <2>1. LedgerTypes' /\ loop'.turn = loop.turn /\ loop'.pc = "done" /\ runRow' \in {"error", "completed"}
    BY <1>1, <1>2, <1>3 DEF EndRun, LedgerTypes, LoopRecords
  <2>2. LoopSound'
    BY <1>1, <1>2, <2>1 DEF LoopSound, AllSettled, InTurn, InBatch
  <2> QED
    BY <1>2, <2>1, <2>2, LoopMoves
<1>4. CASE loop.turn < Turns /\ loop' = [loop EXCEPT !.pc = "ledger", !.turn = @ + 1] /\ UNCHANGED runRow
  <2>1. loop'.pc = "ledger" /\ loop'.turn = loop.turn + 1 /\ loop'.at = loop.at /\ loop'.early = loop.early
        /\ loop'.turn \in 1 .. Turns
    BY <1>1, <1>4 DEF LedgerTypes, LoopRecords
  <2>2. LedgerTypes'
    <3>1. loop \in LoopRecords /\ loop.turn + 1 \in 0 .. Turns
      BY <1>1, <1>4 DEF LedgerTypes, LoopRecords
    <3>2. loop' \in LoopRecords
      BY <1>4, <3>1 DEF LoopRecords, InTurn
    <3> QED
      BY <1>1, <1>2, <1>4, <3>2 DEF LedgerTypes
  <2>3. runRow = "running"
    BY <1>1 DEF LoopSound, Generate, InTurn
  <2>4. LoopSound'
    BY <1>1, <1>2, <1>4, <2>1, <2>3 DEF LoopSound, AllSettled, InTurn, InBatch
  <2>5. \A t \in 1 .. Turns : GroupSound(t)'
    BY <1>1, <1>2, <2>1, GroupStays
  <2> QED
    BY <2>2, <2>4, <2>5 DEF LedgerInv
<1> QED
  BY <1>3, <1>4 DEF Generate

LEMMA CreateKeeps == ASSUME LedgerInv, CreateToolExecutionGroup PROVE LedgerInv'
<1>0. PICK T \in 1 .. Turns : T = loop.turn
  BY DEF LedgerInv, LoopSound, CreateToolExecutionGroup
<1>1. LedgerTypes /\ LoopSound /\ Calls \in Nat \ {0} /\ loop.pc = "ledger" /\ GroupSound(T)
  BY LedgerAssumption DEF LedgerInv, LedgerAssumption, CreateToolExecutionGroup
<1>2. UNCHANGED <<runRow, ranTimes, replies>> /\ loop' = [loop EXCEPT !.pc = "prefetch", !.at = 1]
  BY DEF CreateToolExecutionGroup
<1>3. PICK n \in 1 .. Calls :
        group' = [group EXCEPT ![T] =
          [status |-> "open", expected |-> n, item |-> [c \in 1 .. Calls |-> IF c <= n THEN "pending" ELSE "none"],
           result |-> [c \in 1 .. Calls |-> <<>>]]]
  BY <1>0 DEF CreateToolExecutionGroup
<1> DEFINE g == [status |-> "open", expected |-> n,
                 item |-> [c \in 1 .. Calls |-> IF c <= n THEN "pending" ELSE "none"],
                 result |-> [c \in 1 .. Calls |-> <<>>]]
<1>4. /\ g \in ToolGroups /\ g.status = "open" /\ g.expected = n
      /\ \A c \in 1 .. Calls : g.item[c] \in {"pending", "none"} /\ g.result[c] = <<>>
      /\ \A c \in 1 .. n : g.item[c] = "pending"
  BY <1>1 DEF ToolGroups, ItemStatuses
<1> HIDE DEF g
<1>5. group' = [group EXCEPT ![T] = g]
  BY <1>3 DEF g
<1>6. group'[T] = g /\ \A t \in (1 .. Turns) \ {T} : group'[t] = group[t]
  BY <1>1, <1>5 DEF LedgerTypes
<1>7. loop'.pc = "prefetch" /\ loop'.at = 1 /\ loop'.turn = T /\ loop'.early = loop.early
  BY <1>0, <1>1, <1>2 DEF LedgerTypes, LoopRecords
<1>8. LedgerTypes'
  <2>1. group' \in [1 .. Turns -> ToolGroups]
    BY <1>1, <1>4, <1>5 DEF LedgerTypes
  <2>2. 1 \in 1 .. Calls
    BY <1>1
  <2> QED
    BY <1>1, <1>2, <2>1, <2>2 DEF LedgerTypes, LoopRecords, InTurn, InBatch
<1>9. GroupSound(T)'
  BY <1>0, <1>1, <1>2, <1>4, <1>6, <1>7 DEF GroupSound, Recorded, Recordable
<1>10. \A t \in (1 .. Turns) \ {T} : GroupSound(t)'
  BY <1>0, <1>1, <1>2, <1>6, <1>7, GroupStays
<1>11. LoopSound'
  BY <1>0, <1>1, <1>2, <1>4, <1>6, <1>7 DEF LoopSound, InTurn, InBatch
<1> QED
  BY <1>8, <1>9, <1>10, <1>11 DEF LedgerInv

LEMMA PrefetchKeeps == ASSUME LedgerInv, Prefetch PROVE LedgerInv'
<1>0. PICK T \in 1 .. Turns : T = loop.turn
  BY DEF LedgerInv, LoopSound, Prefetch, InBatch
<1>1. /\ LedgerTypes /\ LoopSound /\ Calls \in Nat \ {0} /\ loop.pc = "prefetch" /\ group[T].status = "open"
      /\ loop.at \in 1 .. group[T].expected /\ GroupSound(T)
  BY <1>0, LedgerAssumption DEF LedgerInv, LedgerAssumption, LoopSound, Prefetch, InBatch
<1>2. UNCHANGED <<group, runRow, replies>>
  BY DEF Prefetch
<1>3. PICK early \in SUBSET (1 .. group[T].expected) :
        /\ ranTimes' = [ranTimes EXCEPT ![T] = [c \in 1 .. Calls |-> @[c] + (IF c \in early THEN 1 ELSE 0)]]
        /\ loop' = [loop EXCEPT !.pc = "run", !.early = early]
  BY <1>0, Zenon DEF Prefetch
<1>4. \A c \in 1 .. Calls : ranTimes[T][c] = 0
  BY <1>0, <1>1 DEF GroupSound
<1>5. /\ \A c \in 1 .. Calls : ranTimes'[T][c] = IF c \in early THEN 1 ELSE 0
      /\ \A t \in (1 .. Turns) \ {T} : ranTimes'[t] = ranTimes[t]
  BY <1>1, <1>3, <1>4 DEF LedgerTypes
<1>6. group[T] \in ToolGroups /\ early \in SUBSET (1 .. Calls)
  BY <1>1 DEF LedgerTypes, ToolGroups
<1>7. loop' \in LoopRecords /\ loop'.pc = "run" /\ loop'.turn = loop.turn /\ loop'.at = loop.at /\ loop'.early = early
  BY <1>1, <1>3, <1>6 DEF LedgerTypes, LoopRecords, InTurn, InBatch
<1>8. LedgerTypes'
  <2> DEFINE ran == [c \in 1 .. Calls |-> ranTimes[T][c] + (IF c \in early THEN 1 ELSE 0)]
  <2>1. ran \in [1 .. Calls -> {0, 1}]
    BY <1>4
  <2>2. ranTimes' = [ranTimes EXCEPT ![T] = ran]
    BY <1>3
  <2> HIDE DEF ran
  <2>3. ranTimes' \in [1 .. Turns -> [1 .. Calls -> {0, 1}]]
    BY <1>1, <2>1, <2>2 DEF LedgerTypes
  <2> QED
    BY <1>1, <1>2, <1>7, <2>3 DEF LedgerTypes
<1>9. GroupSound(T)'
  BY <1>0, <1>1, <1>2, <1>4, <1>5, <1>7 DEF GroupSound, Recorded
<1>10. \A t \in (1 .. Turns) \ {T} : GroupSound(t)'
  BY <1>0, <1>1, <1>2, <1>5, <1>7, GroupStays
<1>11. LoopSound'
  <2>1. \A c \in 1 .. Calls : ranTimes'[loop'.turn][c] = IF c \in loop'.early THEN 1 ELSE 0
    BY <1>0, <1>5, <1>7
  <2>2. loop'.at \in 1 .. Calls /\ runRow' = "running"
    BY <1>1, <1>2, <1>7 DEF LoopRecords, LoopSound, InTurn, InBatch
  <2> QED
    BY <1>0, <1>1, <1>2, <1>7, <2>1, <2>2 DEF LoopSound, RanAhead, InTurn, InBatch
<1> QED
  BY <1>8, <1>9, <1>10, <1>11 DEF LedgerInv

LEMMA ExecuteKeeps == ASSUME LedgerInv, Execute PROVE LedgerInv'
<1>0. PICK T \in 1 .. Turns : T = loop.turn
  BY DEF LedgerInv, LoopSound, Execute, InBatch
<1> DEFINE a == loop.at
<1>1. /\ LedgerTypes /\ LoopSound /\ Calls \in Nat \ {0} /\ loop.pc = "run" /\ group[T].status = "open"
      /\ a \in 1 .. group[T].expected /\ GroupSound(T) /\ a \in 1 .. Calls
  BY <1>0, LedgerAssumption DEF LedgerInv, LedgerTypes, LoopRecords, LedgerAssumption, LoopSound, Execute, InBatch
<1>2. UNCHANGED <<group, runRow, replies>> /\ loop' = [loop EXCEPT !.pc = "reply"]
  BY DEF Execute
<1>3. \A c \in a .. Calls : ranTimes[T][c] = IF c \in loop.early THEN 1 ELSE 0
  BY <1>0, <1>1 DEF LoopSound, RanAhead
<1>4. ranTimes[T][a] = IF a \in loop.early THEN 1 ELSE 0
  BY <1>1, <1>3
<1>5. /\ ranTimes'[T][a] = 1 /\ \A c \in (1 .. Calls) \ {a} : ranTimes'[T][c] = ranTimes[T][c]
      /\ \A t \in (1 .. Turns) \ {T} : ranTimes'[t] = ranTimes[t]
      /\ ranTimes' \in [1 .. Turns -> [1 .. Calls -> {0, 1}]]
  <2>1. CASE a \in loop.early
    BY <1>1, <1>4, <2>1 DEF Execute, LedgerTypes
  <2>2. CASE a \notin loop.early
    <3>1. ranTimes' = [ranTimes EXCEPT ![T] = [ranTimes[T] EXCEPT ![a] = 1]]
      BY <1>0, <1>1, <1>4, <2>2 DEF Execute, LedgerTypes
    <3> QED
      BY <1>1, <3>1 DEF LedgerTypes
  <2> QED
    BY <2>1, <2>2
<1>6. /\ loop' \in LoopRecords /\ loop'.pc = "reply" /\ loop'.turn = loop.turn /\ loop'.at = loop.at
      /\ loop'.early = loop.early
  BY <1>1, <1>2 DEF LedgerTypes, LoopRecords, InTurn, InBatch
<1>7. LedgerTypes'
  BY <1>1, <1>2, <1>5, <1>6 DEF LedgerTypes
<1>8. GroupSound(T)'
  <2>1. \A c \in 1 .. Calls : Recorded(T, c)'
    <3> SUFFICES ASSUME NEW c \in 1 .. Calls PROVE Recorded(T, c)'
      OBVIOUS
    <3>1. Recorded(T, c)
      BY <1>1 DEF GroupSound
    <3>2. ranTimes[T][c] = 1 => ranTimes'[T][c] = 1
      BY <1>5
    <3> QED
      BY <1>2, <3>1, <3>2 DEF Recorded
  <2> QED
    BY <1>0, <1>1, <1>2, <1>6, <2>1 DEF GroupSound
<1>9. \A t \in (1 .. Turns) \ {T} : GroupSound(t)'
  BY <1>0, <1>2, <1>5, <1>6, GroupStays
<1>10. LoopSound'
  <2>1. \A c \in (a + 1) .. Calls : ranTimes'[T][c] = IF c \in loop.early THEN 1 ELSE 0
    <3> SUFFICES ASSUME NEW c \in (a + 1) .. Calls PROVE ranTimes'[T][c] = IF c \in loop.early THEN 1 ELSE 0
      OBVIOUS
    <3>1. c \in a .. Calls /\ c \in (1 .. Calls) \ {a}
      BY <1>1
    <3> QED
      BY <1>3, <1>5, <3>1
  <2> QED
    BY <1>0, <1>1, <1>2, <1>5, <1>6, <2>1 DEF LoopSound, RanAhead, InTurn, InBatch
<1> QED
  BY <1>7, <1>8, <1>9, <1>10 DEF LedgerInv

LEMMA ReplyKeeps == ASSUME LedgerInv, AddReply PROVE LedgerInv'
<1>1. /\ LedgerTypes /\ LoopSound /\ loop.pc = "reply" /\ loop.turn \in 1 .. Turns /\ loop.at \in 1 .. Calls
  BY DEF LedgerInv, LedgerTypes, LoopRecords, LoopSound, AddReply, InBatch
<1>2. /\ UNCHANGED <<group, runRow, ranTimes>> /\ loop' = [loop EXCEPT !.pc = "record"]
      /\ replies' = replies \cup {<<loop.turn, loop.at>>}
  BY DEF AddReply
<1>3. /\ loop' \in LoopRecords /\ loop'.pc = "record" /\ loop'.turn = loop.turn /\ loop'.at = loop.at
      /\ loop'.early = loop.early
  BY <1>1, <1>2 DEF LedgerTypes, LoopRecords, InTurn, InBatch
<1>4. LedgerTypes'
  BY <1>1, <1>2, <1>3 DEF LedgerTypes
<1>5. LoopSound'
  BY <1>1, <1>2, <1>3 DEF LoopSound, RanAhead, InTurn, InBatch
<1> QED
  BY <1>2, <1>3, <1>4, <1>5, LoopMoves

LEMMA RecordKeeps == ASSUME LedgerInv, RecordToolExecutionItemTerminal PROVE LedgerInv'
<1>0. PICK T \in 1 .. Turns : T = loop.turn
  BY DEF LedgerInv, LoopSound, RecordToolExecutionItemTerminal, InBatch
<1> DEFINE a == loop.at
<1>1. /\ LedgerTypes /\ LoopSound /\ Calls \in Nat \ {0} /\ loop.pc = "record" /\ group[T].status = "open"
      /\ a \in 1 .. group[T].expected /\ GroupSound(T) /\ a \in 1 .. Calls /\ <<T, a>> \in replies
      /\ ranTimes[T][a] = 1 /\ group[T] \in ToolGroups /\ group[T].expected \in 0 .. Calls
  BY <1>0, LedgerAssumption DEF LedgerInv, LedgerTypes, LoopRecords, ToolGroups, LedgerAssumption, LoopSound,
                                RecordToolExecutionItemTerminal, InBatch
<1>2. /\ UNCHANGED <<runRow, ranTimes, replies>>
      /\ loop' = IF a < group[T].expected THEN [loop EXCEPT !.pc = "run", !.at = a + 1]
                 ELSE [loop EXCEPT !.pc = "settle"]
  BY <1>0, Zenon DEF RecordToolExecutionItemTerminal
<1>3. PICK s \in Recordable : group' = [group EXCEPT ![T].item[a] = s, ![T].result[a] = <<T, a>>]
  BY <1>0, Zenon DEF RecordToolExecutionItemTerminal
<1> DEFINE g == [group[T] EXCEPT !.item = [@ EXCEPT ![a] = s], !.result = [@ EXCEPT ![a] = <<T, a>>]]
<1>4. group' = [group EXCEPT ![T] = g]
  BY <1>1, <1>3 DEF LedgerTypes, ToolGroups
<1>5. /\ g \in ToolGroups /\ g.status = "open" /\ g.expected = group[T].expected
      /\ \A c \in 1 .. Calls : g.item[c] = IF c = a THEN s ELSE group[T].item[c]
      /\ \A c \in 1 .. Calls : g.result[c] = IF c = a THEN <<T, a>> ELSE group[T].result[c]
  BY <1>1 DEF ToolGroups, ItemStatuses
<1> HIDE DEF g
<1>6. group'[T] = g /\ (\A t \in (1 .. Turns) \ {T} : group'[t] = group[t]) /\ group' \in [1 .. Turns -> ToolGroups]
  BY <1>1, <1>4, <1>5 DEF LedgerTypes
<1>7. /\ loop' \in LoopRecords /\ loop'.turn = loop.turn /\ loop'.early = loop.early
      /\ \/ loop'.pc = "run" /\ loop'.at = a + 1 /\ a < group[T].expected
         \/ loop'.pc = "settle" /\ loop'.at = a
  <2>1. loop \in LoopRecords /\ (a < group[T].expected => a + 1 \in 1 .. Calls)
    BY <1>1 DEF LedgerTypes
  <2>2. CASE a < group[T].expected
    BY <1>2, <2>1, <2>2 DEF LoopRecords, InTurn, InBatch
  <2>3. CASE ~(a < group[T].expected)
    BY <1>2, <2>1, <2>3 DEF LoopRecords, InTurn, InBatch
  <2> QED
    BY <2>2, <2>3
<1>8. LedgerTypes'
  BY <1>1, <1>2, <1>6, <1>7 DEF LedgerTypes
<1>9. GroupSound(T)'
  <2>1. \A c \in 1 .. Calls : Recorded(T, c)'
    <3> SUFFICES ASSUME NEW c \in 1 .. Calls PROVE Recorded(T, c)'
      OBVIOUS
    <3>1. Recorded(T, c)
      BY <1>1 DEF GroupSound
    <3> QED
      BY <1>1, <1>2, <1>5, <1>6, <3>1 DEF Recorded
  <2>2. \A c \in 1 .. g.expected : g.item[c] \in Recordable \cup {"pending"}
    BY <1>1, <1>5 DEF GroupSound
  <2> QED
    BY <1>0, <1>5, <1>6, <1>7, <2>1, <2>2 DEF GroupSound
<1>10. \A t \in (1 .. Turns) \ {T} : GroupSound(t)'
  BY <1>0, <1>2, <1>6, <1>7, GroupStays
<1>11. LoopSound'
  <2>1. \A c \in (a + 1) .. Calls : ranTimes'[T][c] = IF c \in loop.early THEN 1 ELSE 0
    BY <1>0, <1>1, <1>2 DEF LoopSound, RanAhead
  <2>2. loop'.at \in 1 .. g.expected /\ runRow' = "running" /\ loop'.turn = T
    BY <1>0, <1>1, <1>2, <1>5, <1>7 DEF LoopSound, InTurn, InBatch
  <2> QED
    BY <1>5, <1>6, <1>7, <2>1, <2>2 DEF LoopSound, RanAhead, InTurn, InBatch
<1> QED
  BY <1>8, <1>9, <1>10, <1>11 DEF LedgerInv

\* A group that settles is complete; one that is aborted lost a call.
LEMMA GroupCloses ==
    ASSUME LedgerInv, NEW T \in 1 .. Turns, group[T].status \in {"open", "settled"}, T = loop.turn,
           SettleToolExecutionGroup(T) \/ (~CanSettle(group[T]) /\ AbortToolExecutionGroup(T)),
           UNCHANGED <<ranTimes, replies>>, loop'.turn = loop.turn, loop'.pc \notin {"ledger", "prefetch"}
    PROVE  /\ group' \in [1 .. Turns -> ToolGroups] /\ \A t \in 1 .. Turns : GroupSound(t)'
           /\ \A t \in (1 .. Turns) \ {T} : group'[t] = group[t]
           /\ SettleToolExecutionGroup(T) => group'[T].status = "settled"
<1>1. group \in [1 .. Turns -> ToolGroups] /\ group[T] \in ToolGroups /\ GroupSound(T)
      /\ group[T].expected \in 0 .. Calls /\ Calls \in Nat
  BY LedgerAssumption DEF LedgerInv, LedgerTypes, ToolGroups, LedgerAssumption
<1>2. CASE SettleToolExecutionGroup(T)
  <2> DEFINE g == [group[T] EXCEPT !.status = "settled"]
  <2>1. g \in ToolGroups /\ g.status = "settled" /\ g.item = group[T].item /\ g.result = group[T].result
        /\ g.expected = group[T].expected
    BY <1>1 DEF ToolGroups
  <2>2. group' = [group EXCEPT ![T] = g]
    BY <1>2 DEF SettleToolExecutionGroup
  <2> HIDE DEF g
  <2>3. /\ group'[T] = g /\ (\A t \in (1 .. Turns) \ {T} : group'[t] = group[t])
        /\ group' \in [1 .. Turns -> ToolGroups]
    BY <1>1, <2>1, <2>2
  <2>4. \A c \in 1 .. g.expected : g.item[c] \in Recordable
    BY <1>1, <1>2, <2>1 DEF SettleToolExecutionGroup, CanSettle, Settleable, Pending, GroupSound
  <2>5. \A c \in 1 .. Calls : Recorded(T, c)'
    BY <1>1, <2>1, <2>3 DEF GroupSound, Recorded
  <2>6. GroupSound(T)'
    BY <2>1, <2>3, <2>4, <2>5 DEF GroupSound
  <2>7. \A t \in (1 .. Turns) \ {T} : GroupSound(t)'
    BY <2>3, GroupStays
  <2> QED
    BY <2>1, <2>3, <2>6, <2>7
<1>3. CASE ~CanSettle(group[T]) /\ AbortToolExecutionGroup(T)
  <2> DEFINE items == [c \in 1 .. Calls |-> IF group[T].item[c] = "pending" THEN "aborted" ELSE group[T].item[c]]
             g == [group[T] EXCEPT !.status = "aborted", !.item = items]
  <2>1. items \in [1 .. Calls -> ItemStatuses]
    BY <1>1 DEF ToolGroups, ItemStatuses
  <2>2. \A c \in 1 .. Calls : items[c] = IF group[T].item[c] = "pending" THEN "aborted" ELSE group[T].item[c]
    OBVIOUS
  <2>3. group' = [group EXCEPT ![T].status = "aborted", ![T].item = items]
    BY <1>3 DEF AbortToolExecutionGroup
  <2> HIDE DEF items
  <2>4. group' = [group EXCEPT ![T] = g]
    BY <1>1, <2>3
  <2>5. g \in ToolGroups /\ g.status = "aborted" /\ g.item = items /\ g.result = group[T].result
        /\ g.expected = group[T].expected
    BY <1>1, <2>1 DEF ToolGroups
  <2> HIDE DEF g
  <2>6. /\ group'[T] = g /\ (\A t \in (1 .. Turns) \ {T} : group'[t] = group[t])
        /\ group' \in [1 .. Turns -> ToolGroups]
    BY <1>1, <2>4, <2>5
  <2>7. \E c \in 1 .. g.expected : g.item[c] = "aborted"
    <3>1. PICK c \in 1 .. group[T].expected : group[T].item[c] = "pending"
      BY <1>3 DEF AbortToolExecutionGroup, CanSettle, Settleable, Pending
    <3> QED
      BY <1>1, <2>2, <2>5, <3>1
  <2>8. \A c \in 1 .. Calls : Recorded(T, c)'
    <3> SUFFICES ASSUME NEW c \in 1 .. Calls PROVE Recorded(T, c)'
      OBVIOUS
    <3>1. Recorded(T, c)
      BY <1>1 DEF GroupSound
    <3> QED
      BY <2>2, <2>5, <2>6, <3>1 DEF Recorded, Recordable
  <2>9. GroupSound(T)'
    BY <2>5, <2>6, <2>7, <2>8 DEF GroupSound
  <2>10. \A t \in (1 .. Turns) \ {T} : GroupSound(t)'
    BY <2>6, GroupStays
  <2> QED
    BY <1>3, <2>6, <2>9, <2>10 DEF SettleToolExecutionGroup, AbortToolExecutionGroup
<1> QED
  BY <1>2, <1>3

LEMMA SettleKeeps == ASSUME LedgerInv, Settle PROVE LedgerInv'
<1>0. PICK T \in 1 .. Turns : T = loop.turn
  BY DEF LedgerInv, LoopSound, Settle, InBatch
<1>1. LedgerTypes /\ LoopSound /\ loop.pc = "settle" /\ group[T].status = "open"
  BY <1>0 DEF LedgerInv, LoopSound, Settle, InBatch
<1>2. /\ UNCHANGED <<runRow, ranTimes, replies>> /\ loop' = [loop EXCEPT !.pc = "decide", !.early = {}]
      /\ SettleToolExecutionGroup(T)
  BY <1>0 DEF Settle
<1>3. loop' \in LoopRecords /\ loop'.pc = "decide" /\ loop'.turn = loop.turn
  BY <1>1, <1>2 DEF LedgerTypes, LoopRecords, InTurn, InBatch
<1>4. /\ group' \in [1 .. Turns -> ToolGroups] /\ \A t \in 1 .. Turns : GroupSound(t)'
      /\ \A t \in (1 .. Turns) \ {T} : group'[t] = group[t]
      /\ group'[T].status = "settled"
  BY <1>0, <1>1, <1>2, <1>3, GroupCloses
<1>5. AllSettled'
  BY <1>0, <1>4 DEF LedgerInv, GroupSound, AllSettled, LedgerTypes, ToolGroups
<1>6. LedgerTypes'
  BY <1>1, <1>2, <1>3, <1>4 DEF LedgerTypes
<1>7. LoopSound'
  BY <1>1, <1>2, <1>3, <1>5 DEF LoopSound, InTurn, InBatch
<1> QED
  BY <1>4, <1>6, <1>7 DEF LedgerInv

LEMMA RecoverGroupKeeps == ASSUME LedgerInv, RecoverGroup PROVE LedgerInv'
<1>1. PICK T \in Open : IF CanSettle(group[T]) THEN SettleToolExecutionGroup(T) ELSE AbortToolExecutionGroup(T)
  BY DEF RecoverGroup
<1>2. T \in 1 .. Turns /\ group[T].status = "open" /\ T = loop.turn
  BY DEF Open, LedgerInv, GroupSound
<1>3. LedgerTypes /\ LoopSound /\ UNCHANGED <<loop, runRow, ranTimes, replies>> /\ loop.pc = "groups"
  BY DEF LedgerInv, RecoverGroup
<1>4. group' \in [1 .. Turns -> ToolGroups] /\ \A t \in 1 .. Turns : GroupSound(t)'
  BY <1>1, <1>2, <1>3, GroupCloses
<1>5. LedgerTypes'
  BY <1>3, <1>4 DEF LedgerTypes
<1>6. LoopSound'
  BY <1>2, <1>3 DEF LoopSound, AllSettled, InTurn, InBatch
<1> QED
  BY <1>4, <1>5, <1>6 DEF LedgerInv

\* The writes of the segment loop (continuation.go), of the ledger
\* (tool_execution_groups.go) and of the startup recovery, cut by a crash or a
\* failure between any two: for any number of turns, calls and crashes no call
\* is run twice, a recorded call ran and was answered, a settled group is
\* complete, and the settlement barrier never refuses a run that goes on.
THEOREM LedgerHoldsAlways == LedgerSpec => []LedgerHolds
<1>1. LedgerInv /\ [LedgerNext]_ledgerVars => LedgerInv'
  <2> SUFFICES ASSUME LedgerInv, [LedgerNext]_ledgerVars PROVE LedgerInv'
    OBVIOUS
  <2>1. CASE Generate \/ CreateToolExecutionGroup \/ Prefetch \/ Execute \/ AddReply
    BY <2>1, GenerateKeeps, CreateKeeps, PrefetchKeeps, ExecuteKeeps, ReplyKeeps, Zenon
  <2>2. CASE RecordToolExecutionItemTerminal \/ Settle \/ RecoverGroup
    BY <2>2, RecordKeeps, SettleKeeps, RecoverGroupKeeps, Zenon
  <2>3. CASE Decide \/ ResumeParked \/ Abandon \/ LedgerCrash \/ RecoverRuns
    BY <2>3, LoopStepKeeps
  <2>4. CASE UNCHANGED ledgerVars
    BY <2>4 DEF ledgerVars, LedgerInv, LedgerTypes, GroupSound, Recorded, LoopSound, AllSettled, RanAhead
  <2> QED
    BY <2>1, <2>2, <2>3, <2>4, Zenon DEF LedgerNext
<1> QED
  BY <1>1, LedgerStarts, LedgerHoldsByInv, PTL DEF LedgerSpec

-----------------------------------------------------------------------------
(* The MCP process pool.                                                   *)

PoolEntries == [client : Processes, key : LaunchKeys, busy : BOOLEAN, calls : 1 .. (MaxCalls - 1)]
PoolProcesses == [state : {"live", "dead", "closed"}, key : LaunchKeys]
PoolBorrowers == [pc : {"acquire", "start"}, slot : Slots, key : LaunchKeys, client : {"none"}, pooled : {FALSE}]
                 \cup [pc : {"check", "call"}, slot : Slots, key : LaunchKeys, client : Processes, pooled : BOOLEAN]

PoolTypes ==
    /\ entry \in [Slots -> {Vacant} \cup PoolEntries]
    /\ process \in [Processes -> {Unstarted} \cup PoolProcesses]
    /\ borrower \in [Borrowers -> {Away} \cup PoolBorrowers]
    /\ doomed \subseteq Processes
    /\ timer \in BOOLEAN /\ poolClosed \in BOOLEAN
    /\ config \in LaunchKeys \cup {"off"}

\* A pooled process: lent to a call of its slot exactly while it is busy, and
\* in no other hands.
Pooled(s) ==
    LET p == entry[s].client IN
    entry[s].client \in Processes =>
        /\ process[p].state \in {"live", "dead"} /\ process[p].key = entry[s].key /\ p \notin doomed
        /\ entry[s].busy => \E b \in Borrowers : borrower[b].client = p
        /\ \A b \in Borrowers :
              borrower[b].client = p => entry[s].busy /\ borrower[b].pooled /\ borrower[b].slot = s
        /\ \A r \in Slots : entry[r].client = p => r = s
        /\ timer /\ ~poolClosed

\* A process in a call's hands: of the launch the call was checked for, in no
\* other call's, and closed under it only by the shutdown of the pool.
Lent(b) ==
    LET p == borrower[b].client IN
    borrower[b].client \in Processes =>
        /\ process[p].state # "unused" /\ process[p].key = borrower[b].key
        /\ \A d \in Borrowers : borrower[d].client = p => d = b
        /\ p \in doomed \/ process[p].state = "closed" => poolClosed

\* A process that runs has an owner.
Owned(p) ==
    /\ process[p].state = "live" =>
         \/ \E s \in Slots : entry[s].client = p
         \/ \E b \in Borrowers : borrower[b].client = p
         \/ p \in doomed
    /\ p \in doomed => process[p].state # "unused"

PoolInv ==
    /\ PoolTypes
    /\ \A s \in Slots : Pooled(s)
    /\ \A b \in Borrowers : Lent(b)
    /\ \A p \in Processes : Owned(p)

LEMMA PoolConstants ==
    /\ MaxCalls \in Nat /\ MaxCalls > 1 /\ "none" \notin Processes /\ "off" \notin LaunchKeys
    /\ Vacant.client = "none" /\ Vacant.busy = FALSE /\ Away.client = "none" /\ Away.pc = "idle"
    /\ Unstarted.state = "unused"
BY PoolAssumption DEF PoolAssumption, Vacant, Away, Unstarted

\* What the type of each record says of its fields.
LEMMA PoolFields ==
    ASSUME PoolTypes
    PROVE  /\ \A s \in Slots :
                /\ entry[s] = Vacant <=> entry[s].client = "none"
                /\ entry[s] # Vacant => entry[s] \in PoolEntries /\ entry[s].client \in Processes
                                        /\ entry[s].key \in LaunchKeys /\ entry[s].busy \in BOOLEAN
                                        /\ entry[s].calls \in 1 .. (MaxCalls - 1)
           /\ \A p \in Processes :
                /\ process[p] = Unstarted <=> process[p].state = "unused"
                /\ process[p] # Unstarted => process[p] \in PoolProcesses /\ process[p].key \in LaunchKeys
                                             /\ process[p].state \in {"live", "dead", "closed"}
           /\ \A b \in Borrowers :
                /\ borrower[b].pc \in {"check", "call"} =>
                     /\ borrower[b].client \in Processes /\ borrower[b].key \in LaunchKeys
                     /\ borrower[b].slot \in Slots /\ borrower[b].pooled \in BOOLEAN
                /\ borrower[b].pc \notin {"check", "call"} => borrower[b].client = "none"
                /\ borrower[b].pc \in {"acquire", "start"} => borrower[b].slot \in Slots /\ borrower[b].key \in LaunchKeys
                     /\ borrower[b].pooled = FALSE
<1>1. ASSUME NEW s \in Slots
      PROVE  /\ entry[s] = Vacant <=> entry[s].client = "none"
             /\ entry[s] # Vacant => entry[s] \in PoolEntries /\ entry[s].client \in Processes
                                     /\ entry[s].key \in LaunchKeys /\ entry[s].busy \in BOOLEAN
                                     /\ entry[s].calls \in 1 .. (MaxCalls - 1)
  <2>1. entry[s] = Vacant \/ entry[s] \in PoolEntries
    BY DEF PoolTypes
  <2>2. Vacant.client = "none" /\ "none" \notin Processes
    BY PoolConstants
  <2> QED
    BY <2>1, <2>2 DEF PoolEntries
<1>2. ASSUME NEW p \in Processes
      PROVE  /\ process[p] = Unstarted <=> process[p].state = "unused"
             /\ process[p] # Unstarted => process[p] \in PoolProcesses /\ process[p].key \in LaunchKeys
                                          /\ process[p].state \in {"live", "dead", "closed"}
  <2>1. process[p] = Unstarted \/ process[p] \in PoolProcesses
    BY DEF PoolTypes
  <2>2. Unstarted.state = "unused"
    BY PoolConstants
  <2> QED
    BY <2>1, <2>2 DEF PoolProcesses
<1>3. ASSUME NEW b \in Borrowers
      PROVE  /\ borrower[b].pc \in {"check", "call"} =>
                  /\ borrower[b].client \in Processes /\ borrower[b].key \in LaunchKeys
                  /\ borrower[b].slot \in Slots /\ borrower[b].pooled \in BOOLEAN
             /\ borrower[b].pc \notin {"check", "call"} => borrower[b].client = "none"
             /\ borrower[b].pc \in {"acquire", "start"} => borrower[b].slot \in Slots /\ borrower[b].key \in LaunchKeys
                  /\ borrower[b].pooled = FALSE
  <2>1. borrower[b] = Away \/ borrower[b] \in PoolBorrowers
    BY DEF PoolTypes
  <2>2. Away.client = "none" /\ Away.pc = "idle"
    BY PoolConstants
  <2> QED
    BY <2>1, <2>2 DEF PoolBorrowers
<1> QED
  BY <1>1, <1>2, <1>3

LEMMA PoolStarts == PoolInit => PoolInv
<1> SUFFICES ASSUME PoolInit PROVE PoolInv
  OBVIOUS
<1>1. PICK k \in LaunchKeys : PoolBegins(k)
  BY DEF PoolInit
<1>2. PoolTypes
  BY <1>1 DEF PoolBegins, PoolTypes
<1>3. /\ \A s \in Slots : entry[s].client = "none"
      /\ \A b \in Borrowers : borrower[b].client = "none"
      /\ \A p \in Processes : process[p].state = "unused"
      /\ doomed = {}
  BY <1>1, PoolConstants DEF PoolBegins
<1> QED
  BY <1>2, <1>3, PoolConstants DEF PoolInv, Pooled, Lent, Owned

\* Closing a process.
LEMMA ClosingWrites ==
    ASSUME PoolTypes, NEW p \in Processes, process[p].state # "unused", Closed(p)
    PROVE  /\ process' \in [Processes -> {Unstarted} \cup PoolProcesses]
           /\ process'[p].state = "closed" /\ process'[p].key = process[p].key
           /\ \A q \in Processes \ {p} : process'[q] = process[q]
<1>1. process[p] \in PoolProcesses
  BY PoolFields
<1> DEFINE r == [process[p] EXCEPT !.state = "closed"]
<1>2. r \in PoolProcesses /\ r.state = "closed" /\ r.key = process[p].key
  BY <1>1 DEF PoolProcesses
<1>3. process' = [process EXCEPT ![p] = r]
  BY DEF Closed
<1> HIDE DEF r
<1> QED
  BY <1>2, <1>3 DEF PoolTypes

\* A call moves on, and its row keeps its type.
LEMMA SendingWrites ==
    ASSUME PoolTypes, NEW b \in Borrowers, NEW r \in {Away} \cup PoolBorrowers, Sent(b, r)
    PROVE  /\ borrower' \in [Borrowers -> {Away} \cup PoolBorrowers]
           /\ borrower'[b] = r
           /\ \A d \in Borrowers \ {b} : borrower'[d] = borrower[d]
BY DEF PoolTypes, Sent

LEMMA ResolveKeeps == ASSUME PoolInv, NEW b \in Borrowers, Resolve(b) PROVE PoolInv'
<1>1. PoolTypes /\ borrower[b] = Away /\ config \in LaunchKeys /\ UNCHANGED <<config, changes, entry, process, doomed, timer, poolClosed>>
  BY DEF PoolInv, PoolTypes, Resolve
<1>2. PICK s \in Slots : Sent(b, [Away EXCEPT !.pc = "acquire", !.slot = s, !.key = config])
  BY Zenon DEF Resolve
<1> DEFINE r == [Away EXCEPT !.pc = "acquire", !.slot = s, !.key = config]
<1>3. r \in PoolBorrowers /\ r.client = "none" /\ Sent(b, r)
  BY <1>1, <1>2 DEF PoolBorrowers, Away
<1> HIDE DEF r
<1>4. /\ borrower' \in [Borrowers -> {Away} \cup PoolBorrowers]
      /\ \A d \in Borrowers : borrower'[d].client = borrower[d].client
      /\ \A d \in Borrowers : borrower[d].client \in Processes => borrower'[d] = borrower[d]
  BY <1>1, <1>3, SendingWrites, PoolConstants
<1>5. PoolTypes'
  BY <1>1, <1>4 DEF PoolTypes
<1> QED
  BY <1>1, <1>4, <1>5, PoolConstants DEF PoolInv, Pooled, Lent, Owned

LEMMA AcquireKeeps == ASSUME PoolInv, NEW b \in Borrowers, Acquire(b) PROVE PoolInv'
<1> DEFINE s == borrower[b].slot
           e == entry[s]
           start == [borrower[b] EXCEPT !.pc = "start"]
           check == [borrower[b] EXCEPT !.pc = "check", !.client = e.client, !.pooled = TRUE]
<1>1. PoolTypes /\ borrower[b].pc = "acquire" /\ UNCHANGED <<config, changes, doomed, timer, poolClosed>>
  BY DEF PoolInv, Acquire
<1>2. s \in Slots /\ borrower[b] \in PoolBorrowers /\ borrower[b].client = "none" /\ borrower[b].pooled = FALSE
  BY <1>1, PoolFields, PoolConstants DEF PoolTypes
<1>3. start \in PoolBorrowers /\ start.client = "none"
  BY <1>1, <1>2 DEF PoolBorrowers
<1>4. e # Vacant => check \in PoolBorrowers /\ check.client = e.client /\ check.pooled = TRUE /\ check.slot = s
                    /\ check.key = borrower[b].key
  BY <1>1, <1>2, PoolFields DEF PoolBorrowers
<1> HIDE DEF start, check
<1>5. CASE Sent(b, start) /\ UNCHANGED <<entry, process>>
  <2>1. /\ borrower' \in [Borrowers -> {Away} \cup PoolBorrowers]
        /\ \A d \in Borrowers : borrower'[d].client = borrower[d].client
        /\ \A d \in Borrowers : borrower[d].client \in Processes => borrower'[d] = borrower[d]
    BY <1>1, <1>2, <1>3, <1>5, SendingWrites, PoolConstants
  <2>2. PoolTypes'
    BY <1>1, <1>5, <2>1 DEF PoolTypes
  <2> QED
    BY <1>1, <1>5, <2>1, <2>2, PoolConstants DEF PoolInv, Pooled, Lent, Owned
<1>6. CASE /\ e # Vacant /\ ~e.busy
           /\ Sent(b, start) /\ Closed(e.client) /\ entry' = [entry EXCEPT ![s] = Vacant]
  <2>1. /\ borrower' \in [Borrowers -> {Away} \cup PoolBorrowers]
        /\ \A d \in Borrowers : borrower'[d].client = borrower[d].client
        /\ \A d \in Borrowers : borrower[d].client \in Processes => borrower'[d] = borrower[d]
    BY <1>1, <1>2, <1>3, <1>6, SendingWrites, PoolConstants
  <2>2. PICK p \in Processes : p = e.client
    BY <1>1, <1>2, <1>6, PoolFields
  <2>3. Pooled(s)
    BY <1>2 DEF PoolInv
  <2>4. process[p].state # "unused" /\ \A d \in Borrowers : borrower[d].client # p
    BY <1>6, <2>2, <2>3 DEF Pooled
  <2>5. /\ process' \in [Processes -> {Unstarted} \cup PoolProcesses]
        /\ process'[p].state = "closed" /\ process'[p].key = process[p].key
        /\ \A q \in Processes \ {p} : process'[q] = process[q]
    BY <1>1, <1>6, <2>2, <2>4, ClosingWrites
  <2>6. /\ entry' \in [Slots -> {Vacant} \cup PoolEntries] /\ entry'[s].client = "none"
        /\ \A r \in Slots \ {s} : entry'[r] = entry[r] /\ entry[r].client # p
    BY <1>1, <1>2, <1>6, <2>2, <2>3, PoolConstants DEF PoolTypes, Pooled
  <2>7. PoolTypes'
    BY <1>1, <2>1, <2>5, <2>6 DEF PoolTypes
  <2>8. ASSUME NEW r \in Slots PROVE Pooled(r)'
    BY <1>1, <2>1, <2>5, <2>6, PoolConstants DEF PoolInv, Pooled
  <2>9. ASSUME NEW d \in Borrowers PROVE Lent(d)'
    BY <1>1, <2>1, <2>4, <2>5 DEF PoolInv, Lent
  <2>10. ASSUME NEW q \in Processes PROVE Owned(q)'
    BY <1>1, <2>1, <2>2, <2>5, <2>6 DEF PoolInv, Owned
  <2> QED
    BY <2>7, <2>8, <2>9, <2>10 DEF PoolInv
<1>7. CASE /\ e # Vacant /\ ~e.busy /\ e.key = borrower[b].key
           /\ Sent(b, check) /\ entry' = [entry EXCEPT ![s].busy = TRUE] /\ UNCHANGED process
  <2>2. PICK p \in Processes : p = e.client
    BY <1>1, <1>2, <1>7, PoolFields
  <2>1. /\ borrower' \in [Borrowers -> {Away} \cup PoolBorrowers]
        /\ borrower'[b].client = p /\ borrower'[b].pooled /\ borrower'[b].slot = s
        /\ borrower'[b].key = borrower[b].key
        /\ \A d \in Borrowers \ {b} : borrower'[d] = borrower[d]
    BY <1>1, <1>4, <1>7, <2>2, SendingWrites
  <2>3. Pooled(s)
    BY <1>2 DEF PoolInv
  <2>4. /\ process[p].state \in {"live", "dead"} /\ process[p].key = borrower[b].key /\ p \notin doomed
        /\ \A d \in Borrowers : borrower[d].client # p
        /\ \A r \in Slots : entry[r].client = p => r = s
    BY <1>7, <2>2, <2>3 DEF Pooled
  <2> DEFINE f == [e EXCEPT !.busy = TRUE]
  <2>5. f \in PoolEntries /\ f.client = p /\ f.busy = TRUE /\ f.key = e.key
    BY <1>1, <1>2, <1>7, <2>2, PoolFields DEF PoolEntries
  <2>5a. entry' = [entry EXCEPT ![s] = f]
    BY <1>7
  <2> HIDE DEF f
  <2>6. /\ entry' \in [Slots -> {Vacant} \cup PoolEntries] /\ entry'[s] = f
        /\ \A r \in Slots \ {s} : entry'[r] = entry[r]
    BY <1>1, <1>2, <2>5, <2>5a DEF PoolTypes
  <2>7. PoolTypes'
    BY <1>1, <1>7, <2>1, <2>6 DEF PoolTypes
  <2>8. ASSUME NEW r \in Slots PROVE Pooled(r)'
    <3>1. CASE r = s
      BY <1>1, <1>2, <1>7, <2>1, <2>2, <2>3, <2>4, <2>5, <2>6, <3>1 DEF Pooled
    <3>2. CASE r # s
      BY <1>1, <1>2, <1>7, <2>1, <2>2, <2>4, <2>5, <2>6, <3>2 DEF PoolInv, Pooled
    <3> QED
      BY <3>1, <3>2
  <2>9. ASSUME NEW d \in Borrowers PROVE Lent(d)'
    BY <1>1, <1>7, <2>1, <2>4 DEF PoolInv, Lent
  <2>10. ASSUME NEW q \in Processes PROVE Owned(q)'
    BY <1>1, <1>2, <1>7, <2>1, <2>2, <2>5, <2>6, PoolConstants DEF PoolInv, Owned
  <2> QED
    BY <2>7, <2>8, <2>9, <2>10 DEF PoolInv
<1> QED
  BY <1>5, <1>6, <1>7, Zenon DEF Acquire, s, e, start, check

LEMMA StartKeeps == ASSUME PoolInv, NEW b \in Borrowers, Start(b) PROVE PoolInv'
<1>1. PoolTypes /\ borrower[b].pc = "start" /\ UNCHANGED <<config, changes, entry, doomed, timer, poolClosed>>
  BY Zenon DEF PoolInv, Start
<1>2. borrower[b] \in PoolBorrowers /\ borrower[b].client = "none" /\ borrower[b].key \in LaunchKeys
      /\ borrower[b].pooled = FALSE
  BY <1>1, PoolFields, PoolConstants DEF PoolTypes
<1>3. CASE Sent(b, Away) /\ UNCHANGED process
  <2>1. /\ borrower' \in [Borrowers -> {Away} \cup PoolBorrowers]
        /\ \A d \in Borrowers : borrower'[d].client = borrower[d].client
        /\ \A d \in Borrowers : borrower[d].client \in Processes => borrower'[d] = borrower[d]
    BY <1>1, <1>2, <1>3, SendingWrites, PoolConstants
  <2>2. PoolTypes'
    BY <1>1, <1>3, <2>1 DEF PoolTypes
  <2> QED
    BY <1>1, <1>3, <2>1, <2>2, PoolConstants DEF PoolInv, Pooled, Lent, Owned
<1>4. ASSUME NEW p \in Processes, process[p] = Unstarted,
             process' = [process EXCEPT ![p] = [state |-> "live", key |-> borrower[b].key]],
             Sent(b, [borrower[b] EXCEPT !.pc = "check", !.client = p])
      PROVE  PoolInv'
  <2> DEFINE r == [borrower[b] EXCEPT !.pc = "check", !.client = p]
  <2>1. /\ r \in PoolBorrowers /\ r.client = p /\ r.key = borrower[b].key /\ r.pooled = FALSE /\ Sent(b, r)
    BY <1>1, <1>2, <1>4 DEF PoolBorrowers
  <2> HIDE DEF r
  <2>2. /\ borrower' \in [Borrowers -> {Away} \cup PoolBorrowers] /\ borrower'[b] = r
        /\ \A d \in Borrowers \ {b} : borrower'[d] = borrower[d]
    BY <1>1, <2>1, SendingWrites
  <2>3. /\ process' \in [Processes -> {Unstarted} \cup PoolProcesses]
        /\ process'[p].state = "live" /\ process'[p].key = borrower[b].key
        /\ \A q \in Processes \ {p} : process'[q] = process[q]
    BY <1>1, <1>2, <1>4 DEF PoolTypes, PoolProcesses
  <2>4. process[p].state = "unused"
    BY <1>4, PoolConstants
  <2>5. /\ \A s \in Slots : entry[s].client # p
        /\ \A d \in Borrowers : borrower[d].client # p
        /\ p \notin doomed
    BY <2>4 DEF PoolInv, Pooled, Lent, Owned
  <2>6. PoolTypes'
    BY <1>1, <2>2, <2>3 DEF PoolTypes
  <2>7. ASSUME NEW s \in Slots PROVE Pooled(s)'
    BY <1>1, <1>2, <2>1, <2>2, <2>3, <2>5, PoolConstants DEF PoolInv, Pooled
  <2>8. ASSUME NEW d \in Borrowers PROVE Lent(d)'
    BY <1>1, <2>1, <2>2, <2>3, <2>5 DEF PoolInv, Lent
  <2>9. ASSUME NEW q \in Processes PROVE Owned(q)'
    BY <1>1, <1>2, <2>1, <2>2, <2>3, <2>5, PoolConstants DEF PoolInv, Owned
  <2> QED
    BY <2>6, <2>7, <2>8, <2>9 DEF PoolInv
<1> QED
  BY <1>3, <1>4, Zenon DEF Start

\* Entries leave the pool, their idle processes to be closed, and calls give
\* back processes that are closed at once.
LEMMA LeavingKeeps ==
    ASSUME PoolInv, UNCHANGED <<config, poolClosed>>, NEW gone \in SUBSET Processes,
           entry' \in [Slots -> {Vacant} \cup PoolEntries], doomed \subseteq doomed', doomed' \subseteq Processes,
           \A r \in Slots : entry'[r] = entry[r] \/ entry'[r] = Vacant,
           \A r \in Slots : entry[r].client \in gone => entry'[r] = Vacant,
           \A r \in Slots : entry'[r] # entry[r] /\ ~entry[r].busy => entry[r].client \in doomed' \cup gone,
           \A q \in doomed' \ doomed : \E r \in Slots : entry[r].client = q /\ ~entry[r].busy /\ entry'[r] = Vacant,
           process' \in [Processes -> {Unstarted} \cup PoolProcesses],
           \A q \in gone : process'[q].state = "closed",
           \A q \in Processes \ gone : process'[q] = process[q],
           borrower' \in [Borrowers -> {Away} \cup PoolBorrowers],
           \A d \in Borrowers : borrower'[d] = borrower[d] \/ (borrower'[d] = Away /\ borrower[d].client \in gone),
           \A d \in Borrowers : borrower'[d].client \notin gone,
           timer' \in BOOLEAN, (\E r \in Slots : entry'[r] # Vacant) => timer'
    PROVE  PoolInv'
<1>1. PoolTypes
  BY DEF PoolInv
<1>2. PoolTypes'
  BY <1>1 DEF PoolTypes
<1>3. ASSUME NEW s \in Slots, entry'[s].client \in Processes PROVE Pooled(s)'
  <2>1. entry'[s] = entry[s] /\ entry[s].client \notin gone /\ entry'[s] # Vacant
    BY <1>3, PoolConstants
  <2>2. PICK p \in Processes \ gone : p = entry[s].client
    BY <1>3, <2>1
  <2>3. Pooled(s)
    BY DEF PoolInv
  <2>4. p \notin doomed'
    BY <1>3, <2>1, <2>2, <2>3, PoolConstants DEF Pooled
  <2>5. entry[s].busy => \E b \in Borrowers : borrower'[b].client = p
    BY <2>2, <2>3 DEF Pooled
  <2>6. \A b \in Borrowers : borrower'[b].client = p => borrower'[b] = borrower[b]
    BY <2>2, PoolConstants
  <2>7. \A r \in Slots : entry'[r].client = p => entry[r].client = p
    BY <2>2, PoolConstants
  <2>8. timer' /\ ~poolClosed'
    BY <1>3, <2>1, <2>3 DEF Pooled
  <2>9. process'[p] = process[p]
    BY <2>2
  <2> QED
    BY <2>1, <2>2, <2>3, <2>4, <2>5, <2>6, <2>7, <2>8, <2>9 DEF Pooled
<1>4. ASSUME NEW d \in Borrowers, borrower'[d].client \in Processes PROVE Lent(d)'
  <2>1. borrower'[d] = borrower[d]
    BY <1>4, PoolConstants
  <2>2. PICK p \in Processes \ gone : p = borrower[d].client
    BY <1>4, <2>1
  <2>3. Lent(d) /\ process'[p] = process[p]
    BY <2>2 DEF PoolInv
  <2>4. p \in doomed' => poolClosed
    <3>1. ASSUME p \in doomed' \ doomed PROVE FALSE
      <4>1. PICK r \in Slots : entry[r].client = p /\ ~entry[r].busy
        BY <3>1
      <4>2. Pooled(r)
        BY DEF PoolInv
      <4> QED
        BY <2>2, <4>1, <4>2 DEF Pooled
    <3> QED
      BY <2>2, <2>3, <3>1 DEF Lent
  <2>5. \A c \in Borrowers : borrower'[c].client = p => borrower[c].client = p
    BY <2>2, PoolConstants
  <2> QED
    BY <2>1, <2>2, <2>3, <2>4, <2>5 DEF Lent
<1>5. ASSUME NEW q \in Processes PROVE Owned(q)'
  <2>1. Owned(q)
    BY DEF PoolInv
  <2>2. process'[q].state = "live" => process[q].state = "live" /\ q \notin gone
    OBVIOUS
  <2>3. ASSUME q \notin gone, NEW b \in Borrowers, borrower[b].client = q PROVE borrower'[b].client = q
    BY <2>3
  <2>4. ASSUME q \notin gone, NEW s \in Slots, entry[s].client = q
        PROVE  entry'[s].client = q \/ q \in doomed' \/ \E b \in Borrowers : borrower'[b].client = q
    <3>1. Pooled(s)
      BY DEF PoolInv
    <3> QED
      BY <2>3, <2>4, <3>1 DEF Pooled
  <2>5. q \in doomed' => process'[q].state # "unused"
    <3>1. CASE q \in doomed
      BY <2>1, <3>1 DEF Owned
    <3>2. CASE q \in doomed' \ doomed
      <4>1. PICK r \in Slots : entry[r].client = q
        BY <3>2
      <4> QED
        BY <4>1 DEF PoolInv, Pooled
    <3> QED
      BY <3>1, <3>2
  <2> QED
    BY <2>1, <2>2, <2>3, <2>4, <2>5 DEF Owned
<1> QED
  BY <1>2, <1>3, <1>4, <1>5 DEF PoolInv, Pooled, Lent

\* A call closes the process it holds, and takes it out of its slot when it is there.
LEMMA DropKeeps ==
    ASSUME PoolInv, NEW b \in Borrowers, NEW p \in Processes, borrower[b].client = p,
           Closed(p), Sent(b, Away), UNCHANGED <<config, poolClosed, doomed, timer>>,
           \/ entry' = entry /\ \A r \in Slots : entry[r].client # p
           \/ \E s \in Slots : entry[s].client = p /\ entry' = [entry EXCEPT ![s] = Vacant]
    PROVE  PoolInv'
<1>1. PoolTypes /\ Lent(b)
  BY DEF PoolInv
<1>2. process[p].state # "unused" /\ \A d \in Borrowers : borrower[d].client = p => d = b
  BY <1>1 DEF Lent
<1>3. /\ process' \in [Processes -> {Unstarted} \cup PoolProcesses] /\ process'[p].state = "closed"
      /\ \A q \in Processes \ {p} : process'[q] = process[q]
  BY <1>1, <1>2, ClosingWrites
<1>4. /\ borrower' \in [Borrowers -> {Away} \cup PoolBorrowers] /\ borrower'[b] = Away
      /\ \A d \in Borrowers \ {b} : borrower'[d] = borrower[d]
  BY <1>1, SendingWrites
<1>5. /\ entry' \in [Slots -> {Vacant} \cup PoolEntries]
      /\ \A r \in Slots : entry'[r] = entry[r] \/ (entry'[r] = Vacant /\ entry[r].client = p)
      /\ \A r \in Slots : entry[r].client = p => entry'[r] = Vacant
  <2>1. \A r, s \in Slots : entry[s].client = p /\ entry[r].client = p => r = s
    BY DEF PoolInv, Pooled
  <2> QED
    BY <1>1, <2>1 DEF PoolTypes
<1>6. (\E r \in Slots : entry'[r] # Vacant) => timer
  <2>1. ASSUME NEW r \in Slots, entry'[r] # Vacant PROVE timer
    <3>1. entry[r].client \in Processes
      BY <1>1, <1>5, <2>1, PoolFields
    <3> QED
      BY <3>1 DEF PoolInv, Pooled
  <2> QED
    BY <2>1
<1>7. timer' \in BOOLEAN /\ "none" # p /\ Away.client = "none" /\ {p} \in SUBSET Processes /\ doomed \subseteq Processes
  BY <1>1, PoolConstants DEF PoolTypes
<1>8. \A d \in Borrowers : borrower'[d].client \notin {p}
  BY <1>2, <1>4, <1>7
<1> QED
  BY <1>3, <1>4, <1>5, <1>6, <1>7, <1>8, LeavingKeeps

\* A call puts the process it holds in its slot, for the next one.
LEMMA PutBackKeeps ==
    ASSUME PoolInv, NEW b \in Borrowers, NEW p \in Processes, borrower[b].client = p, NEW s \in Slots,
           ~poolClosed, Alive(p), entry[s].client \in {p, "none"}, \A q \in Slots \ {s} : entry[q].client # p,
           entry' \in [Slots -> {Vacant} \cup PoolEntries], \A q \in Slots \ {s} : entry'[q] = entry[q],
           entry'[s].client = p, entry'[s].key = process[p].key, entry'[s].busy = FALSE, Sent(b, Away), timer',
           UNCHANGED <<config, process, doomed, poolClosed>>
    PROVE  PoolInv'
<1>1. PoolTypes /\ Lent(b)
  BY DEF PoolInv
<1>2. p \notin doomed /\ \A d \in Borrowers : borrower[d].client = p => d = b
  BY <1>1 DEF Lent
<1>3. /\ borrower' \in [Borrowers -> {Away} \cup PoolBorrowers] /\ borrower'[b] = Away
      /\ \A d \in Borrowers \ {b} : borrower'[d] = borrower[d]
  BY <1>1, SendingWrites
<1>5. PoolTypes'
  BY <1>1, <1>3 DEF PoolTypes
<1>6. ASSUME NEW q \in Slots PROVE Pooled(q)'
  <2>1. CASE q = s
    BY <1>1, <1>2, <1>3, <2>1, PoolConstants DEF Pooled, Alive
  <2>2. CASE q # s
    <3>1. Pooled(q)
      BY DEF PoolInv
    <3> QED
      BY <1>2, <1>3, <2>2, <3>1, PoolConstants DEF Pooled
  <2> QED
    BY <2>1, <2>2
<1>7. ASSUME NEW d \in Borrowers PROVE Lent(d)'
  <2>1. Lent(d)
    BY DEF PoolInv
  <2> QED
    BY <1>2, <1>3, <2>1, PoolConstants DEF Lent
<1>8. ASSUME NEW q \in Processes PROVE Owned(q)'
  <2>1. Owned(q)
    BY DEF PoolInv
  <2> QED
    BY <1>2, <1>3, <2>1, PoolConstants DEF Owned
<1> QED
  BY <1>5, <1>6, <1>7, <1>8 DEF PoolInv

LEMMA FinishKeeps ==
    ASSUME PoolInv, NEW b \in Borrowers, borrower[b].pc \in {"check", "call"}, NEW failed \in BOOLEAN,
           Finish(b, failed), UNCHANGED <<config, doomed, poolClosed>>
    PROVE  PoolInv'
<1> DEFINE s == borrower[b].slot
           e == entry[s]
<1>1. PICK p \in Processes : p = borrower[b].client
  BY PoolFields DEF PoolInv
<1>1a. config' = config /\ doomed' = doomed /\ poolClosed' = poolClosed
  OBVIOUS
<1>2. PoolTypes /\ Sent(b, Away) /\ s \in Slots /\ borrower[b].key \in LaunchKeys /\ process[p].key = borrower[b].key
  BY <1>1, PoolFields DEF PoolInv, Finish, Lent
<1>3. \A r \in Slots : entry[r].client = p => r = s /\ borrower[b].pooled
  BY <1>1 DEF PoolInv, Pooled
<1>4. CASE Closed(p) /\ UNCHANGED <<entry, timer>> /\ (borrower[b].pooled => e.client # p)
  <2>1. \A r \in Slots : entry[r].client # p
    BY <1>3, <1>4
  <2> QED
    BY <1>1, <1>2, <1>4, <2>1, DropKeeps
<1>5. CASE Closed(p) /\ entry' = [entry EXCEPT ![s] = Vacant] /\ UNCHANGED timer /\ e.client = p
  BY <1>1, <1>2, <1>5, DropKeeps
<1>6. CASE /\ e.client = p /\ ~poolClosed /\ Alive(p) /\ ~(e.calls + 1 >= MaxCalls)
           /\ entry' = [entry EXCEPT ![s].busy = FALSE, ![s].calls = @ + 1] /\ timer' = TRUE /\ UNCHANGED process
  <2> DEFINE r == [e EXCEPT !.busy = FALSE, !.calls = @ + 1]
  <2>1. e \in PoolEntries /\ e.calls \in 1 .. (MaxCalls - 1) /\ e.key = process[p].key
    <3>1. e # Vacant
      BY <1>6, PoolConstants
    <3>2. Pooled(s)
      BY <1>2 DEF PoolInv
    <3> QED
      BY <1>2, <1>6, <3>1, <3>2, PoolFields DEF Pooled
  <2>2. e.calls + 1 \in 1 .. (MaxCalls - 1)
    BY <1>6, <2>1, PoolConstants
  <2>3. r \in PoolEntries /\ r.client = p /\ r.key = process[p].key /\ r.busy = FALSE
    BY <1>6, <2>1, <2>2 DEF PoolEntries
  <2>4. entry' = [entry EXCEPT ![s] = r]
    BY <1>6
  <2> HIDE DEF r
  <2>5. entry[s].client \in {p, "none"} /\ \A q \in Slots \ {s} : entry[q].client # p
    BY <1>3, <1>6
  <2> QED
    <3>1. UNCHANGED <<config, process, doomed, poolClosed>>
      BY <1>1a, <1>6
    <3>2. /\ entry' \in [Slots -> {Vacant} \cup PoolEntries] /\ \A q \in Slots \ {s} : entry'[q] = entry[q]
          /\ entry'[s].client = p /\ entry'[s].key = process[p].key /\ entry'[s].busy = FALSE
      BY <1>2, <2>3, <2>4 DEF PoolTypes
    <3> QED
      BY <1>1, <1>2, <1>6, <2>3, <2>4, <2>5, <3>1, <3>2, PutBackKeeps
<1>7. CASE /\ ~borrower[b].pooled /\ e = Vacant /\ ~poolClosed /\ Alive(p)
           /\ entry' = [entry EXCEPT ![s] = [client |-> p, key |-> borrower[b].key, busy |-> FALSE, calls |-> 1]]
           /\ timer' = TRUE /\ UNCHANGED process
  <2> DEFINE r == [client |-> p, key |-> borrower[b].key, busy |-> FALSE, calls |-> 1]
  <2>1. r \in PoolEntries /\ r.client = p /\ r.key = process[p].key /\ r.busy = FALSE
    BY <1>2, PoolConstants DEF PoolEntries
  <2>2. entry' = [entry EXCEPT ![s] = r]
    BY <1>7
  <2> HIDE DEF r
  <2>3. entry[s].client \in {p, "none"} /\ \A q \in Slots \ {s} : entry[q].client # p
    BY <1>3, <1>7, PoolConstants
  <2> QED
    <3>1. UNCHANGED <<config, process, doomed, poolClosed>>
      BY <1>1a, <1>7
    <3>2. /\ entry' \in [Slots -> {Vacant} \cup PoolEntries] /\ \A q \in Slots \ {s} : entry'[q] = entry[q]
          /\ entry'[s].client = p /\ entry'[s].key = process[p].key /\ entry'[s].busy = FALSE
      BY <1>2, <2>1, <2>2 DEF PoolTypes
    <3> QED
      BY <1>1, <1>2, <1>7, <2>1, <2>2, <2>3, <3>1, <3>2, PutBackKeeps
<1>8. \/ /\ borrower[b].pooled
         /\ IF e.client # p
            THEN Closed(p) /\ UNCHANGED <<entry, timer>>
            ELSE IF failed \/ poolClosed \/ e.calls + 1 >= MaxCalls \/ ~Alive(p)
            THEN Closed(p) /\ entry' = [entry EXCEPT ![s] = Vacant] /\ UNCHANGED timer
            ELSE /\ entry' = [entry EXCEPT ![s].busy = FALSE, ![s].calls = @ + 1]
                 /\ timer' = TRUE
                 /\ UNCHANGED process
      \/ /\ ~borrower[b].pooled
         /\ IF failed \/ poolClosed \/ e # Vacant \/ ~Alive(p)
            THEN Closed(p) /\ UNCHANGED <<entry, timer>>
            ELSE /\ entry' = [entry EXCEPT ![s] =
                       [client |-> p, key |-> borrower[b].key, busy |-> FALSE, calls |-> 1]]
                 /\ timer' = TRUE
                 /\ UNCHANGED process
  BY <1>1, Zenon DEF Finish, Release, Offer, s, e
<1> HIDE DEF s, e
<1> QED
  BY <1>4, <1>5, <1>6, <1>7, <1>8, Zenon

\* What an invalidation takes out: busy processes are left to their calls.
LEMMA InvalidatedWrites ==
    ASSUME PoolInv, Invalidated
    PROVE  /\ entry' = [s \in Slots |-> Vacant] /\ entry' \in [Slots -> {Vacant} \cup PoolEntries]
           /\ doomed \subseteq doomed' /\ doomed' \subseteq Processes
           /\ \A r \in Slots : entry[r].client \in Processes /\ ~entry[r].busy => entry[r].client \in doomed'
           /\ \A q \in doomed' \ doomed : \E r \in Slots : entry[r].client = q /\ ~entry[r].busy
<1>1. PoolTypes
  BY DEF PoolInv
<1>2. entry' = [s \in Slots |-> Vacant]
      /\ doomed' = doomed \cup {entry[s].client : s \in {t \in Taken : ~entry[t].busy}}
  BY Zenon DEF Invalidated
<1>3. \A r \in Slots : r \in Taken <=> entry[r].client \in Processes
  BY <1>1, PoolFields, PoolConstants DEF Taken
<1>4. Taken \subseteq Slots /\ doomed \subseteq Processes
  BY <1>1 DEF Taken, PoolTypes
<1> QED
  BY <1>2, <1>3, <1>4

LEMMA RevalidateKeeps == ASSUME PoolInv, NEW b \in Borrowers, Revalidate(b) PROVE PoolInv'
<1> DEFINE r == [borrower[b] EXCEPT !.pc = "call"]
<1>1. PoolTypes /\ borrower[b].pc = "check" /\ UNCHANGED <<config, changes, entry, process, doomed, timer, poolClosed>>
      /\ Sent(b, r)
  BY Zenon DEF PoolInv, Revalidate
<1>2. borrower[b] \in PoolBorrowers
  BY <1>1, PoolConstants DEF PoolTypes
<1>3. /\ r \in PoolBorrowers /\ r.client = borrower[b].client /\ r.slot = borrower[b].slot
      /\ r.key = borrower[b].key /\ r.pooled = borrower[b].pooled
  BY <1>1, <1>2 DEF PoolBorrowers
<1> HIDE DEF r
<1>4. /\ borrower' \in [Borrowers -> {Away} \cup PoolBorrowers] /\ borrower'[b] = r
      /\ \A d \in Borrowers \ {b} : borrower'[d] = borrower[d]
  BY <1>1, <1>3, SendingWrites
<1>5. \A d \in Borrowers : /\ borrower'[d].client = borrower[d].client /\ borrower'[d].slot = borrower[d].slot
                           /\ borrower'[d].key = borrower[d].key /\ borrower'[d].pooled = borrower[d].pooled
  BY <1>3, <1>4
<1>6. PoolTypes'
  BY <1>1, <1>4 DEF PoolTypes
<1>7. ASSUME NEW s \in Slots PROVE Pooled(s)'
  BY <1>1, <1>5 DEF PoolInv, Pooled
<1>8. ASSUME NEW d \in Borrowers PROVE Lent(d)'
  BY <1>1, <1>5 DEF PoolInv, Lent
<1>9. ASSUME NEW q \in Processes PROVE Owned(q)'
  BY <1>1, <1>5 DEF PoolInv, Owned
<1> QED
  BY <1>6, <1>7, <1>8, <1>9 DEF PoolInv

LEMMA RejectKeeps == ASSUME PoolInv, NEW b \in Borrowers, Reject(b) PROVE PoolInv'
<1>1. borrower[b].pc = "check" /\ UNCHANGED <<config, changes, poolClosed>>
  BY Zenon DEF Reject
<1>2. CASE Finish(b, TRUE) /\ UNCHANGED doomed
  BY <1>1, <1>2, FinishKeeps
<1>3. CASE Invalidated /\ Closed(borrower[b].client) /\ Sent(b, Away) /\ UNCHANGED timer
  <2>1. PICK p \in Processes : p = borrower[b].client
    BY <1>1, PoolFields DEF PoolInv
  <2>2. PoolTypes /\ Lent(b)
    BY DEF PoolInv
  <2>3. process[p].state # "unused" /\ \A d \in Borrowers : borrower[d].client = p => d = b
    BY <2>1, <2>2 DEF Lent
  <2>4. /\ process' \in [Processes -> {Unstarted} \cup PoolProcesses] /\ process'[p].state = "closed"
        /\ \A q \in Processes \ {p} : process'[q] = process[q]
    BY <1>3, <2>1, <2>2, <2>3, ClosingWrites
  <2>5. /\ borrower' \in [Borrowers -> {Away} \cup PoolBorrowers] /\ borrower'[b] = Away
        /\ \A d \in Borrowers \ {b} : borrower'[d] = borrower[d]
    BY <1>3, <2>2, SendingWrites
  <2>6. /\ entry' = [s \in Slots |-> Vacant] /\ entry' \in [Slots -> {Vacant} \cup PoolEntries]
        /\ doomed \subseteq doomed' /\ doomed' \subseteq Processes
        /\ \A r \in Slots : entry[r].client \in Processes /\ ~entry[r].busy => entry[r].client \in doomed'
        /\ \A q \in doomed' \ doomed : \E r \in Slots : entry[r].client = q /\ ~entry[r].busy
    BY <1>3, InvalidatedWrites
  <2>7. \A r \in Slots : entry'[r] # entry[r] => entry[r].client \in Processes
    BY <2>2, <2>6, PoolFields
  <2>8. p # "none" /\ Away.client = "none" /\ {p} \in SUBSET Processes /\ timer' \in BOOLEAN
    BY <1>3, <2>2, PoolConstants DEF PoolTypes
  <2>9. \A d \in Borrowers : borrower'[d].client \notin {p}
    BY <2>3, <2>5, <2>8
  <2> QED
    BY <1>1, <2>1, <2>4, <2>5, <2>6, <2>7, <2>8, <2>9, LeavingKeeps
<1> QED
  BY <1>2, <1>3, Zenon DEF Reject

LEMMA CallKeeps == ASSUME PoolInv, NEW b \in Borrowers, Call(b) PROVE PoolInv'
<1>1. borrower[b].pc = "call" /\ UNCHANGED <<config, changes, doomed, poolClosed>>
  BY Zenon DEF Call
<1>2. PICK failed \in BOOLEAN : Finish(b, failed)
  BY Zenon DEF Call
<1> QED
  BY <1>1, <1>2, FinishKeeps

LEMMA InvalidateServerKeeps == ASSUME PoolInv, InvalidateServer PROVE PoolInv'
<1>1. PoolTypes /\ Invalidated /\ UNCHANGED <<config, changes, process, borrower, timer, poolClosed>>
  BY Zenon DEF PoolInv, InvalidateServer
<1>2. /\ entry' = [s \in Slots |-> Vacant] /\ entry' \in [Slots -> {Vacant} \cup PoolEntries]
      /\ doomed \subseteq doomed' /\ doomed' \subseteq Processes
      /\ \A r \in Slots : entry[r].client \in Processes /\ ~entry[r].busy => entry[r].client \in doomed'
      /\ \A q \in doomed' \ doomed : \E r \in Slots : entry[r].client = q /\ ~entry[r].busy
  BY <1>1, InvalidatedWrites
<1>3. \A r \in Slots : entry'[r] # entry[r] => entry[r].client \in Processes
  BY <1>1, <1>2, PoolFields
<1>4. /\ process' \in [Processes -> {Unstarted} \cup PoolProcesses] /\ timer' \in BOOLEAN
      /\ borrower' \in [Borrowers -> {Away} \cup PoolBorrowers] /\ {} \in SUBSET Processes
  BY <1>1 DEF PoolTypes
<1> QED
  BY <1>1, <1>2, <1>3, <1>4, LeavingKeeps

LEMMA SweepKeeps == ASSUME PoolInv, SweepPool PROVE PoolInv'
<1>1. PoolTypes /\ UNCHANGED <<config, changes, process, borrower, poolClosed>>
  BY Zenon DEF PoolInv, SweepPool
<1>2. PICK old \in SUBSET {s \in Taken : ~entry[s].busy} :
        /\ entry' = [s \in Slots |-> IF s \in old THEN Vacant ELSE entry[s]]
        /\ doomed' = doomed \cup {entry[s].client : s \in old}
        /\ timer' = (Taken \ old # {})
  BY Zenon DEF SweepPool
<1>3. \A r \in Slots : r \in Taken <=> entry[r] # Vacant
  BY DEF Taken
<1>4. old \subseteq Slots /\ (\A r \in old : ~entry[r].busy /\ entry[r] # Vacant /\ entry[r].client \in Processes)
  BY <1>1, <1>2, PoolFields DEF Taken
<1>5. entry' \in [Slots -> {Vacant} \cup PoolEntries]
  BY <1>1, <1>2 DEF PoolTypes
<1>5a. /\ \A r \in old : entry'[r] = Vacant
       /\ \A r \in Slots \ old : entry'[r] = entry[r]
  BY <1>2, <1>4
<1>6. doomed \subseteq doomed' /\ doomed' \subseteq Processes
      /\ \A q \in doomed' \ doomed : \E r \in Slots : entry[r].client = q /\ ~entry[r].busy /\ entry'[r] = Vacant
  BY <1>1, <1>2, <1>4, <1>5a DEF PoolTypes
<1>6a. \A r \in old : entry[r].client \in doomed'
  BY <1>2
<1>7. timer' \in BOOLEAN /\ ((\E r \in Slots : entry'[r] # Vacant) => timer')
  BY <1>2, <1>3, <1>5a
<1>8. /\ process' \in [Processes -> {Unstarted} \cup PoolProcesses]
      /\ borrower' \in [Borrowers -> {Away} \cup PoolBorrowers] /\ {} \in SUBSET Processes
  BY <1>1 DEF PoolTypes
<1>9. /\ \A r \in Slots : entry'[r] = entry[r] \/ entry'[r] = Vacant
      /\ \A r \in Slots : entry'[r] # entry[r] => entry[r].client \in doomed'
  <2> SUFFICES ASSUME NEW r \in Slots
               PROVE  /\ entry'[r] = entry[r] \/ entry'[r] = Vacant
                      /\ entry'[r] # entry[r] => entry[r].client \in doomed'
    OBVIOUS
  <2>1. CASE r \in old
    BY <1>5a, <1>6a, <2>1
  <2>2. CASE r \in Slots \ old
    BY <1>5a, <2>2
  <2> QED
    BY <2>1, <2>2
<1> QED
  BY <1>1, <1>4, <1>5, <1>6, <1>7, <1>8, <1>9, LeavingKeeps

LEMMA CloseKeeps == ASSUME PoolInv, ClosePool PROVE PoolInv'
<1>1. /\ PoolTypes /\ UNCHANGED <<config, changes, process, borrower>> /\ poolClosed' = TRUE /\ timer' = FALSE
      /\ entry' = [s \in Slots |-> Vacant] /\ doomed' = doomed \cup {entry[s].client : s \in Taken}
  BY Zenon DEF PoolInv, ClosePool
<1>2. \A r \in Slots : (r \in Taken <=> entry[r].client \in Processes) /\ entry'[r].client = "none"
  BY <1>1, PoolFields, PoolConstants DEF Taken
<1>3. /\ Taken \subseteq Slots /\ doomed' \subseteq Processes /\ doomed \subseteq doomed'
      /\ \A r \in Slots : entry[r].client \in Processes => entry[r].client \in doomed'
      /\ \A q \in doomed' \ doomed : \E r \in Slots : entry[r].client = q
  BY <1>1, <1>2 DEF Taken, PoolTypes
<1>4. PoolTypes'
  BY <1>1, <1>3 DEF PoolTypes
<1>5. ASSUME NEW s \in Slots PROVE Pooled(s)'
  BY <1>2, PoolConstants DEF Pooled
<1>6. ASSUME NEW d \in Borrowers PROVE Lent(d)'
  BY <1>1 DEF PoolInv, Lent
<1>7. ASSUME NEW q \in Processes PROVE Owned(q)'
  <2>1. Owned(q) /\ \A s \in Slots : Pooled(s)
    BY DEF PoolInv
  <2> QED
    BY <1>1, <1>3, <2>1 DEF Owned, Pooled
<1> QED
  BY <1>4, <1>5, <1>6, <1>7 DEF PoolInv

LEMMA CloseDoomedKeeps == ASSUME PoolInv, CloseDoomed PROVE PoolInv'
<1>1. PoolTypes /\ UNCHANGED <<config, changes, entry, borrower, timer, poolClosed>>
  BY Zenon DEF PoolInv, CloseDoomed
<1>2. PICK p \in doomed : doomed' = doomed \ {p} /\ Closed(p)
  BY Zenon DEF CloseDoomed
<1>3. p \in Processes /\ Owned(p)
  BY <1>1 DEF PoolTypes, PoolInv
<1>4. /\ process' \in [Processes -> {Unstarted} \cup PoolProcesses]
      /\ process'[p].state = "closed" /\ process'[p].key = process[p].key
      /\ \A q \in Processes \ {p} : process'[q] = process[q]
  BY <1>1, <1>2, <1>3, ClosingWrites DEF Owned
<1>5. PoolTypes'
  BY <1>1, <1>2, <1>4 DEF PoolTypes
<1>6. ASSUME NEW s \in Slots PROVE Pooled(s)'
  <2>1. Pooled(s)
    BY DEF PoolInv
  <2> QED
    BY <1>1, <1>2, <1>4, <2>1 DEF Pooled
<1>7. ASSUME NEW d \in Borrowers PROVE Lent(d)'
  <2>1. Lent(d)
    BY DEF PoolInv
  <2> QED
    BY <1>1, <1>2, <1>4, <2>1 DEF Lent
<1>8. ASSUME NEW q \in Processes PROVE Owned(q)'
  <2>1. Owned(q)
    BY DEF PoolInv
  <2> QED
    BY <1>1, <1>2, <1>4, <2>1 DEF Owned
<1> QED
  BY <1>5, <1>6, <1>7, <1>8 DEF PoolInv

LEMMA ProcessDiesKeeps == ASSUME PoolInv, ProcessDies PROVE PoolInv'
<1>1. PoolTypes /\ UNCHANGED <<config, changes, entry, borrower, doomed, timer, poolClosed>>
  BY Zenon DEF PoolInv, ProcessDies
<1>2. PICK p \in Processes : Alive(p) /\ process' = [process EXCEPT ![p].state = "dead"]
  BY Zenon DEF ProcessDies
<1> DEFINE r == [process[p] EXCEPT !.state = "dead"]
<1>3. process[p].state = "live" /\ process[p] \in PoolProcesses /\ process' = [process EXCEPT ![p] = r]
  BY <1>1, <1>2, PoolConstants DEF Alive, PoolTypes
<1>4. r \in PoolProcesses /\ r.state = "dead" /\ r.key = process[p].key
  BY <1>3 DEF PoolProcesses
<1> HIDE DEF r
<1>5. /\ process' \in [Processes -> {Unstarted} \cup PoolProcesses] /\ process'[p] = r
      /\ \A q \in Processes \ {p} : process'[q] = process[q]
  BY <1>1, <1>3, <1>4 DEF PoolTypes
<1>6. PoolTypes'
  BY <1>1, <1>5 DEF PoolTypes
<1>7. ASSUME NEW s \in Slots PROVE Pooled(s)'
  <2>1. Pooled(s)
    BY DEF PoolInv
  <2> QED
    BY <1>1, <1>3, <1>4, <1>5, <2>1 DEF Pooled
<1>8. ASSUME NEW d \in Borrowers PROVE Lent(d)'
  <2>1. Lent(d)
    BY DEF PoolInv
  <2> QED
    BY <1>1, <1>3, <1>4, <1>5, <2>1 DEF Lent
<1>9. ASSUME NEW q \in Processes PROVE Owned(q)'
  <2>1. Owned(q)
    BY DEF PoolInv
  <2> QED
    BY <1>1, <1>3, <1>4, <1>5, <2>1 DEF Owned
<1> QED
  BY <1>6, <1>7, <1>8, <1>9 DEF PoolInv

\* A set without two members counts no more than one.
LEMMA AtMostOne == ASSUME NEW S, \A x, y \in S : x = y PROVE Cardinality(S) <= 1
<1>1. CASE S = {}
  BY <1>1, FS_EmptySet
<1>2. CASE \E x : x \in S
  <2>1. PICK x : x \in S
    BY <1>2
  <2>2. S = {x}
    BY <2>1
  <2>3. Cardinality(S) = 1
    BY <2>2, FS_Singleton
  <2> QED
    BY <2>3
<1> QED
  BY <1>1, <1>2

LEMMA SessionsOwnedByInv == PoolInv => SessionsOwned
<1> SUFFICES ASSUME PoolInv PROVE SessionsOwned
  OBVIOUS
<1>1. PoolTypes
  BY DEF PoolInv
<1>2. \A s \in Slots : (s \in Taken <=> entry[s].client \in Processes)
  BY <1>1, PoolFields, PoolConstants DEF Taken
<1>2a. Taken \subseteq Slots
  BY DEF Taken
<1>3. ASSUME NEW p \in Processes
      PROVE  LET slots == {s \in Taken : entry[s].client = p} IN
             /\ Cardinality(slots) <= 1 /\ Cardinality(Hands(p)) <= 1
             /\ p \in doomed => slots = {}
             /\ Alive(p) => slots # {} \/ Hands(p) # {} \/ p \in doomed
             /\ Hands(p) # {} /\ (p \in doomed \/ process[p].state = "closed") => poolClosed
  <2> DEFINE slots == {s \in Taken : entry[s].client = p}
  <2>1. \A r, s \in slots : r = s
    BY <1>2a DEF PoolInv, Pooled
  <2>2. \A b, d \in Hands(p) : b = d
    BY DEF Hands, PoolInv, Lent
  <2>3. p \in doomed => slots = {}
    BY <1>2a DEF PoolInv, Pooled
  <2>4. Alive(p) => slots # {} \/ Hands(p) # {} \/ p \in doomed
    BY <1>2 DEF Alive, Hands, PoolInv, Owned
  <2>5. Hands(p) # {} /\ (p \in doomed \/ process[p].state = "closed") => poolClosed
    BY DEF Hands, PoolInv, Lent
  <2>6. Cardinality(slots) <= 1
    BY <2>1, AtMostOne
  <2>7. Cardinality(Hands(p)) <= 1
    BY <2>2, AtMostOne
  <2> QED
    BY <2>3, <2>4, <2>5, <2>6, <2>7
<1>4. ASSUME NEW s \in Taken
      PROVE  LET e == entry[s] IN
             /\ process[e.client].state # "closed" /\ e.key = process[e.client].key
             /\ e.calls < MaxCalls
             /\ e.busy <=> Hands(e.client) # {}
             /\ \A b \in Hands(e.client) : borrower[b].slot = s /\ borrower[b].pooled
  <2>1. Pooled(s) /\ s \in Slots /\ entry[s].client \in Processes
    BY <1>2, <1>2a DEF PoolInv
  <2>2. entry[s].calls < MaxCalls /\ entry[s].busy \in BOOLEAN
    BY <1>1, <2>1, PoolFields, PoolConstants
  <2> QED
    BY <2>1, <2>2 DEF Pooled, Hands
<1>5. ASSUME NEW b \in Borrowers, borrower[b].client \in Processes
      PROVE  process[borrower[b].client].key = borrower[b].key
  BY <1>5 DEF PoolInv, Lent
<1>6. Taken # {} => timer /\ ~poolClosed
  BY <1>2, <1>2a DEF PoolInv, Pooled
<1> QED
  BY <1>3, <1>4, <1>5, <1>6 DEF SessionsOwned

\* The pool of MCP processes (pool.go) under any number of calls, agents,
\* launches and reconfigurations, with processes dying, entries swept or
\* invalidated and the pool shut down in between: no process is leaked or lent
\* twice, none is closed under a call but by the shutdown, and a call only ever
\* uses a process of the launch it was checked for.
THEOREM SessionsAreOwned == PoolSpec => []SessionsOwned
<1>1. PoolInv /\ [PoolNext]_poolVars => PoolInv'
  <2> SUFFICES ASSUME PoolInv, [PoolNext]_poolVars PROVE PoolInv'
    OBVIOUS
  <2>1. ASSUME NEW b \in Borrowers, Resolve(b) \/ Acquire(b) \/ Start(b) \/ Revalidate(b) \/ Reject(b) \/ Call(b)
        PROVE  PoolInv'
    BY <2>1, ResolveKeeps, AcquireKeeps, StartKeeps, RevalidateKeeps, RejectKeeps, CallKeeps, Zenon
  <2>2. CASE InvalidateServer \/ SweepPool \/ ClosePool \/ CloseDoomed \/ ProcessDies
    BY <2>2, InvalidateServerKeeps, SweepKeeps, CloseKeeps, CloseDoomedKeeps, ProcessDiesKeeps, Zenon
  <2>3. CASE Configure
    <3>1. UNCHANGED <<entry, process, borrower, doomed, timer, poolClosed>> /\ config' \in LaunchKeys \cup {"off"}
      BY <2>3 DEF Configure
    <3> QED
      BY <3>1 DEF PoolInv, PoolTypes, Pooled, Lent, Owned
  <2>4. CASE UNCHANGED poolVars
    BY <2>4 DEF poolVars, PoolInv, PoolTypes, Pooled, Lent, Owned
  <2> QED
    BY <2>1, <2>2, <2>3, <2>4, Zenon DEF PoolNext
<1> QED
  BY <1>1, PoolStarts, SessionsOwnedByInv, PTL DEF PoolSpec

-----------------------------------------------------------------------------
(* The temporary tunnel.                                                   *)

ManagerRecords == [process : Tunnels \cup {"none"},
                   status : {"unavailable", "idle", "error", "installing", "starting", "running", "stopping"},
                   available : BOOLEAN, started : Addresses \cup {"none"}]
TunnelRecords == [state : {"unmade", "made", "live", "exited", "reaped"},
                  stop : BOOLEAN, url : BOOLEAN, done : BOOLEAN, asked : BOOLEAN]
Ending == {"timeout", "gone", "stop", "move", "failed"}
HandlerRecords == [pc : {"idle", "install", "wait", "moved", "closed"} \cup Launching \cup Ending,
                   tunnel : Tunnels \cup {"none"}, address : Addresses \cup {"none"}]

TunnelTypes ==
    /\ manager \in ManagerRecords
    /\ tunnel \in [Tunnels -> TunnelRecords]
    /\ handler \in [Handlers -> HandlerRecords]
    /\ listener \in Addresses

\* What a handler may rely on between two of its steps.
HandlerSound(h) ==
    LET pc == handler[h].pc
        p == handler[h].tunnel
    IN /\ pc \in {"launch", "wait"} \cup Ending => p \in Tunnels /\ manager.available
       /\ pc \in Starting => manager.available /\ \A g \in Handlers : handler[g].pc \in Starting => g = h
       /\ pc \in Launching => \A g \in Handlers : handler[g].pc \notin Closing
       /\ pc \in {"resolve", "make"} => manager.process = "none"
       /\ pc \in {"make", "launch"} => manager.status = "starting"
       /\ pc = "launch" => manager.process = p /\ tunnel[p].state = "made"
       /\ pc \in {"wait", "timeout", "gone", "move", "failed"} => manager.process \in {p, "none"}
       /\ pc \in {"moved", "closed"} => manager.available
       /\ pc = "closed" => manager.process = "none"
       /\ pc \in {"wait"} \cup Ending => tunnel[p].state \in {"live", "exited", "reaped"}
       /\ pc \in Ending => tunnel[p].state # "live" \/ tunnel[p].asked
       /\ pc = "install" =>
            /\ manager.process = "none" /\ manager.status = "installing" /\ ~manager.available
            /\ \A g \in Handlers : handler[g].pc = "install" => g = h

ProcessSound(p) ==
    /\ tunnel[p].state = "live" => manager.process = p \/ tunnel[p].asked
    /\ tunnel[p].state = "made" => \E h \in Handlers : handler[h].pc = "launch" /\ handler[h].tunnel = p
    /\ manager.process = p => tunnel[p].state \in {"made", "live", "exited"}
    /\ tunnel[p].done => tunnel[p].state = "reaped"

ManagerSound ==
    /\ manager.status \in {"running", "stopping"} => manager.process # "none"
    /\ manager.process # "none" => manager.status \in {"starting", "running", "stopping"} /\ manager.available
    /\ manager.status = "installing" => ~manager.available /\ manager.process = "none"

\* Nothing is said once calls crossed.
TunnelInv ==
    ~crossed =>
        TunnelTypes /\ ManagerSound /\ (\A h \in Handlers : HandlerSound(h)) /\ (\A p \in Tunnels : ProcessSound(p))

LEMMA TunnelConstants ==
    /\ "none" \notin Tunnels /\ "none" \notin Addresses
    /\ Resting \in HandlerRecords /\ Resting.pc = "idle" /\ Resting.tunnel = "none"
    /\ Unmade \in TunnelRecords /\ Unmade.state = "unmade" /\ Unmade.done = FALSE
BY TunnelAssumption DEF TunnelAssumption, Resting, HandlerRecords, Unmade, TunnelRecords

LEMMA TunnelStarts == TunnelInit => TunnelInv
<1> SUFFICES ASSUME TunnelInit PROVE TunnelInv
  OBVIOUS
<1>1. PICK a \in Addresses : TunnelBegins(a)
  BY DEF TunnelInit
<1>2. /\ \A h \in Handlers : handler[h] = Resting
      /\ \A p \in Tunnels : tunnel[p] = Unmade
      /\ manager = [process |-> "none", status |-> "unavailable", available |-> FALSE, started |-> "none"]
  BY <1>1 DEF TunnelBegins
<1>3. TunnelTypes
  BY <1>1, TunnelConstants DEF TunnelBegins, TunnelTypes, ManagerRecords
<1>4. ASSUME NEW h \in Handlers PROVE HandlerSound(h)
  BY <1>2, TunnelConstants DEF HandlerSound, Starting, Closing, Launching, Ending
<1>5. ASSUME NEW p \in Tunnels PROVE ProcessSound(p)
  BY <1>2, TunnelConstants DEF ProcessSound
<1>6. ManagerSound
  BY <1>2 DEF ManagerSound
<1> QED
  BY <1>3, <1>4, <1>5, <1>6 DEF TunnelInv

\* How a handler moves on, and how it leaves.
LEMMA ToWrites ==
    ASSUME TunnelTypes, NEW h \in Handlers, NEW pc \in {"install", "wait", "moved", "closed"} \cup Launching \cup Ending, To(h, pc)
    PROVE  /\ handler' \in [Handlers -> HandlerRecords]
           /\ handler'[h].pc = pc /\ handler'[h].tunnel = handler[h].tunnel
           /\ \A g \in Handlers \ {h} : handler'[g] = handler[g]
<1> DEFINE r == [handler[h] EXCEPT !.pc = pc]
<1>1. r \in HandlerRecords /\ r.pc = pc /\ r.tunnel = handler[h].tunnel
  BY DEF TunnelTypes, HandlerRecords
<1>2. handler' = [handler EXCEPT ![h] = r]
  BY DEF To
<1> HIDE DEF r
<1> QED
  BY <1>1, <1>2 DEF TunnelTypes

LEMMA LeaveWrites ==
    ASSUME TunnelTypes, NEW h \in Handlers, Leave(h)
    PROVE  /\ handler' \in [Handlers -> HandlerRecords]
           /\ handler'[h].pc = "idle" /\ handler'[h].tunnel = "none"
           /\ \A g \in Handlers \ {h} : handler'[g] = handler[g]
BY TunnelConstants DEF TunnelTypes, Leave

\* An interrupt only marks a process that runs.
LEMMA InterruptedWrites ==
    ASSUME TunnelTypes, NEW p \in Tunnels, tunnel' = Interrupted(p)
    PROVE  /\ tunnel' \in [Tunnels -> TunnelRecords]
           /\ tunnel'[p].state = tunnel[p].state /\ tunnel'[p].done = tunnel[p].done
           /\ tunnel'[p].state = "live" => tunnel'[p].asked
           /\ \A q \in Tunnels \ {p} : tunnel'[q] = tunnel[q]
<1> DEFINE r == [tunnel[p] EXCEPT !.asked = @ \/ tunnel[p].state = "live"]
<1>1. tunnel[p] \in TunnelRecords
  BY DEF TunnelTypes
<1>2. (tunnel[p].asked \/ tunnel[p].state = "live") \in BOOLEAN
  OBVIOUS
<1>3. r \in TunnelRecords /\ r.state = tunnel[p].state /\ r.done = tunnel[p].done
  BY <1>1, <1>2 DEF TunnelRecords
<1>4. r.state = "live" => r.asked
  BY <1>1, <1>3 DEF TunnelRecords
<1>5. tunnel' = [tunnel EXCEPT ![p] = r]
  BY DEF Interrupted
<1> HIDE DEF r
<1> QED
  BY <1>3, <1>4, <1>5 DEF TunnelTypes

\* A record of the manager in which some fields are given anew.
LEMMA ManagerWrites ==
    ASSUME TunnelTypes
    PROVE  /\ ErrorState \in ManagerRecords /\ ErrorState.process = "none" /\ ErrorState.status = "error"
           /\ ErrorState.available = manager.available
           /\ IdleStatus \in {"idle", "unavailable"}
BY DEF TunnelTypes, ManagerRecords, ErrorState, IdleStatus

\* A call that crosses none.
LEMMA NotCrossed ==
    ASSUME NEW pcs, Crosses(pcs), ~crossed'
    PROVE  ~crossed /\ \A g \in Handlers : handler[g].pc \notin pcs
BY Zenon DEF Crosses

LEMMA InstallKeeps ==
    ASSUME TunnelInv, NEW h \in Handlers, InstallBegins(h) \/ InstallEnds(h), ~crossed'
    PROVE  TunnelInv'
<1>1. UNCHANGED <<tunnel, listener, crossed>> /\ ~crossed
  BY DEF InstallBegins, InstallEnds
<1>2. TunnelTypes /\ ManagerSound /\ (\A g \in Handlers : HandlerSound(g)) /\ (\A p \in Tunnels : ProcessSound(p))
  BY <1>1 DEF TunnelInv
<1>3. CASE InstallBegins(h)
  <2>1. manager.process = "none" /\ ~manager.available /\ manager.status # "installing" /\ handler[h].pc = "idle"
        /\ manager' = [manager EXCEPT !.status = "installing"] /\ To(h, "install")
    BY <1>3 DEF InstallBegins, Called, At
  <2>2. /\ manager' \in ManagerRecords /\ manager'.process = "none" /\ ~manager'.available
        /\ manager'.status = "installing"
    BY <1>2, <2>1 DEF TunnelTypes, ManagerRecords
  <2>3. /\ handler' \in [Handlers -> HandlerRecords] /\ handler'[h].pc = "install"
        /\ \A g \in Handlers \ {h} : handler'[g] = handler[g]
    BY <1>2, <2>1, ToWrites
  <2>4. TunnelTypes' /\ ManagerSound'
    BY <1>1, <1>2, <2>2, <2>3 DEF TunnelTypes, ManagerSound
  <2>5. ASSUME NEW g \in Handlers PROVE HandlerSound(g)'
    BY <1>1, <1>2, <2>1, <2>2, <2>3 DEF HandlerSound, Starting, Closing, Launching, Ending
  <2>6. ASSUME NEW p \in Tunnels PROVE ProcessSound(p)'
    BY <1>1, <1>2, <2>1, <2>2, <2>3 DEF ProcessSound
  <2> QED
    BY <2>4, <2>5, <2>6 DEF TunnelInv
<1>4. CASE InstallEnds(h)
  <2>1. handler[h].pc = "install" /\ Leave(h)
        /\ (manager' = [manager EXCEPT !.available = TRUE, !.status = "idle"] \/ manager' = [manager EXCEPT !.status = "error"])
    BY <1>4 DEF InstallEnds, At
  <2>2. HandlerSound(h)
    BY <1>2
  <2>3. manager' \in ManagerRecords /\ manager'.process = "none" /\ manager'.status \in {"idle", "error"}
    <3>1. manager.process = "none" /\ manager \in ManagerRecords
      BY <1>2, <2>1, <2>2 DEF TunnelTypes, HandlerSound
    <3> QED
      BY <2>1, <3>1 DEF ManagerRecords
  <2>4. /\ handler' \in [Handlers -> HandlerRecords] /\ handler'[h].pc = "idle"
        /\ \A g \in Handlers \ {h} : handler'[g] = handler[g]
    BY <1>2, <2>1, LeaveWrites
  <2>5. TunnelTypes' /\ ManagerSound'
    BY <1>1, <1>2, <2>3, <2>4 DEF TunnelTypes, ManagerSound
  <2>6. ASSUME NEW g \in Handlers PROVE HandlerSound(g)'
    <3>1. ~manager.available /\ manager.process = "none" /\ \A e \in Handlers \ {h} : handler[e].pc # "install"
      BY <2>1, <2>2 DEF HandlerSound
    <3>2. HandlerSound(g)
      BY <1>2
    <3> QED
      BY <1>1, <2>1, <2>3, <2>4, <3>1, <3>2 DEF HandlerSound, Starting, Closing, Launching, Ending
  <2>7. ASSUME NEW p \in Tunnels PROVE ProcessSound(p)'
    <3>1. ProcessSound(p) /\ manager.process = "none"
      BY <1>2, <2>1, <2>2 DEF HandlerSound
    <3> QED
      BY <1>1, <2>1, <2>3, <2>4, <3>1 DEF ProcessSound
  <2> QED
    BY <2>5, <2>6, <2>7 DEF TunnelInv
<1> QED
  BY <1>3, <1>4

LEMMA StartKeepsHand ==
    ASSUME TunnelInv, NEW h \in Handlers, StartTunnel(h), ~crossed'
    PROVE  TunnelInv'
<1>1. /\ UNCHANGED <<manager, tunnel, listener>> /\ ~crossed /\ handler[h].pc = "idle"
      /\ manager.process = "none" /\ manager.available
      /\ \A g \in Handlers : handler[g].pc \notin Starting \cup Closing
      /\ handler' = [handler EXCEPT ![h] = [pc |-> "resolve", tunnel |-> "none", address |-> listener]]
  <2>1. StartTunnel(h) /\ ~crossed'
    OBVIOUS
  <2>2. Called(h) /\ Crosses(Starting \cup Closing)
    BY <2>1, Zenon DEF StartTunnel
  <2>3. ~crossed /\ handler[h].pc = "idle" /\ \A g \in Handlers : handler[g].pc \notin Starting \cup Closing
    BY <2>1, <2>2, NotCrossed, Zenon DEF Called, At
  <2> QED
    BY <2>1, <2>3, Zenon DEF StartTunnel
<1>2. TunnelTypes /\ ManagerSound /\ (\A g \in Handlers : HandlerSound(g)) /\ (\A p \in Tunnels : ProcessSound(p))
  BY <1>1 DEF TunnelInv
<1> DEFINE r == [pc |-> "resolve", tunnel |-> "none", address |-> listener]
<1>3. r \in HandlerRecords /\ r.pc = "resolve"
  BY <1>2 DEF TunnelTypes, HandlerRecords, Launching
<1> HIDE DEF r
<1>4. /\ handler' \in [Handlers -> HandlerRecords] /\ handler'[h].pc = "resolve"
      /\ \A g \in Handlers \ {h} : handler'[g] = handler[g]
  BY <1>1, <1>2, <1>3 DEF TunnelTypes, r
<1>5. TunnelTypes' /\ ManagerSound'
  BY <1>1, <1>2, <1>4 DEF TunnelTypes, ManagerSound
<1>6. ASSUME NEW g \in Handlers PROVE HandlerSound(g)'
  BY <1>1, <1>2, <1>4 DEF HandlerSound, Starting, Closing, Launching, Ending
<1>7. ASSUME NEW p \in Tunnels PROVE ProcessSound(p)'
  BY <1>1, <1>2, <1>4 DEF ProcessSound
<1> QED
  BY <1>5, <1>6, <1>7 DEF TunnelInv

\* The steps of a start before its process runs: it is the only one.
LEMMA LaunchingKeeps ==
    ASSUME TunnelInv, NEW h \in Handlers, ~crossed',
           StartFails(h) \/ MarkStarting(h) \/ Publish(h) \/ LaunchFails(h) \/ Launch(h)
    PROVE  TunnelInv'
<1>1. UNCHANGED <<listener, crossed>> /\ ~crossed
  BY DEF StartFails, MarkStarting, Publish, LaunchFails, Launch
<1>2. TunnelTypes /\ ManagerSound /\ (\A g \in Handlers : HandlerSound(g)) /\ (\A p \in Tunnels : ProcessSound(p))
  BY <1>1 DEF TunnelInv
<1>3. handler[h].pc \in Launching
  BY DEF StartFails, MarkStarting, Publish, LaunchFails, Launch, At, Launching
<1>4. HandlerSound(h) /\ manager.available
      /\ \A g \in Handlers \ {h} : handler[g].pc \notin Starting \cup Closing \cup {"install"}
  BY <1>2, <1>3 DEF HandlerSound, Starting, Launching
<1>5. CASE StartFails(h)
  <2>1. manager.process = "none" /\ manager' = ErrorState /\ Leave(h) /\ UNCHANGED tunnel
    BY <1>4, <1>5 DEF StartFails, At, HandlerSound
  <2>2. manager' \in ManagerRecords /\ manager'.process = "none" /\ manager'.status = "error" /\ manager'.available
    BY <1>2, <1>4, <2>1, ManagerWrites
  <2>3. /\ handler' \in [Handlers -> HandlerRecords] /\ handler'[h].pc = "idle"
        /\ \A g \in Handlers \ {h} : handler'[g] = handler[g]
    BY <1>2, <2>1, LeaveWrites
  <2>4. TunnelTypes' /\ ManagerSound'
    BY <1>1, <1>2, <2>1, <2>2, <2>3 DEF TunnelTypes, ManagerSound
  <2>5. ASSUME NEW g \in Handlers PROVE HandlerSound(g)'
    BY <1>2, <1>4, <2>1, <2>2, <2>3 DEF HandlerSound, Starting, Closing, Launching, Ending
  <2>6. ASSUME NEW p \in Tunnels PROVE ProcessSound(p)'
    <3>1. handler[h].pc # "launch"
      BY <1>5 DEF StartFails, At
    <3> QED
      BY <1>2, <2>1, <2>2, <2>3, <3>1 DEF ProcessSound
  <2> QED
    BY <2>4, <2>5, <2>6 DEF TunnelInv
<1>6. CASE MarkStarting(h)
  <2>1. /\ manager.process = "none" /\ To(h, "make") /\ UNCHANGED tunnel /\ handler[h].pc = "resolve"
        /\ manager' = [manager EXCEPT !.status = "starting", !.started = handler[h].address]
    BY <1>4, <1>6 DEF MarkStarting, At, HandlerSound
  <2>2. manager' \in ManagerRecords /\ manager'.process = "none" /\ manager'.status = "starting" /\ manager'.available
    BY <1>2, <1>4, <2>1 DEF TunnelTypes, ManagerRecords, HandlerRecords
  <2>3. /\ handler' \in [Handlers -> HandlerRecords] /\ handler'[h].pc = "make"
        /\ \A g \in Handlers \ {h} : handler'[g] = handler[g]
    BY <1>2, <2>1, ToWrites DEF Launching
  <2>4. TunnelTypes' /\ ManagerSound'
    BY <1>1, <1>2, <2>1, <2>2, <2>3 DEF TunnelTypes, ManagerSound
  <2>5. ASSUME NEW g \in Handlers PROVE HandlerSound(g)'
    BY <1>2, <1>4, <2>1, <2>2, <2>3 DEF HandlerSound, Starting, Closing, Launching, Ending
  <2>6. ASSUME NEW p \in Tunnels PROVE ProcessSound(p)'
    BY <1>2, <2>1, <2>2, <2>3 DEF ProcessSound
  <2> QED
    BY <2>4, <2>5, <2>6 DEF TunnelInv
<1>7. CASE Publish(h)
  <2>0. handler[h].pc = "make" /\ manager.process = "none" /\ manager.status = "starting"
    BY <1>4, <1>7, Zenon DEF Publish, At, HandlerSound
  <2>1. PICK p \in Tunnels :
          /\ tunnel[p] = Unmade /\ tunnel' = [tunnel EXCEPT ![p].state = "made"]
          /\ manager' = [manager EXCEPT !.process = p]
          /\ handler' = [handler EXCEPT ![h].pc = "launch", ![h].tunnel = p]
    BY <1>7, Zenon DEF Publish
  <2>2. manager' \in ManagerRecords /\ manager'.process = p /\ manager'.status = "starting" /\ manager'.available
    BY <1>2, <1>4, <2>0, <2>1 DEF TunnelTypes, ManagerRecords
  <2>3. /\ handler' \in [Handlers -> HandlerRecords] /\ handler'[h].pc = "launch" /\ handler'[h].tunnel = p
        /\ \A g \in Handlers \ {h} : handler'[g] = handler[g]
    <3> DEFINE r == [handler[h] EXCEPT !.pc = "launch", !.tunnel = p]
    <3>1. r \in HandlerRecords /\ r.pc = "launch" /\ r.tunnel = p
      BY <1>2 DEF TunnelTypes, HandlerRecords, Launching
    <3>2. handler' = [handler EXCEPT ![h] = r]
      BY <2>1
    <3> HIDE DEF r
    <3> QED
      BY <1>2, <3>1, <3>2 DEF TunnelTypes
  <2>4. /\ tunnel' \in [Tunnels -> TunnelRecords] /\ tunnel'[p].state = "made" /\ tunnel'[p].done = FALSE
        /\ \A q \in Tunnels \ {p} : tunnel'[q] = tunnel[q]
    <3> DEFINE r == [Unmade EXCEPT !.state = "made"]
    <3>1. r \in TunnelRecords /\ r.state = "made" /\ r.done = FALSE
      BY DEF Unmade, TunnelRecords
    <3>2. tunnel' = [tunnel EXCEPT ![p] = r]
      BY <2>1
    <3> HIDE DEF r
    <3> QED
      BY <1>2, <3>1, <3>2 DEF TunnelTypes
  <2>5. p # "none" /\ tunnel[p].state = "unmade"
    BY <2>1, TunnelConstants
  <2>6. TunnelTypes' /\ ManagerSound'
    BY <1>1, <1>2, <2>2, <2>3, <2>4, <2>5 DEF TunnelTypes, ManagerSound
  <2>7. ASSUME NEW g \in Handlers PROVE HandlerSound(g)'
    <3>1. CASE g = h
      BY <1>4, <2>2, <2>3, <2>4, <3>1 DEF HandlerSound, Starting, Closing, Launching, Ending
    <3>2. CASE g # h
      <4>1. HandlerSound(g) /\ handler'[g] = handler[g] /\ handler[g].pc \notin Starting \cup Closing \cup {"install"}
        BY <1>2, <1>4, <2>3, <3>2
      <4>2. handler[g].pc = "stop" => tunnel'[handler[g].tunnel] = tunnel[handler[g].tunnel]
        BY <2>4, <2>5, <4>1 DEF HandlerSound, Ending
      <4> QED
        BY <1>4, <2>2, <4>1, <4>2 DEF HandlerSound, Starting, Closing, Launching, Ending
    <3> QED
      BY <3>1, <3>2
  <2>8. ASSUME NEW q \in Tunnels PROVE ProcessSound(q)'
    <3>1. ProcessSound(q)
      BY <1>2
    <3>2. CASE q = p
      BY <2>2, <2>3, <2>4, <3>2 DEF ProcessSound
    <3>3. CASE q # p
      <4>1. \A g \in Handlers : handler[g].pc = "launch" => handler'[g] = handler[g]
        BY <2>0, <2>3
      <4> QED
        BY <2>0, <2>2, <2>4, <3>1, <3>3, <4>1, TunnelConstants DEF ProcessSound
    <3> QED
      BY <3>2, <3>3
  <2> QED
    BY <2>6, <2>7, <2>8 DEF TunnelInv
<1>8. ASSUME NEW p \in Tunnels, p = handler[h].tunnel, handler[h].pc = "launch", LaunchFails(h) \/ Launch(h)
      PROVE  TunnelInv'
  <2>1. manager.process = p /\ tunnel[p].state = "made" /\ manager.status = "starting"
    BY <1>4, <1>8 DEF HandlerSound
  <2>2. PICK state \in {"live", "reaped"} :
          /\ tunnel' = [tunnel EXCEPT ![p].state = state]
          /\ state = "live" => To(h, "wait") /\ UNCHANGED manager
          /\ state = "reaped" => Leave(h) /\ manager' = ErrorState
    BY <1>8, <2>1 DEF LaunchFails, Launch
  <2>3. /\ tunnel' \in [Tunnels -> TunnelRecords] /\ tunnel'[p].state = state /\ tunnel'[p].done = tunnel[p].done
        /\ \A q \in Tunnels \ {p} : tunnel'[q] = tunnel[q]
    <3> DEFINE r == [tunnel[p] EXCEPT !.state = state]
    <3>1. r \in TunnelRecords /\ r.state = state /\ r.done = tunnel[p].done
      BY <1>2 DEF TunnelTypes, TunnelRecords
    <3>2. tunnel' = [tunnel EXCEPT ![p] = r]
      BY <2>2
    <3> HIDE DEF r
    <3> QED
      BY <1>2, <3>1, <3>2 DEF TunnelTypes
  <2>4. /\ handler' \in [Handlers -> HandlerRecords]
        /\ \A g \in Handlers \ {h} : handler'[g] = handler[g]
        /\ state = "live" => handler'[h].pc = "wait" /\ handler'[h].tunnel = p
        /\ state = "reaped" => handler'[h].pc = "idle"
    BY <1>2, <1>8, <2>2, ToWrites, LeaveWrites
  <2>5. /\ manager' \in ManagerRecords /\ manager'.available
        /\ state = "live" => manager' = manager
        /\ state = "reaped" => manager'.process = "none" /\ manager'.status = "error"
    BY <1>2, <1>4, <2>2, ManagerWrites DEF TunnelTypes
  <2>6. TunnelTypes' /\ ManagerSound'
    BY <1>1, <1>2, <2>1, <2>3, <2>4, <2>5 DEF TunnelTypes, ManagerSound
  <2>7. ASSUME NEW g \in Handlers PROVE HandlerSound(g)'
    <3>1. CASE g = h
      BY <1>4, <1>8, <2>1, <2>3, <2>4, <2>5, <3>1 DEF HandlerSound, Starting, Closing, Launching, Ending
    <3>2. CASE g # h
      <4>1. HandlerSound(g) /\ handler'[g] = handler[g] /\ handler[g].pc \notin Starting \cup Closing \cup {"install"}
        BY <1>2, <1>4, <2>4, <3>2
      <4>2. handler[g].pc = "stop" => tunnel'[handler[g].tunnel] = tunnel[handler[g].tunnel]
        BY <2>1, <2>3, <4>1 DEF HandlerSound, Ending
      <4> QED
        BY <2>5, <4>1, <4>2 DEF HandlerSound, Starting, Closing, Launching, Ending
    <3> QED
      BY <3>1, <3>2
  <2>8. ASSUME NEW q \in Tunnels PROVE ProcessSound(q)'
    <3>1. ProcessSound(q)
      BY <1>2
    <3> QED
      BY <1>8, <2>1, <2>3, <2>4, <2>5, <3>1, TunnelConstants DEF ProcessSound
  <2> QED
    BY <2>6, <2>7, <2>8 DEF TunnelInv
<1>9. handler[h].pc = "launch" => handler[h].tunnel \in Tunnels
  BY <1>4 DEF HandlerSound
<1> QED
  BY <1>5, <1>6, <1>7, <1>8, <1>9 DEF LaunchFails, Launch, At

\* A handler stops waiting for its process, or waits on after interrupting it.
\* The manager lets go of its process only once that was interrupted.
LEMMA SettlingKeeps ==
    ASSUME TunnelTypes, ManagerSound, \A g \in Handlers : HandlerSound(g), \A p \in Tunnels : ProcessSound(p),
           ~crossed', listener' = listener, NEW h \in Handlers,
           tunnel' \in [Tunnels -> TunnelRecords],
           \A q \in Tunnels : tunnel'[q].state = tunnel[q].state,
           \A q \in Tunnels : (tunnel[q].asked => tunnel'[q].asked) /\ (tunnel'[q].done => tunnel[q].done),
           handler' \in [Handlers -> HandlerRecords], \A g \in Handlers \ {h} : handler'[g] = handler[g],
           \/ handler'[h].pc = "idle"
           \/ handler[h].pc = "move" /\ handler'[h].pc = "closed" /\ manager.available /\ manager'.process = "none"
           \/ /\ \/ handler[h].pc = "wait" /\ handler'[h].pc \in {"timeout", "gone"}
                 \/ handler[h].pc = "move" /\ handler'[h].pc = "failed"
              /\ handler'[h].tunnel = handler[h].tunnel
              /\ tunnel'[handler[h].tunnel].state # "live" \/ tunnel'[handler[h].tunnel].asked,
           handler[h].pc \in {"wait"} \cup Ending,
           manager' \in ManagerRecords, manager'.available = manager.available,
           manager'.process \in {manager.process, "none"}, ManagerSound',
           \A q \in Tunnels : manager.process = q /\ manager'.process # q =>
               tunnel[q].state # "made" /\ (tunnel[q].state # "live" \/ tunnel'[q].asked),
           manager' = manager \/ \A g \in Handlers : handler[g].pc \notin Launching \cup {"install"}
    PROVE  TunnelInv'
<1>1. TunnelTypes'
  BY DEF TunnelTypes
<1>2. ASSUME NEW g \in Handlers PROVE HandlerSound(g)'
  <2>1. HandlerSound(g) /\ HandlerSound(h)
    OBVIOUS
  <2>2. \A e \in Handlers : handler'[e].pc \in Starting => handler[e].pc \in Starting
    BY DEF Starting, Launching
  <2>3. \A e \in Handlers : /\ handler'[e].pc = "install" => handler[e].pc = handler'[e].pc
                            /\ handler'[e].pc \in Closing => handler[e].pc \in Closing
    BY DEF Closing
  <2>4. CASE g # h
    <3>1. handler'[g] = handler[g]
      BY <2>4
    <3>2. handler[g].pc \in {"launch", "wait"} \cup Ending => handler[g].tunnel \in Tunnels
      BY <2>1 DEF HandlerSound
    <3>3. handler[g].pc \in {"wait"} \cup Ending =>
            /\ tunnel'[handler[g].tunnel].state = tunnel[handler[g].tunnel].state
            /\ tunnel[handler[g].tunnel].asked => tunnel'[handler[g].tunnel].asked
      BY <3>2
    <3>4. handler[g].pc \in Launching \cup {"install"} => manager' = manager
      OBVIOUS
    <3>5. handler[g].pc = "launch" => tunnel'[handler[g].tunnel].state = tunnel[handler[g].tunnel].state
      BY <3>2
    <3> QED
      BY <2>1, <2>2, <2>3, <3>1, <3>2, <3>3, <3>4, <3>5 DEF HandlerSound, Starting, Closing, Launching, Ending
  <2>5. CASE g = h
    <3>1. handler[h].tunnel \in Tunnels /\ tunnel'[handler[h].tunnel].state = tunnel[handler[h].tunnel].state
      BY <2>1 DEF HandlerSound
    <3> QED
      BY <2>1, <2>2, <2>3, <2>5, <3>1 DEF HandlerSound, Starting, Closing, Launching, Ending
  <2> QED
    BY <2>4, <2>5
<1>3. ASSUME NEW q \in Tunnels PROVE ProcessSound(q)'
  <2>1. ProcessSound(q) /\ q # "none"
    BY TunnelConstants
  <2>2. \A g \in Handlers : handler[g].pc = "launch" => handler'[g] = handler[g]
    BY DEF Ending
  <2> QED
    BY <2>1, <2>2 DEF ProcessSound
<1> QED
  BY <1>1, <1>2, <1>3 DEF TunnelInv

LEMMA SettleHandKeeps ==
    ASSUME TunnelInv, NEW h \in Handlers, ~crossed',
           StartSucceeds(h) \/ TakeEnd(h) \/ GiveUp(h) \/ TimedOut(h) \/ StopCanceled(h) \/ (Revalidated(h) /\ At(h, "failed"))
    PROVE  TunnelInv'
<1>1. UNCHANGED <<listener, crossed>> /\ ~crossed
  BY DEF StartSucceeds, TakeEnd, GiveUp, TimedOut, StopCanceled, Revalidated
<1>2. TunnelTypes /\ ManagerSound /\ (\A g \in Handlers : HandlerSound(g)) /\ (\A p \in Tunnels : ProcessSound(p))
  BY <1>1 DEF TunnelInv
<1>3. handler[h].pc \in {"wait"} \cup Ending
  BY DEF StartSucceeds, TakeEnd, GiveUp, TimedOut, StopCanceled, Revalidated, At, Ending
<1>4. PICK p \in Tunnels : p = handler[h].tunnel
  BY <1>2, <1>3 DEF HandlerSound
<1>5. /\ tunnel[p].state \in {"live", "exited", "reaped"} /\ manager.available /\ p # "none"
      /\ handler[h].pc \in {"wait", "timeout", "gone", "move", "failed"} => manager.process \in {p, "none"}
  BY <1>2, <1>3, <1>4, TunnelConstants DEF HandlerSound, Ending
<1>6. handler[h].pc # "stop" => \A g \in Handlers : handler[g].pc \notin Launching \cup {"install"}
  BY <1>2, <1>3, <1>5 DEF HandlerSound, Starting, Closing, Launching, Ending
<1> DEFINE Quiet == /\ tunnel' \in [Tunnels -> TunnelRecords]
                    /\ \A q \in Tunnels : tunnel'[q].state = tunnel[q].state
                    /\ \A q \in Tunnels : (tunnel[q].asked => tunnel'[q].asked) /\ (tunnel'[q].done => tunnel[q].done)
<1>7. ASSUME NEW r \in TunnelRecords, r.state = tunnel[p].state, tunnel[p].asked => r.asked, r.done => tunnel[p].done,
             tunnel' = [tunnel EXCEPT ![p] = r]
      PROVE  Quiet
  BY <1>2, <1>7 DEF TunnelTypes
<1>8. ASSUME tunnel' = Interrupted(p) PROVE Quiet /\ (tunnel[p].state # "live" \/ tunnel'[p].asked)
  <2>1. /\ tunnel' \in [Tunnels -> TunnelRecords]
        /\ tunnel'[p].state = tunnel[p].state /\ tunnel'[p].done = tunnel[p].done
        /\ tunnel'[p].state = "live" => tunnel'[p].asked
        /\ \A q \in Tunnels \ {p} : tunnel'[q] = tunnel[q]
    BY <1>2, <1>8, InterruptedWrites
  <2>2. tunnel[p].asked => tunnel'[p].asked
    <3>1. tunnel'[p].asked = (tunnel[p].asked \/ tunnel[p].state = "live")
      BY <1>2, <1>8 DEF Interrupted, TunnelTypes, TunnelRecords
    <3> QED
      BY <3>1
  <2> QED
    BY <2>1, <2>2
<1>9. ASSUME tunnel' = [tunnel EXCEPT ![p].done = FALSE] PROVE Quiet
  <2> DEFINE r == [tunnel[p] EXCEPT !.done = FALSE]
  <2>1. r \in TunnelRecords /\ r.state = tunnel[p].state /\ r.asked = tunnel[p].asked /\ r.done = FALSE
    BY <1>2 DEF TunnelTypes, TunnelRecords
  <2>2. tunnel' = [tunnel EXCEPT ![p] = r]
    BY <1>9
  <2> HIDE DEF r, Quiet
  <2> QED
    BY <1>7, <2>1, <2>2
<1>10. ASSUME tunnel' = [tunnel EXCEPT ![p].url = FALSE] PROVE Quiet
  <2> DEFINE r == [tunnel[p] EXCEPT !.url = FALSE]
  <2>1. r \in TunnelRecords /\ r.state = tunnel[p].state /\ r.asked = tunnel[p].asked /\ r.done = tunnel[p].done
    BY <1>2 DEF TunnelTypes, TunnelRecords
  <2>2. tunnel' = [tunnel EXCEPT ![p] = r]
    BY <1>10
  <2> HIDE DEF r, Quiet
  <2> QED
    BY <1>7, <2>1, <2>2
<1>11. Leave(h) =>
         /\ handler' \in [Handlers -> HandlerRecords] /\ handler'[h].pc = "idle"
         /\ \A g \in Handlers \ {h} : handler'[g] = handler[g]
  BY <1>2, LeaveWrites
<1>12. CASE StartSucceeds(h)
  <2>1. /\ handler[h].pc = "wait" /\ tunnel' = [tunnel EXCEPT ![p].url = FALSE] /\ Leave(h)
        /\ manager' = IF manager.process = p THEN [manager EXCEPT !.status = "running"] ELSE manager
    BY <1>4, <1>12 DEF StartSucceeds, At
  <2>2. /\ manager' \in ManagerRecords /\ manager'.available = manager.available /\ manager'.process = manager.process
        /\ manager.process = p => manager'.status = "running"
        /\ manager.process # p => manager' = manager
    BY <1>2, <2>1 DEF TunnelTypes, ManagerRecords
  <2>3. ManagerSound'
    BY <1>2, <1>5, <2>2 DEF ManagerSound
  <2> QED
    BY <1>1, <1>2, <1>3, <1>5, <1>6, <1>10, <1>11, <2>1, <2>2, <2>3, SettlingKeeps
<1>13. CASE TakeEnd(h)
  <2>1. tunnel[p].done /\ tunnel' = [tunnel EXCEPT ![p].done = FALSE] /\ manager' = manager
    BY <1>4, <1>13 DEF TakeEnd
  <2>2. tunnel[p].state = "reaped" /\ manager.process # p
    BY <1>2, <2>1 DEF ProcessSound
  <2>3. ManagerSound' /\ manager' \in ManagerRecords
    BY <1>2, <2>1 DEF ManagerSound, TunnelTypes
  <2>4. CASE handler[h].pc # "move"
    <3>1. Leave(h)
      BY <1>13, <2>4 DEF TakeEnd, At
    <3> QED
      BY <1>1, <1>2, <1>3, <1>9, <1>11, <2>1, <2>3, <3>1, SettlingKeeps
  <2>5. CASE handler[h].pc = "move"
    <3> DEFINE r == [Resting EXCEPT !.pc = "closed"]
    <3>1. r \in HandlerRecords /\ r.pc = "closed"
      BY TunnelConstants DEF HandlerRecords, Resting
    <3>2. handler' = [handler EXCEPT ![h] = r]
      BY <1>13, <2>5 DEF TakeEnd, At
    <3> HIDE DEF r
    <3>3. /\ handler' \in [Handlers -> HandlerRecords] /\ handler'[h].pc = "closed"
          /\ \A g \in Handlers \ {h} : handler'[g] = handler[g]
      BY <1>2, <3>1, <3>2 DEF TunnelTypes
    <3>4. manager.process = "none"
      BY <1>5, <2>2, <2>5
    <3> QED
      BY <1>1, <1>2, <1>3, <1>5, <1>9, <2>1, <2>3, <2>5, <3>3, <3>4, SettlingKeeps
  <2> QED
    BY <2>4, <2>5
<1>14. CASE GiveUp(h)
  <2>1. handler[h].pc = "wait" /\ (To(h, "timeout") \/ To(h, "gone")) /\ tunnel' = Interrupted(p) /\ manager' = manager
    BY <1>4, <1>14 DEF GiveUp, At
  <2>2. /\ handler' \in [Handlers -> HandlerRecords] /\ handler'[h].pc \in {"timeout", "gone"}
        /\ handler'[h].tunnel = p /\ \A g \in Handlers \ {h} : handler'[g] = handler[g]
    BY <1>2, <1>4, <2>1, ToWrites DEF Ending
  <2>3. ManagerSound' /\ manager' \in ManagerRecords
    BY <1>2, <2>1 DEF ManagerSound, TunnelTypes
  <2> QED
    BY <1>1, <1>2, <1>3, <1>4, <1>8, <2>1, <2>2, <2>3, SettlingKeeps
<1>15. tunnel[p].done => tunnel[p].state = "reaped"
  BY <1>2 DEF ProcessSound
<1>16. ASSUME EndOrKill(p) PROVE Quiet /\ (tunnel[p].state # "live" \/ tunnel'[p].asked)
  <2>1. CASE tunnel[p].done /\ tunnel' = [tunnel EXCEPT ![p].done = FALSE]
    BY <1>9, <1>15, <2>1
  <2>2. CASE tunnel' = Interrupted(p)
    BY <1>8, <2>2
  <2> HIDE DEF Quiet
  <2> QED
    BY <1>16, <2>1, <2>2 DEF EndOrKill
<1>17. ASSUME handler[h].pc \in {"timeout", "failed"}, manager' = ErrorState, Leave(h), Quiet,
              tunnel[p].state # "live" \/ tunnel'[p].asked
       PROVE  TunnelInv'
  <2>1. /\ manager' \in ManagerRecords /\ manager'.available = manager.available /\ manager'.process = "none"
        /\ manager'.status = "error"
    BY <1>2, <1>17, ManagerWrites
  <2>2. ManagerSound'
    BY <2>1 DEF ManagerSound
  <2>3. \A q \in Tunnels : manager.process = q /\ manager'.process # q =>
            tunnel[q].state # "made" /\ (tunnel[q].state # "live" \/ tunnel'[q].asked)
    BY <1>5, <1>17, TunnelConstants
  <2> QED
    BY <1>1, <1>2, <1>3, <1>6, <1>11, <1>17, <2>1, <2>2, <2>3, SettlingKeeps
<1>18. CASE TimedOut(h)
  <2>1. handler[h].pc = "timeout" /\ manager' = ErrorState /\ Leave(h) /\ EndOrKill(p)
    BY <1>4, <1>18 DEF TimedOut, At
  <2> HIDE DEF Quiet
  <2> QED
    BY <1>16, <1>17, <2>1
<1>19. CASE Revalidated(h) /\ At(h, "failed")
  <2>1. handler[h].pc = "failed" /\ manager' = ErrorState /\ Leave(h) /\ tunnel' = tunnel
    BY <1>19 DEF Revalidated, At
  <2>2. tunnel[p].state # "live" \/ tunnel'[p].asked
    BY <1>2, <1>4, <2>1 DEF HandlerSound, Ending
  <2>3. Quiet
    BY <1>2, <2>1 DEF TunnelTypes
  <2> HIDE DEF Quiet
  <2> QED
    BY <1>17, <2>1, <2>2, <2>3
<1>20. CASE StopCanceled(h)
  <2>1. EndOrKill(p) /\ manager' = manager
    BY <1>4, <1>20 DEF StopCanceled
  <2>2. ManagerSound' /\ manager' \in ManagerRecords
    BY <1>2, <2>1 DEF ManagerSound, TunnelTypes
  <2>3. CASE handler[h].pc = "stop" /\ Leave(h)
    BY <1>1, <1>2, <1>3, <1>11, <1>16, <2>1, <2>2, <2>3, SettlingKeeps
  <2>4. CASE handler[h].pc = "move" /\ To(h, "failed")
    <3>1. /\ handler' \in [Handlers -> HandlerRecords] /\ handler'[h].pc = "failed"
          /\ handler'[h].tunnel = p /\ \A g \in Handlers \ {h} : handler'[g] = handler[g]
      BY <1>2, <1>4, <2>4, ToWrites DEF Ending
    <3>2. tunnel'[p].state # "live" \/ tunnel'[p].asked
      BY <1>16, <2>1
    <3> QED
      BY <1>1, <1>2, <1>3, <1>4, <1>16, <2>1, <2>2, <2>4, <3>1, <3>2, SettlingKeeps
  <2> QED
    BY <1>20, <2>3, <2>4 DEF StopCanceled, At
<1> QED
  BY <1>12, <1>13, <1>14, <1>18, <1>19, <1>20

\* The address is compared: the process seen means that one can be run.
LEMMA AddressLookedAtKeeps == ASSUME TunnelInv, NEW h \in Handlers, RevalidateAddress(h), ~crossed' PROVE TunnelInv'
<1>1. /\ UNCHANGED <<manager, tunnel, listener, crossed>> /\ ~crossed /\ handler[h].pc = "idle"
      /\ manager.process # "none" /\ To(h, "moved")
  BY Zenon DEF RevalidateAddress, Called, At
<1>2. TunnelTypes /\ ManagerSound /\ (\A g \in Handlers : HandlerSound(g)) /\ (\A p \in Tunnels : ProcessSound(p))
  BY <1>1 DEF TunnelInv
<1>3. /\ handler' \in [Handlers -> HandlerRecords] /\ handler'[h].pc = "moved"
      /\ \A g \in Handlers \ {h} : handler'[g] = handler[g]
  BY <1>1, <1>2, ToWrites
<1>4. TunnelTypes' /\ ManagerSound' /\ manager.available
  BY <1>1, <1>2, <1>3 DEF TunnelTypes, ManagerSound
<1>5. ASSUME NEW g \in Handlers PROVE HandlerSound(g)'
  BY <1>1, <1>2, <1>3, <1>4 DEF HandlerSound, Starting, Closing, Launching, Ending
<1>6. ASSUME NEW p \in Tunnels PROVE ProcessSound(p)'
  BY <1>1, <1>2, <1>3 DEF ProcessSound
<1> QED
  BY <1>4, <1>5, <1>6 DEF TunnelInv

\* The end of a revalidation whose stop found nothing left to stop.
LEMMA RevalidatedKeeps ==
    ASSUME TunnelInv, NEW h \in Handlers, Revalidated(h), At(h, "closed"), ~crossed'
    PROVE  TunnelInv'
<1>1. /\ UNCHANGED <<tunnel, listener, crossed>> /\ ~crossed /\ handler[h].pc = "closed" /\ Leave(h)
      /\ manager' = [manager EXCEPT !.status = "error", !.started = "none"]
  BY DEF Revalidated, At
<1>2. TunnelTypes /\ ManagerSound /\ (\A g \in Handlers : HandlerSound(g)) /\ (\A p \in Tunnels : ProcessSound(p))
  BY <1>1 DEF TunnelInv
<1>3. manager.process = "none" /\ manager.available /\ \A g \in Handlers : handler[g].pc \notin Launching \cup {"install"}
  BY <1>1, <1>2 DEF HandlerSound, Closing
<1>4. manager' \in ManagerRecords /\ manager'.process = "none" /\ manager'.status = "error" /\ manager'.available
  BY <1>1, <1>2, <1>3 DEF TunnelTypes, ManagerRecords
<1>5. /\ handler' \in [Handlers -> HandlerRecords] /\ handler'[h].pc = "idle"
      /\ \A g \in Handlers \ {h} : handler'[g] = handler[g]
  BY <1>1, <1>2, LeaveWrites
<1>6. TunnelTypes' /\ ManagerSound'
  BY <1>1, <1>2, <1>4, <1>5 DEF TunnelTypes, ManagerSound
<1>7. ASSUME NEW g \in Handlers PROVE HandlerSound(g)'
  BY <1>1, <1>2, <1>3, <1>4, <1>5 DEF HandlerSound, Starting, Closing, Launching, Ending
<1>8. ASSUME NEW p \in Tunnels PROVE ProcessSound(p)'
  BY <1>1, <1>2, <1>3, <1>4, <1>5 DEF ProcessSound
<1> QED
  BY <1>6, <1>7, <1>8 DEF TunnelInv

LEMMA StopKeeps ==
    ASSUME TunnelInv, NEW h \in Handlers, ~crossed', StopTunnel(h)
    PROVE  TunnelInv'
<1> DEFINE pc == IF At(h, "moved") THEN "move" ELSE "stop"
<1>1. /\ manager.process # "none" /\ (Called(h) \/ At(h, "moved")) /\ Crosses(Launching) /\ listener' = listener
      /\ tunnel' = [Interrupted(manager.process) EXCEPT ![manager.process].stop = TRUE]
      /\ manager' = [manager EXCEPT !.status = "stopping"]
      /\ handler' = [handler EXCEPT ![h].pc = pc, ![h].tunnel = manager.process]
  BY Zenon DEF StopTunnel
<1>2. ~crossed /\ \A g \in Handlers : handler[g].pc \notin Launching
  BY <1>1, NotCrossed, Zenon
<1>3. TunnelTypes /\ ManagerSound /\ (\A g \in Handlers : HandlerSound(g)) /\ (\A p \in Tunnels : ProcessSound(p))
  BY <1>2 DEF TunnelInv
<1>4. PICK p \in Tunnels : p = manager.process
  BY <1>1, <1>3 DEF TunnelTypes, ManagerRecords
<1>5. /\ handler[h].pc \in {"idle", "moved"} /\ manager.available /\ p # "none"
      /\ tunnel[p].state \in {"live", "exited"} /\ tunnel[p].done = FALSE /\ pc \in {"stop", "move"}
  <2>1. handler[h].pc \in {"idle", "moved"} /\ pc \in {"stop", "move"}
    BY <1>1 DEF Called, At
  <2>2. tunnel[p].done \in BOOLEAN
    BY <1>3 DEF TunnelTypes, TunnelRecords
  <2> QED
    BY <1>1, <1>2, <1>3, <1>4, <2>1, <2>2 DEF ManagerSound, ProcessSound, Launching
<1>6. /\ manager' \in ManagerRecords /\ manager'.process = p /\ manager'.status = "stopping" /\ manager'.available
  BY <1>1, <1>3, <1>4, <1>5 DEF TunnelTypes, ManagerRecords
<1>7. /\ handler' \in [Handlers -> HandlerRecords] /\ handler'[h].pc = pc /\ handler'[h].tunnel = p
      /\ \A g \in Handlers \ {h} : handler'[g] = handler[g]
  <2> DEFINE r == [handler[h] EXCEPT !.pc = pc, !.tunnel = p]
  <2>1. r \in HandlerRecords /\ r.pc = pc /\ r.tunnel = p
    BY <1>3 DEF TunnelTypes, HandlerRecords, Ending
  <2>2. handler' = [handler EXCEPT ![h] = r]
    BY <1>1, <1>4
  <2> HIDE DEF r
  <2> QED
    BY <1>3, <2>1, <2>2 DEF TunnelTypes
<1>8. /\ tunnel' \in [Tunnels -> TunnelRecords] /\ tunnel'[p].state = tunnel[p].state /\ tunnel'[p].done = FALSE
      /\ tunnel'[p].state = "live" => tunnel'[p].asked
      /\ \A q \in Tunnels \ {p} : tunnel'[q] = tunnel[q]
  <2> DEFINE i == [tunnel[p] EXCEPT !.asked = @ \/ tunnel[p].state = "live"]
             r == [i EXCEPT !.stop = TRUE]
  <2>1. tunnel[p] \in TunnelRecords /\ (tunnel[p].asked \/ tunnel[p].state = "live") \in BOOLEAN
    BY <1>3 DEF TunnelTypes
  <2>2. i \in TunnelRecords /\ i.state = tunnel[p].state /\ i.done = tunnel[p].done
        /\ i.asked = (tunnel[p].asked \/ tunnel[p].state = "live")
    BY <2>1 DEF TunnelRecords
  <2>3. Interrupted(p) = [tunnel EXCEPT ![p] = i]
    BY DEF Interrupted
  <2>4. Interrupted(p)[p] = i
    BY <1>3, <2>3 DEF TunnelTypes
  <2> HIDE DEF i
  <2>5. r \in TunnelRecords /\ r.state = i.state /\ r.done = i.done /\ r.asked = i.asked
    BY <2>2 DEF TunnelRecords
  <2>6. tunnel' = [[tunnel EXCEPT ![p] = i] EXCEPT ![p] = r]
    BY <1>1, <1>4, <2>3, <2>4
  <2> HIDE DEF r
  <2> QED
    BY <1>3, <1>5, <2>2, <2>5, <2>6 DEF TunnelTypes
<1>9. TunnelTypes' /\ ManagerSound'
  BY <1>1, <1>3, <1>5, <1>6, <1>7, <1>8 DEF TunnelTypes, ManagerSound
<1>10. ASSUME NEW g \in Handlers PROVE HandlerSound(g)'
  <2>1. CASE g = h
    BY <1>2, <1>5, <1>6, <1>7, <1>8, <2>1 DEF HandlerSound, Starting, Closing, Launching, Ending
  <2>2. CASE g # h
    <3>1. HandlerSound(g) /\ handler'[g] = handler[g] /\ handler[g].pc \notin Launching \cup {"install"}
      BY <1>2, <1>3, <1>5, <1>7, <2>2 DEF HandlerSound
    <3>2. handler[g].pc \in {"wait"} \cup Ending =>
            /\ handler[g].tunnel \in Tunnels
            /\ tunnel'[handler[g].tunnel].state = tunnel[handler[g].tunnel].state
            /\ tunnel'[handler[g].tunnel].state = "live" /\ tunnel[handler[g].tunnel].asked =>
                  tunnel'[handler[g].tunnel].asked
      BY <1>8, <3>1 DEF HandlerSound
    <3>3. \A e \in Handlers : handler'[e].pc \in Starting => handler[e].pc \in Starting
      BY <1>7 DEF Starting, Launching
    <3> QED
      BY <1>4, <1>6, <3>1, <3>2, <3>3 DEF HandlerSound, Starting, Closing, Launching, Ending
  <2> QED
    BY <2>1, <2>2
<1>11. ASSUME NEW q \in Tunnels PROVE ProcessSound(q)'
  <2>1. ProcessSound(q)
    BY <1>3
  <2>2. tunnel[q].state # "made"
    BY <1>2, <2>1 DEF ProcessSound, Launching
  <2> QED
    BY <1>4, <1>5, <1>6, <1>8, <2>1, <2>2 DEF ProcessSound
<1> QED
  BY <1>9, <1>10, <1>11 DEF TunnelInv

LEMMA StopIdleKeeps == ASSUME TunnelInv, NEW h \in Handlers, ~crossed', StopIdle(h) PROVE TunnelInv'
<1>1. /\ manager.process = "none" /\ manager.status # "installing" /\ Crosses(Launching)
      /\ manager' = [manager EXCEPT !.status = IdleStatus, !.started = "none"]
      /\ UNCHANGED <<tunnel, listener>>
      /\ handler' = handler \/ (At(h, "moved") /\ To(h, "closed"))
  BY Zenon DEF StopIdle
<1>2. ~crossed /\ \A g \in Handlers : handler[g].pc \notin Launching
  BY <1>1, NotCrossed, Zenon
<1>3. TunnelTypes /\ ManagerSound /\ (\A g \in Handlers : HandlerSound(g)) /\ (\A p \in Tunnels : ProcessSound(p))
  BY <1>2 DEF TunnelInv
<1>4. IdleStatus \in {"idle", "unavailable"}
  BY <1>3, ManagerWrites
<1>5. /\ manager' \in ManagerRecords /\ manager'.process = "none" /\ manager'.status \in {"idle", "unavailable"}
      /\ manager'.available = manager.available
  BY <1>1, <1>3, <1>4 DEF TunnelTypes, ManagerRecords
<1>6. /\ handler' \in [Handlers -> HandlerRecords]
      /\ \A g \in Handlers : \/ handler'[g] = handler[g]
                             \/ handler[g].pc = "moved" /\ handler'[g].pc = "closed"
  BY <1>1, <1>3, ToWrites DEF TunnelTypes, At
<1>7. TunnelTypes' /\ ManagerSound'
  BY <1>1, <1>3, <1>5, <1>6 DEF TunnelTypes, ManagerSound
<1>8. ASSUME NEW g \in Handlers PROVE HandlerSound(g)'
  <2>1. HandlerSound(g) /\ handler[g].pc \notin Launching
    BY <1>2, <1>3
  <2>2. \A e \in Handlers : /\ handler'[e].pc \in Starting => handler[e].pc \in Starting
                            /\ handler'[e].pc = "install" => handler[e].pc = "install"
    BY <1>6 DEF Starting, Launching
  <2> QED
    BY <1>1, <1>5, <1>6, <2>1, <2>2 DEF HandlerSound, Starting, Launching, Ending
<1>9. ASSUME NEW q \in Tunnels PROVE ProcessSound(q)'
  <2>1. \A g \in Handlers : handler[g].pc = "launch" => handler'[g] = handler[g]
    BY <1>6
  <2> QED
    BY <1>1, <1>3, <1>5, <2>1 DEF ProcessSound
<1> QED
  BY <1>7, <1>8, <1>9 DEF TunnelInv

\* The process prints its address, ends, or is waited for.
LEMMA ProcessKeeps ==
    ASSUME TunnelInv, NEW p \in Tunnels, ~crossed', PrintURL(p) \/ Exit(p) \/ Reap(p)
    PROVE  TunnelInv'
<1>1. UNCHANGED <<handler, listener, crossed>> /\ ~crossed /\ tunnel[p].state \in {"live", "exited"}
  BY DEF PrintURL, Exit, Reap
<1>2. TunnelTypes /\ ManagerSound /\ (\A g \in Handlers : HandlerSound(g)) /\ (\A q \in Tunnels : ProcessSound(q))
  BY <1>1 DEF TunnelInv
<1>3. \E r \in TunnelRecords :
        /\ tunnel' = [tunnel EXCEPT ![p] = r] /\ r.asked = tunnel[p].asked
        /\ \/ r.state \in {tunnel[p].state, "exited"} /\ r.done = tunnel[p].done /\ manager' = manager
           \/ /\ r.state = "reaped" /\ (manager.process # p => manager' = manager)
              /\ manager.process = p =>
                   manager' = [manager EXCEPT !.process = "none", !.started = "none",
                                   !.status = IF tunnel[p].stop THEN IdleStatus ELSE "error"]
  <2>1. tunnel[p] \in TunnelRecords
    BY <1>2 DEF TunnelTypes
  <2>2. CASE PrintURL(p)
    <3>1. /\ [tunnel[p] EXCEPT !.url = TRUE] \in TunnelRecords
          /\ tunnel' = [tunnel EXCEPT ![p] = [tunnel[p] EXCEPT !.url = TRUE]] /\ manager' = manager
      BY <2>1, <2>2 DEF TunnelRecords, PrintURL
    <3> QED
      BY <2>1, <3>1 DEF TunnelRecords
  <2>3. CASE Exit(p)
    <3>1. /\ [tunnel[p] EXCEPT !.state = "exited"] \in TunnelRecords
          /\ tunnel' = [tunnel EXCEPT ![p] = [tunnel[p] EXCEPT !.state = "exited"]] /\ manager' = manager
      BY <2>1, <2>3 DEF TunnelRecords, Exit
    <3> QED
      BY <2>1, <3>1 DEF TunnelRecords
  <2>4. CASE Reap(p)
    <3> DEFINE r == [tunnel[p] EXCEPT !.state = "reaped", !.done = TRUE]
    <3>1. r \in TunnelRecords /\ r.state = "reaped" /\ r.asked = tunnel[p].asked
      BY <2>1 DEF TunnelRecords
    <3>2. tunnel' = [tunnel EXCEPT ![p] = r]
      BY <2>4 DEF Reap
    <3>3. manager' = IF manager.process # p THEN manager
                     ELSE [manager EXCEPT !.process = "none", !.started = "none",
                               !.status = IF tunnel[p].stop THEN IdleStatus ELSE "error"]
      BY <2>4, Zenon DEF Reap
    <3> HIDE DEF r
    <3> QED
      BY <3>1, <3>2, <3>3
  <2> QED
    BY <2>2, <2>3, <2>4
<1>4. PICK r \in TunnelRecords :
        /\ tunnel' = [tunnel EXCEPT ![p] = r] /\ r.asked = tunnel[p].asked
        /\ \/ r.state \in {tunnel[p].state, "exited"} /\ r.done = tunnel[p].done /\ manager' = manager
           \/ /\ r.state = "reaped" /\ (manager.process # p => manager' = manager)
              /\ manager.process = p =>
                   manager' = [manager EXCEPT !.process = "none", !.started = "none",
                                   !.status = IF tunnel[p].stop THEN IdleStatus ELSE "error"]
  BY <1>3
<1>5. /\ tunnel' \in [Tunnels -> TunnelRecords] /\ tunnel'[p] = r
      /\ \A q \in Tunnels \ {p} : tunnel'[q] = tunnel[q]
  BY <1>2, <1>4 DEF TunnelTypes
<1>6. /\ manager' \in ManagerRecords /\ manager'.available = manager.available
      /\ \/ manager' = manager /\ (manager.process = p => r.state # "reaped")
         \/ /\ manager.process = p /\ manager'.process = "none" /\ r.state = "reaped"
            /\ manager'.status \in {"idle", "unavailable", "error"}
  <2>1. manager \in ManagerRecords /\ IdleStatus \in {"idle", "unavailable"}
    BY <1>2, ManagerWrites DEF TunnelTypes
  <2>2. CASE manager' = manager /\ (manager.process = p => r.state # "reaped")
    BY <2>1, <2>2
  <2>3. CASE /\ manager.process = p /\ r.state = "reaped"
             /\ manager' = [manager EXCEPT !.process = "none", !.started = "none",
                                !.status = IF tunnel[p].stop THEN IdleStatus ELSE "error"]
    <3>1. PICK status \in {"idle", "unavailable", "error"} :
            manager' = [manager EXCEPT !.process = "none", !.started = "none", !.status = status]
      BY <2>1, <2>3
    <3> QED
      BY <2>1, <2>3, <3>1 DEF ManagerRecords
  <2> QED
    BY <1>1, <1>4, <2>2, <2>3
<1>7. TunnelTypes' /\ ManagerSound'
  BY <1>1, <1>2, <1>5, <1>6 DEF TunnelTypes, ManagerSound
<1>8. ASSUME NEW g \in Handlers PROVE HandlerSound(g)'
  <2>1. HandlerSound(g) /\ handler' = handler
    BY <1>1, <1>2
  <2>2. handler[g].pc \in {"resolve", "make", "launch", "install"} => manager' = manager
    BY <1>1, <1>6, <2>1, TunnelConstants DEF HandlerSound
  <2>3. handler[g].pc = "launch" => handler[g].tunnel # p
    BY <1>1, <2>1 DEF HandlerSound
  <2>4. handler[g].pc \in {"wait"} \cup Ending =>
          /\ tunnel'[handler[g].tunnel].state \in {"live", "exited", "reaped"}
          /\ tunnel'[handler[g].tunnel].state = "live" => tunnel[handler[g].tunnel].state = "live"
          /\ tunnel'[handler[g].tunnel].asked = tunnel[handler[g].tunnel].asked
    BY <1>1, <1>4, <1>5, <2>1 DEF HandlerSound
  <2>5. handler[g].pc = "launch" => tunnel'[handler[g].tunnel] = tunnel[handler[g].tunnel]
    BY <1>5, <2>1, <2>3 DEF HandlerSound
  <2> QED
    BY <1>6, <2>1, <2>2, <2>4, <2>5 DEF HandlerSound, Starting, Closing, Launching, Ending
<1>9. ASSUME NEW q \in Tunnels PROVE ProcessSound(q)'
  <2>1. ProcessSound(q) /\ q # "none"
    BY <1>2, TunnelConstants
  <2>2. CASE q = p
    BY <1>1, <1>4, <1>5, <1>6, <2>1, <2>2 DEF ProcessSound
  <2>3. CASE q # p
    BY <1>1, <1>5, <1>6, <2>1, <2>3 DEF ProcessSound
  <2> QED
    BY <2>2, <2>3
<1> QED
  BY <1>7, <1>8, <1>9 DEF TunnelInv

LEMMA TunnelInHandByInv == TunnelInv => TunnelInHand
<1> SUFFICES ASSUME TunnelInv, ~crossed PROVE TunnelInHand
  BY DEF TunnelInHand
<1>1. ManagerSound /\ (\A h \in Handlers : HandlerSound(h)) /\ (\A p \in Tunnels : ProcessSound(p))
  BY DEF TunnelInv
<1>2. ASSUME NEW p \in Tunnels
      PROVE  /\ tunnel[p].state = "live" => manager.process = p \/ tunnel[p].asked
             /\ tunnel[p].state = "made" => \/ manager.process = p
                                            \/ \E h \in Handlers : handler[h].pc = "launch" /\ handler[h].tunnel = p
             /\ manager.process = p => tunnel[p].state \in {"made", "live", "exited"}
  BY <1>1 DEF ProcessSound
<1> QED
  BY <1>1, <1>2 DEF TunnelInHand, ManagerSound

\* The temporary tunnel's manager (temporary_tunnel.go) under any number of
\* concurrent starts, stops, installs and revalidations: unless two of them
\* crossed, a cloudflared that runs is the one the manager holds or was told to
\* end, so that there is one public tunnel and a Stop reaches it.
THEOREM TunnelStaysInHand == TunnelSpec => []TunnelInHand
<1>1. TunnelInv /\ [TunnelNext]_tunnelVars => TunnelInv'
  <2> SUFFICES ASSUME TunnelInv, [TunnelNext]_tunnelVars, ~crossed' PROVE TunnelInv'
    BY DEF TunnelInv
  <2>1. ASSUME NEW h \in Handlers,
               \/ InstallBegins(h) \/ InstallEnds(h)
               \/ StartTunnel(h) \/ StartFails(h) \/ MarkStarting(h) \/ Publish(h)
               \/ LaunchFails(h) \/ Launch(h) \/ StartSucceeds(h) \/ GiveUp(h) \/ TimedOut(h)
               \/ TakeEnd(h) \/ RevalidateAddress(h) \/ StopIdle(h) \/ StopTunnel(h) \/ StopCanceled(h) \/ Revalidated(h)
        PROVE  TunnelInv'
    <3>1. CASE InstallBegins(h) \/ InstallEnds(h) \/ StartTunnel(h)
      BY <3>1, InstallKeeps, StartKeepsHand, Zenon
    <3>2. CASE StartFails(h) \/ MarkStarting(h) \/ Publish(h) \/ LaunchFails(h) \/ Launch(h)
      BY <3>2, LaunchingKeeps, Zenon
    <3>3. CASE StartSucceeds(h) \/ GiveUp(h) \/ TimedOut(h) \/ TakeEnd(h) \/ StopCanceled(h)
      BY <3>3, SettleHandKeeps, Zenon
    <3>4. CASE RevalidateAddress(h) \/ StopIdle(h) \/ StopTunnel(h)
      BY <3>4, AddressLookedAtKeeps, StopIdleKeeps, StopKeeps
    <3>5. CASE Revalidated(h)
      <4>1. At(h, "closed") \/ At(h, "failed")
        BY <3>5 DEF Revalidated
      <4> QED
        BY <3>5, <4>1, SettleHandKeeps, RevalidatedKeeps, Zenon
    <3> QED
      BY <2>1, <3>1, <3>2, <3>3, <3>4, <3>5, Zenon
  <2>2. ASSUME NEW p \in Tunnels, PrintURL(p) \/ Exit(p) \/ Reap(p) PROVE TunnelInv'
    BY <2>2, ProcessKeeps
  <2>3. CASE ListenerMoves
    <3>1. UNCHANGED <<manager, tunnel, handler, crossed>> /\ listener' \in Addresses
      BY <2>3 DEF ListenerMoves
    <3> QED
      BY <3>1 DEF TunnelInv, TunnelTypes, ManagerSound, HandlerSound, ProcessSound
  <2>4. CASE UNCHANGED tunnelVars
    BY <2>4 DEF tunnelVars, TunnelInv, TunnelTypes, ManagerSound, HandlerSound, ProcessSound
  <2> QED
    BY <2>1, <2>2, <2>3, <2>4, Zenon DEF TunnelNext
<1> QED
  BY <1>1, TunnelStarts, TunnelInHandByInv, PTL DEF TunnelSpec

-----------------------------------------------------------------------------
(* Approvals.                                                              *)

Verdicts == [say : {"none", "proceed", "confirm", "block", "unavailable"}, word : Nat, basis : Nat]
Deciding == {"resolve", "default", "granted", "reflect", "lookup", "recall", "judge", "bind", "remember", "card", "ask"}
Words == {"allow_once", "allow_session", "deny", "answer", "revoked"}
Uses == [n : Nat, at : Deciding \cup {"wait", "leave", "recheck", "grant", "start", "ran", "refused"},
         kind : {"command", "question"}, began : Nat, word : Nat, held : Verdicts, listed : BOOLEAN,
         slot : {"empty"} \cup Words, taken : {"none"} \cup Words, seen : Nat,
         by : {"none", "grant", "policy", "verdict", "answer"}, first : {"none"} \cup Words, late : BOOLEAN]

ApprovalsTypes ==
    /\ rules \in Nat
    /\ grant \in Nat
    /\ verdict \in Verdicts
    /\ use \in Uses
    /\ answerer \in [Answerers -> [at : {"idle", "offer"}, n : Nat, say : {"none"} \cup Words, read : Nat]]

\* Nothing is bound to rules that are not made yet.
BoundToThePast ==
    /\ use.began <= rules /\ use.word <= rules /\ use.seen <= rules
    /\ grant <= rules

\* Until it waits a call has no answer; then the first one accepted is the one
\* in its slot, and the one it takes.
ChannelSound ==
    /\ use.listed <=> use.at \in {"wait", "leave"}
    /\ use.slot \in Sayings(use.kind) \cup {"empty", "revoked"}
    /\ use.taken \in Sayings(use.kind) \cup {"none", "revoked"}
    /\ use.at \in Deciding =>
         use.first = "none" /\ use.by = "none" /\ use.taken = "none" /\ use.slot = "empty"
    /\ use.at = "wait" =>
         /\ use.by = "none" /\ use.taken = "none"
         /\ use.slot \in {"empty", "revoked"} => use.first = "none"
         /\ use.slot \notin {"empty", "revoked"} => use.first = use.slot
    /\ use.at \in {"leave", "recheck"} =>
         /\ use.by = "none"
         /\ use.taken = "none" => use.late
         /\ use.taken = "revoked" => use.first = "none"
         /\ use.taken \notin {"none", "revoked"} => use.first = use.taken /\ use.word <= use.seen
    /\ use.at = "recheck" => use.kind = "command" /\ use.taken \in {"allow_once", "allow_session"}

\* A verdict that is being had was asked for during the call.
JudgedSince == use.at \in {"lookup", "judge", "bind", "remember"} => use.held.basis >= use.began

\* An answer on its way to a call is one of those the call may be given.
AnswerFits(d) ==
    answerer[d].at = "offer" =>
        answerer[d].n <= use.n /\ (answerer[d].n = use.n => answerer[d].say \in Sayings(use.kind))

ApprovalsInv ==
    /\ ApprovalsTypes /\ BoundToThePast /\ ChannelSound /\ JudgedSince
    /\ \A d \in Answerers : AnswerFits(d)
    /\ WordsCurrent /\ FirstAnswerRules

LEMMA ApprovalsStart == ApprovalsInit => ApprovalsInv
<1> SUFFICES ASSUME ApprovalsInit PROVE ApprovalsInv
  OBVIOUS
<1>1. /\ rules = 1 /\ grant = 0 /\ verdict = NoVerdict /\ answerer = [d \in Answerers |-> Unasked]
      /\ use = UseOf(0, "refused", "command")
  BY DEF ApprovalsInit
<1>2. /\ use \in Uses /\ use.at = "refused" /\ use.began = 1 /\ use.word = 0 /\ use.seen = 0 /\ use.listed = FALSE
      /\ use.slot = "empty" /\ use.taken = "none" /\ use.by = "none" /\ use.first = "none"
  BY <1>1 DEF UseOf, Uses, NoVerdict, Verdicts
<1>3. ApprovalsTypes
  BY <1>1, <1>2 DEF ApprovalsTypes, NoVerdict, Verdicts, Unasked
<1>4. BoundToThePast /\ ChannelSound /\ JudgedSince /\ WordsCurrent /\ FirstAnswerRules
  BY <1>1, <1>2 DEF BoundToThePast, ChannelSound, JudgedSince, WordsCurrent, FirstAnswerRules, Deciding
<1>5. \A d \in Answerers : AnswerFits(d)
  BY <1>1 DEF AnswerFits, Unasked
<1> QED
  BY <1>3, <1>4, <1>5 DEF ApprovalsInv

\* A step of the call's goroutine, under rules and answers that stand still.
LEMMA UseMoves ==
    ASSUME ApprovalsInv, rules' = rules, answerer' = answerer,
           grant' \in Nat, grant' <= rules, verdict' \in Verdicts,
           use' \in Uses, use'.n = use.n, use'.kind = use.kind, use'.began <= rules, use'.word <= rules, use'.seen <= rules,
           ChannelSound', JudgedSince', WordsCurrent', FirstAnswerRules'
    PROVE  ApprovalsInv'
BY DEF ApprovalsInv, ApprovalsTypes, BoundToThePast, AnswerFits

\* What no step before the call waits touches but for a start.
Undecided ==
    /\ use' \in Uses /\ use'.n = use.n /\ use'.kind = use.kind /\ use'.began = use.began /\ use'.seen = use.seen
    /\ use'.listed = use.listed /\ use'.slot = use.slot /\ use'.taken = use.taken /\ use'.first = use.first

\* A step before the call waits, by which it is not let go ahead.
LEMMA DecidingMoves ==
    ASSUME ApprovalsInv, rules' = rules, answerer' = answerer,
           grant' \in {0, grant}, verdict' \in Verdicts, use.at \in Deciding,
           Undecided, use'.by = use.by, use'.at \in Deciding \cup {"refused"}, use'.word <= rules,
           use'.at \in {"lookup", "judge", "bind", "remember"} => use'.held.basis >= use.began
    PROVE  ApprovalsInv'
<1>1. use \in Uses /\ BoundToThePast /\ ChannelSound /\ rules \in Nat /\ grant' \in Nat /\ grant' <= rules
  BY DEF ApprovalsInv, ApprovalsTypes, BoundToThePast
<1>2. use.first = "none" /\ use.by = "none" /\ use.taken = "none" /\ use.slot = "empty" /\ use.listed = FALSE
  BY <1>1 DEF ChannelSound, Uses, Deciding
<1>3. ChannelSound'
  BY <1>1, <1>2 DEF ChannelSound, Deciding, Undecided
<1>4. JudgedSince' /\ WordsCurrent' /\ FirstAnswerRules'
  BY <1>1, <1>2 DEF JudgedSince, WordsCurrent, FirstAnswerRules, Undecided
<1> QED
  BY <1>1, <1>3, <1>4, UseMoves DEF BoundToThePast, Undecided

\* The call is let go ahead, on a word that holds.
LEMMA StartMoves ==
    ASSUME ApprovalsInv, rules' = rules, answerer' = answerer, grant' = grant, verdict' \in Verdicts,
           use.at \in Deciding, Undecided, use'.at = "start", use'.by \in {"grant", "policy", "verdict"},
           use'.word = use.word, use'.by = "grant" => use.word = rules,
           use'.by = "verdict" => use'.held.word = rules \/ use'.held.basis >= use.began
    PROVE  ApprovalsInv'
<1>1. use \in Uses /\ BoundToThePast /\ ChannelSound /\ rules \in Nat /\ grant \in Nat
  BY DEF ApprovalsInv, ApprovalsTypes
<1>2. use.first = "none" /\ use.taken = "none" /\ use.slot = "empty" /\ use.listed = FALSE
  BY <1>1 DEF ChannelSound, Uses, Deciding
<1>3. ChannelSound' /\ JudgedSince' /\ FirstAnswerRules'
  BY <1>1, <1>2 DEF ChannelSound, Deciding, JudgedSince, FirstAnswerRules, Undecided
<1>4. WordsCurrent'
  <2>1. use.began \in Nat /\ use.word \in Nat /\ use.began <= rules /\ use'.held \in Verdicts
    BY <1>1 DEF Uses, BoundToThePast, Undecided
  <2> QED
    BY <1>1, <2>1 DEF WordsCurrent, Verdicts, Undecided
<1> QED
  BY <1>1, <1>3, <1>4, UseMoves DEF BoundToThePast, Undecided

LEMMA ApprovalFields ==
    ASSUME ApprovalsInv
    PROVE  /\ use \in Uses /\ use.word \in Nat /\ use.held \in Verdicts /\ use.held.basis \in Nat /\ use.held.word \in Nat
           /\ use.began \in Nat /\ use.began <= rules /\ use.word <= rules /\ rules \in Nat
           /\ grant \in Nat /\ grant <= rules /\ verdict \in Verdicts /\ NoVerdict \in Verdicts
BY DEF ApprovalsInv, ApprovalsTypes, BoundToThePast, Uses, Verdicts, NoVerdict

LEMMA BeginCallKeeps == ASSUME ApprovalsInv, BeginCall PROVE ApprovalsInv'
<1>1. /\ UNCHANGED <<rules, grant, verdict, answerer>>
      /\ \E at \in {"resolve", "ask"}, kind \in {"command", "question"} : use' = UseOf(use.n + 1, at, kind)
  BY DEF BeginCall
<1>2. PICK at \in {"resolve", "ask"}, kind \in {"command", "question"} : use' = UseOf(use.n + 1, at, kind)
  BY <1>1
<1>3. use.n \in Nat /\ rules \in Nat /\ NoVerdict \in Verdicts
  BY ApprovalFields DEF Uses
<1>4. /\ use' \in Uses /\ use'.at = at /\ use'.began = rules /\ use'.word = 0 /\ use'.seen = 0 /\ use'.listed = FALSE
      /\ use'.slot = "empty" /\ use'.taken = "none" /\ use'.by = "none" /\ use'.first = "none"
      /\ use'.n = use.n + 1 /\ use'.kind = kind
  BY <1>2, <1>3 DEF UseOf, Uses, Deciding
<1>5. ApprovalsTypes' /\ BoundToThePast'
  BY <1>1, <1>3, <1>4 DEF ApprovalsInv, ApprovalsTypes, BoundToThePast
<1>6. ChannelSound' /\ JudgedSince' /\ WordsCurrent' /\ FirstAnswerRules'
  BY <1>4 DEF ChannelSound, JudgedSince, WordsCurrent, FirstAnswerRules, Deciding
<1>7. ASSUME NEW d \in Answerers PROVE AnswerFits(d)'
  BY <1>1, <1>3, <1>4 DEF ApprovalsInv, ApprovalsTypes, AnswerFits
<1> QED
  BY <1>5, <1>6, <1>7 DEF ApprovalsInv

LEMMA PermissionKeeps ==
    ASSUME ApprovalsInv, resolveToolPermission \/ LookUpGrant \/ hasSessionGrant \/ RefuseUnattended \/ ReadGenerations
    PROVE  ApprovalsInv'
<1>1. UNCHANGED <<rules, verdict, answerer>> /\ use.at \in Deciding
  BY DEF resolveToolPermission, LookUpGrant, hasSessionGrant, RefuseUnattended, ReadGenerations, Stands, Deciding
<1>2. ASSUME Undecided, use'.at = "start", use'.by = "grant", use'.word = use.word, use.word = rules, grant' = grant
      PROVE  ApprovalsInv'
  BY <1>1, <1>2, StartMoves, ApprovalFields
<1>3. ASSUME Undecided, use'.at \in {"reflect", "card", "refused", "default", "granted", "ask"}, use'.by = use.by,
             use'.word \in {use.word, 0, grant, rules}, grant' \in {0, grant}
      PROVE  ApprovalsInv'
  <2>1. use'.word <= rules
    BY <1>3, ApprovalFields
  <2>2. use'.at \in Deciding \cup {"refused"} /\ use'.at \notin {"lookup", "judge", "bind", "remember"}
    BY <1>3 DEF Deciding
  <2> QED
    BY <1>1, <1>3, <2>1, <2>2, DecidingMoves, ApprovalFields
<1>4. CASE resolveToolPermission \/ RefuseUnattended
  <2>1. PICK at \in {"reflect", "card", "refused"} : use' = [use EXCEPT !.at = at]
    BY <1>4, Zenon DEF resolveToolPermission, RefuseUnattended
  <2>2. Undecided /\ use'.at = at /\ use'.by = use.by /\ use'.word = use.word
    BY <2>1, ApprovalFields DEF Uses, Undecided, Deciding
  <2> QED
    BY <1>3, <1>4, <2>2 DEF resolveToolPermission, RefuseUnattended
<1>5. CASE LookUpGrant
  <2>1. PICK at \in {"default", "granted"} : use' = [use EXCEPT !.at = at, !.word = grant]
    <3>1. use' = [use EXCEPT !.at = IF grant = 0 THEN "default" ELSE "granted", !.word = grant]
      BY <1>5, Zenon DEF LookUpGrant
    <3>2. CASE grant = 0
      BY <3>1, <3>2
    <3>3. CASE grant # 0
      BY <3>1, <3>3
    <3> QED
      BY <3>2, <3>3
  <2>2. Undecided /\ use'.at = at /\ use'.by = use.by /\ use'.word = grant
    BY <2>1, ApprovalFields DEF Uses, Undecided, Deciding
  <2> QED
    BY <1>3, <1>5, <2>2 DEF LookUpGrant
<1>6. CASE hasSessionGrant
  <2>1. CASE use.word = rules /\ use' = [use EXCEPT !.at = "start", !.by = "grant"] /\ grant' = grant
    <3>1. Undecided /\ use'.at = "start" /\ use'.by = "grant" /\ use'.word = use.word
      BY <2>1, ApprovalFields DEF Uses, Undecided
    <3> QED
      BY <1>2, <2>1, <3>1
  <2>2. CASE use' = [use EXCEPT !.at = "default", !.word = 0] /\ grant' = 0
    <3>1. Undecided /\ use'.at = "default" /\ use'.by = use.by /\ use'.word = 0
      BY <2>2, ApprovalFields DEF Uses, Undecided, Deciding
    <3> QED
      BY <1>3, <2>2, <3>1
  <2> QED
    BY <1>6, <2>1, <2>2, Zenon DEF hasSessionGrant
<1>7. CASE ReadGenerations
  <2>1. use' = [use EXCEPT !.at = "ask", !.word = rules] /\ grant' = grant
    BY <1>7 DEF ReadGenerations
  <2>2. Undecided /\ use'.at = "ask" /\ use'.by = use.by /\ use'.word = rules
    BY <2>1, ApprovalFields DEF Uses, Undecided, Deciding
  <2> QED
    BY <1>3, <2>1, <2>2
<1> QED
  BY <1>4, <1>5, <1>6, <1>7

\* What a verdict leads to.
LEMMA HeedingMoves ==
    ASSUME ApprovalsInv, rules' = rules, answerer' = answerer, grant' = grant, verdict' \in Verdicts,
           use.at \in Deciding, NEW held \in Verdicts,
           held.word = rules \/ held.basis >= use.began,
           use' = Heeding([use EXCEPT !.held = held])
    PROVE  ApprovalsInv'
<1>1. CASE use' = [use EXCEPT !.held = held, !.at = "start", !.by = "verdict"]
  <2>1. Undecided /\ use'.at = "start" /\ use'.by = "verdict" /\ use'.word = use.word /\ use'.held = held
    BY <1>1, ApprovalFields DEF Uses, Undecided
  <2> QED
    BY <2>1, StartMoves
<1>2. ASSUME Undecided, use'.at \in {"refused", "card"}, use'.by = use.by, use'.word = use.word PROVE ApprovalsInv'
  <2>1. use'.at \in Deciding \cup {"refused"} /\ use'.at \notin {"lookup", "judge", "bind", "remember"}
    BY <1>2 DEF Deciding
  <2> QED
    BY <1>2, <2>1, DecidingMoves, ApprovalFields
<1>3. \/ use' = [use EXCEPT !.held = held, !.at = "start", !.by = "verdict"]
      \/ use' = [use EXCEPT !.at = "refused", !.held = held]
      \/ use' = [use EXCEPT !.at = "card", !.held = NoVerdict]
  BY ApprovalFields DEF Heeding, Uses
<1>4. CASE use' = [use EXCEPT !.at = "refused", !.held = held]
  <2>1. Undecided /\ use'.at = "refused" /\ use'.by = use.by /\ use'.word = use.word
    BY <1>4, ApprovalFields DEF Uses, Undecided, Deciding
  <2> QED
    BY <1>2, <2>1
<1>5. CASE use' = [use EXCEPT !.at = "card", !.held = NoVerdict]
  <2>1. Undecided /\ use'.at = "card" /\ use'.by = use.by /\ use'.word = use.word
    BY <1>5, ApprovalFields DEF Uses, Undecided, Deciding
  <2> QED
    BY <1>2, <2>1
<1> QED
  BY <1>1, <1>3, <1>4, <1>5

LEMMA ReflectionKeeps ==
    ASSUME ApprovalsInv,
           \/ reflectBeforeExecution \/ LookUpVerdict \/ cachedReflection \/ reflectOnAction
           \/ BindVerdict \/ rememberReflection
    PROVE  ApprovalsInv'
<1>1. UNCHANGED <<rules, grant, answerer>> /\ use.at \in Deciding
  BY DEF reflectBeforeExecution, LookUpVerdict, cachedReflection, reflectOnAction, BindVerdict, rememberReflection,
         Stands, Deciding
<1>2. ASSUME Undecided, use'.at \in {"lookup", "judge", "recall", "bind", "remember"}, use'.by = use.by,
             use'.word = use.word, verdict' \in Verdicts, use'.at # "recall" => use'.held.basis >= use.began
      PROVE  ApprovalsInv'
  <2>1. use'.at \in Deciding \cup {"refused"}
    BY <1>2 DEF Deciding
  <2> QED
    BY <1>1, <1>2, <2>1, DecidingMoves, ApprovalFields
<1>3. ASSUME NEW say \in {"none", "proceed", "confirm", "block", "unavailable"}, NEW h \in Verdicts, NEW n \in Nat
      PROVE  [h EXCEPT !.say = say] \in Verdicts /\ [h EXCEPT !.basis = n] \in Verdicts /\ [h EXCEPT !.word = n] \in Verdicts
             /\ [h EXCEPT !.say = say].basis = h.basis /\ [h EXCEPT !.basis = n].basis = n
             /\ [h EXCEPT !.word = n].basis = h.basis /\ [h EXCEPT !.say = say].say = say
  BY DEF Verdicts
<1>4. CASE reflectBeforeExecution
  <2>1. CASE use' = [use EXCEPT !.at = "start", !.by = "policy"]
    <3>1. Undecided /\ use'.at = "start" /\ use'.by = "policy" /\ use'.word = use.word
      BY <2>1, ApprovalFields DEF Uses, Undecided
    <3> QED
      BY <1>1, <1>4, <3>1, StartMoves, ApprovalFields DEF reflectBeforeExecution
  <2>2. CASE use' = [use EXCEPT !.at = "lookup", !.held.basis = rules]
    <3>1. use' = [use EXCEPT !.at = "lookup", !.held = [use.held EXCEPT !.basis = rules]]
      BY <2>2
    <3>2. verdict' = verdict /\ [use.held EXCEPT !.basis = rules] \in Verdicts
      BY <1>3, <1>4, ApprovalFields DEF reflectBeforeExecution
    <3>3. Undecided /\ use'.at = "lookup" /\ use'.by = use.by /\ use'.word = use.word /\ use'.held = [use.held EXCEPT !.basis = rules]
      BY <3>1, <3>2, ApprovalFields DEF Uses, Undecided, Deciding
    <3>4. use'.held.basis >= use.began
      BY <1>3, <3>3, ApprovalFields
    <3> QED
      BY <1>2, <3>2, <3>3, <3>4, ApprovalFields
  <2> QED
    BY <1>4, <2>1, <2>2 DEF reflectBeforeExecution
<1>5. CASE LookUpVerdict
  <2>1. verdict' = verdict /\ use.held.basis >= use.began
    BY <1>5 DEF LookUpVerdict, Stands, ApprovalsInv, JudgedSince
  <2>2. CASE use' = [use EXCEPT !.at = "judge"]
    <3>1. Undecided /\ use'.at = "judge" /\ use'.by = use.by /\ use'.word = use.word /\ use'.held = use.held
      BY <2>2, ApprovalFields DEF Uses, Undecided, Deciding
    <3> QED
      BY <1>2, <2>1, <3>1, ApprovalFields
  <2>3. CASE use' = [use EXCEPT !.at = "recall", !.held = verdict]
    <3>1. Undecided /\ use'.at = "recall" /\ use'.by = use.by /\ use'.word = use.word /\ use'.held = verdict
      BY <2>3, ApprovalFields DEF Uses, Undecided, Deciding
    <3> QED
      BY <1>2, <2>1, <3>1, ApprovalFields
  <2> QED
    BY <1>5, <2>2, <2>3 DEF LookUpVerdict
<1>6. CASE cachedReflection
  <2>1. CASE use.held.word = rules /\ use' = Heeding(use) /\ verdict' = verdict
    <3>1. use = [use EXCEPT !.held = use.held]
      BY ApprovalFields DEF Uses
    <3>2. use' = Heeding([use EXCEPT !.held = use.held])
      BY <2>1, <3>1
    <3> QED
      BY <1>1, <2>1, <3>2, HeedingMoves, ApprovalFields
  <2>2. CASE use' = [use EXCEPT !.at = "judge", !.held = [NoVerdict EXCEPT !.basis = rules]] /\ verdict' = NoVerdict
    <3>1. NoVerdict \in Verdicts /\ [NoVerdict EXCEPT !.basis = rules] \in Verdicts
      BY <1>3, ApprovalFields
    <3>2. Undecided /\ use'.at = "judge" /\ use'.by = use.by /\ use'.word = use.word /\ use'.held = [NoVerdict EXCEPT !.basis = rules]
      BY <2>2, <3>1, ApprovalFields DEF Uses, Undecided, Deciding
    <3>3. use'.held.basis >= use.began
      BY <1>3, <3>2, ApprovalFields
    <3> QED
      BY <1>2, <2>2, <3>1, <3>2, <3>3
  <2> QED
    BY <1>6, <2>1, <2>2, Zenon DEF cachedReflection
<1>7. CASE reflectOnAction
  <2>1. verdict' = verdict /\ use.held.basis >= use.began
    BY <1>7 DEF reflectOnAction, Stands, ApprovalsInv, JudgedSince
  <2>2. ASSUME NEW say \in {"proceed", "confirm", "block"}, use' = [use EXCEPT !.at = "bind", !.held.say = say]
        PROVE  ApprovalsInv'
    <3>1. use' = [use EXCEPT !.at = "bind", !.held = [use.held EXCEPT !.say = say]]
      BY <2>2
    <3>2. [use.held EXCEPT !.say = say] \in Verdicts /\ [use.held EXCEPT !.say = say].basis >= use.began
      <4>1. [use.held EXCEPT !.say = say] \in Verdicts /\ [use.held EXCEPT !.say = say].basis = use.held.basis
        BY ApprovalFields DEF Verdicts
      <4> QED
        BY <2>1, <4>1
    <3>3. Undecided /\ use'.at = "bind" /\ use'.by = use.by /\ use'.word = use.word /\ use'.held = [use.held EXCEPT !.say = say]
      BY <3>1, <3>2, ApprovalFields DEF Uses, Undecided, Deciding
    <3> QED
      BY <1>2, <2>1, <3>2, <3>3, ApprovalFields
  <2>3. CASE use' = Heeding([use EXCEPT !.held.say = "unavailable"])
    <3> DEFINE h == [use.held EXCEPT !.say = "unavailable"]
    <3>1. use' = Heeding([use EXCEPT !.held = h]) /\ h \in Verdicts /\ h.basis >= use.began
      BY <1>3, <2>1, <2>3, ApprovalFields
    <3> HIDE DEF h
    <3> QED
      BY <1>1, <2>1, <3>1, HeedingMoves, ApprovalFields
  <2> QED
    BY <1>7, <2>2, <2>3, Zenon DEF reflectOnAction
<1>8. CASE BindVerdict
  <2>1. verdict' = verdict /\ use.held.basis >= use.began /\ use' = [use EXCEPT !.at = "remember", !.held.word = rules]
    BY <1>8 DEF BindVerdict, Stands, ApprovalsInv, JudgedSince
  <2>2. use' = [use EXCEPT !.at = "remember", !.held = [use.held EXCEPT !.word = rules]]
    BY <2>1
  <2> QED
    <3>1. [use.held EXCEPT !.word = rules] \in Verdicts /\ [use.held EXCEPT !.word = rules].basis >= use.began
      <4>1. [use.held EXCEPT !.word = rules] \in Verdicts /\ [use.held EXCEPT !.word = rules].basis = use.held.basis
        BY ApprovalFields DEF Verdicts
      <4> QED
        BY <2>1, <4>1
    <3>2. Undecided /\ use'.at = "remember" /\ use'.by = use.by /\ use'.word = use.word /\ use'.held = [use.held EXCEPT !.word = rules]
      BY <2>2, <3>1, ApprovalFields DEF Uses, Undecided, Deciding
    <3> QED
      BY <1>2, <2>1, <3>1, <3>2, ApprovalFields
<1>9. CASE rememberReflection
  <2>1. verdict' = use.held /\ use.held.basis >= use.began /\ use' = Heeding(use)
    BY <1>9 DEF rememberReflection, ApprovalsInv, JudgedSince
  <2>2. use = [use EXCEPT !.held = use.held]
    BY ApprovalFields DEF Uses
  <2>3. use' = Heeding([use EXCEPT !.held = use.held])
    BY <2>1, <2>2
  <2> QED
    BY <1>1, <2>1, <2>3, HeedingMoves, ApprovalFields
<1> QED
  BY <1>4, <1>5, <1>6, <1>7, <1>8, <1>9

LEMMA ChannelKeeps ==
    ASSUME ApprovalsInv, AddPending \/ waitForToolApproval \/ removePending
    PROVE  ApprovalsInv'
<1>1. UNCHANGED <<rules, grant, verdict, answerer>> /\ use \in Uses /\ ChannelSound /\ BoundToThePast /\ FirstAnswerRules
      /\ grant \in Nat /\ verdict \in Verdicts
  BY DEF AddPending, waitForToolApproval, removePending, ApprovalsInv, ApprovalsTypes
<1> DEFINE Same == /\ use' \in Uses /\ use'.n = use.n /\ use'.kind = use.kind /\ use'.began = use.began
                   /\ use'.word = use.word /\ use'.held = use.held /\ use'.first = use.first
<1>2. ASSUME Same, use'.seen <= rules, use'.at \in {"wait", "leave", "recheck", "ran", "refused"},
             ChannelSound', WordsCurrent', FirstAnswerRules'
      PROVE  ApprovalsInv'
  <2>1. JudgedSince'
    BY <1>2 DEF JudgedSince
  <2> QED
    BY <1>1, <1>2, <2>1, UseMoves DEF BoundToThePast
<1>3. CASE AddPending
  <2>1. use.at = "ask" /\ use' = [use EXCEPT !.at = "wait", !.listed = TRUE]
    BY <1>3 DEF AddPending, Stands
  <2>2. /\ Same /\ use'.at = "wait" /\ use'.listed = TRUE /\ use'.by = use.by /\ use'.slot = use.slot
        /\ use'.taken = use.taken /\ use'.seen = use.seen
    BY <1>1, <2>1 DEF Uses
  <2>3. use.first = "none" /\ use.by = "none" /\ use.taken = "none" /\ use.slot = "empty"
    BY <1>1, <2>1 DEF ChannelSound, Deciding
  <2>4. ChannelSound'
    BY <2>2, <2>3 DEF ChannelSound, Deciding
  <2>5. WordsCurrent' /\ FirstAnswerRules'
    BY <2>2, <2>3 DEF WordsCurrent, FirstAnswerRules
  <2> QED
    BY <1>1, <1>2, <2>2, <2>4, <2>5 DEF BoundToThePast
<1>4. CASE waitForToolApproval
  <2>1. use.at = "wait" /\ use.listed = TRUE /\ use.by = "none" /\ use.taken = "none"
    BY <1>1, <1>4 DEF waitForToolApproval, ChannelSound, Uses
  <2>2. CASE use.slot # "empty" /\ use' = [use EXCEPT !.at = "leave", !.taken = use.slot, !.slot = "empty", !.seen = rules]
    <3>1. /\ Same /\ use'.at = "leave" /\ use'.listed = use.listed /\ use'.by = use.by /\ use'.slot = "empty"
          /\ use'.taken = use.slot /\ use'.seen = rules
      <4>1. rules \in Nat
        BY DEF ApprovalsInv, ApprovalsTypes
      <4> QED
        BY <1>1, <2>2, <4>1 DEF Uses
    <3>2. use.slot # "none" /\ use.slot \in Sayings(use.kind) \cup {"revoked"}
      BY <1>1, <2>2 DEF ChannelSound, Uses, Words
    <3>3. /\ use.slot = "revoked" => use.first = "none"
          /\ use.slot # "revoked" => use.first = use.slot
      BY <1>1, <2>1, <2>2 DEF ChannelSound
    <3>4. ChannelSound'
      BY <1>1, <2>1, <3>1, <3>2, <3>3 DEF ChannelSound, Deciding, BoundToThePast
    <3>5. WordsCurrent' /\ FirstAnswerRules'
      BY <2>1, <3>1 DEF WordsCurrent, FirstAnswerRules
    <3>6. rules <= rules
      BY DEF ApprovalsInv, ApprovalsTypes
    <3> QED
      BY <1>2, <3>1, <3>4, <3>5, <3>6
  <2>3. CASE use' = [use EXCEPT !.at = "leave", !.late = TRUE]
    <3>1. /\ Same /\ use'.at = "leave" /\ use'.listed = use.listed /\ use'.by = use.by /\ use'.slot = use.slot
          /\ use'.taken = use.taken /\ use'.seen = use.seen /\ use'.late = TRUE
      BY <1>1, <2>3 DEF Uses
    <3>2. ChannelSound'
      BY <1>1, <2>1, <3>1 DEF ChannelSound, Deciding
    <3>3. WordsCurrent' /\ FirstAnswerRules'
      BY <2>1, <3>1 DEF WordsCurrent, FirstAnswerRules
    <3> QED
      BY <1>1, <1>2, <3>1, <3>2, <3>3 DEF BoundToThePast
  <2> QED
    BY <1>4, <2>2, <2>3, Zenon DEF waitForToolApproval
<1>5. CASE removePending
  <2>1. use.at = "leave" /\ use.by = "none"
    BY <1>1, <1>5 DEF removePending, ChannelSound
  <2> DEFINE u == [use EXCEPT !.listed = FALSE, !.slot = "empty"]
  <2>2. \/ use.taken = "answer" /\ use' = [u EXCEPT !.at = "ran", !.by = "answer"]
        \/ use.taken \in {"allow_once", "allow_session"} /\ use' = [u EXCEPT !.at = "recheck"]
        \/ use.taken \in {"none", "deny", "revoked"} /\ use' = [u EXCEPT !.at = "refused"]
    <3>1. u.taken = use.taken
      BY <1>1 DEF Uses
    <3>2. \/ u.taken = "answer" /\ use' = [u EXCEPT !.at = "ran", !.by = "answer"]
          \/ u.taken \in {"allow_once", "allow_session"} /\ use' = [u EXCEPT !.at = "recheck"]
          \/ u.taken \in {"none", "deny", "revoked"} /\ use' = [u EXCEPT !.at = "refused"]
      BY <1>5, Zenon DEF removePending
    <3> QED
      BY <3>1, <3>2
  <2>3. /\ Same /\ use'.listed = FALSE /\ use'.slot = "empty" /\ use'.taken = use.taken /\ use'.seen = use.seen
        /\ use'.late = use.late
        /\ \/ use.taken = "answer" /\ use'.at = "ran" /\ use'.by = "answer"
           \/ use.taken \in {"allow_once", "allow_session"} /\ use'.at = "recheck" /\ use'.by = use.by
           \/ use.taken \in {"none", "deny", "revoked"} /\ use'.at = "refused" /\ use'.by = use.by
    BY <1>1, <2>2 DEF Uses
  <2>4. use.taken \in {"allow_once", "allow_session"} => use.kind = "command"
    BY <1>1 DEF ChannelSound, Sayings, Uses
  <2>5. use.taken = "answer" => use.kind = "question"
    BY <1>1 DEF ChannelSound, Sayings, Uses
  <2>6. ChannelSound'
    BY <1>1, <2>1, <2>3, <2>4 DEF ChannelSound, Deciding
  <2>7. WordsCurrent' /\ FirstAnswerRules'
    BY <1>1, <2>1, <2>3, <2>5 DEF WordsCurrent, FirstAnswerRules, ChannelSound
  <2> QED
    BY <1>1, <1>2, <2>3, <2>6, <2>7 DEF BoundToThePast
<1> QED
  BY <1>3, <1>4, <1>5

LEMMA FollowingKeeps ==
    ASSUME ApprovalsInv, approvalGenerationsCurrent \/ addSessionGrant \/ executeApprovedTool \/ Fail
    PROVE  ApprovalsInv'
<1>1. UNCHANGED <<rules, answerer>> /\ use \in Uses /\ ChannelSound /\ BoundToThePast /\ FirstAnswerRules
      /\ WordsCurrent /\ grant \in Nat /\ verdict \in Verdicts /\ rules \in Nat
  BY DEF approvalGenerationsCurrent, addSessionGrant, executeApprovedTool, Fail, ApprovalsInv, ApprovalsTypes
<1>2. CASE approvalGenerationsCurrent
  <2>1. /\ use.at = "recheck" /\ UNCHANGED <<grant, verdict>>
        /\ use' = IF use.word = rules THEN Followed ELSE [use EXCEPT !.at = "refused"]
    BY <1>2, Zenon DEF approvalGenerationsCurrent, Stands
  <2>2. /\ use' \in Uses /\ use'.n = use.n /\ use'.kind = use.kind /\ use'.began = use.began /\ use'.word = use.word
        /\ use'.held = use.held /\ use'.first = use.first /\ use'.listed = use.listed /\ use'.slot = use.slot
        /\ use'.taken = use.taken /\ use'.seen = use.seen /\ use'.late = use.late
        /\ \/ use.word = rules /\ use'.at \in {"grant", "start"} /\ use'.by = "answer"
           \/ use.word # rules /\ use'.at = "refused" /\ use'.by = use.by
    BY <1>1, <2>1 DEF Uses, Followed
  <2>3. /\ use.by = "none" /\ use.kind = "command" /\ use.taken \in {"allow_once", "allow_session"}
        /\ use.first = use.taken /\ use.word <= use.seen /\ use.seen <= rules /\ use.word <= rules
    BY <1>1, <2>1 DEF ChannelSound, BoundToThePast
  <2>4. use.word \in Nat /\ use.seen \in Nat
    BY <1>1 DEF Uses
  <2>5. ChannelSound' /\ JudgedSince'
    BY <1>1, <2>1, <2>2 DEF ChannelSound, Deciding, JudgedSince
  <2>6. WordsCurrent'
    BY <1>1, <2>2, <2>3, <2>4 DEF WordsCurrent
  <2>7. FirstAnswerRules'
    BY <1>1, <2>2, <2>3, <2>4 DEF FirstAnswerRules
  <2> QED
    BY <1>1, <2>1, <2>2, <2>5, <2>6, <2>7, UseMoves DEF BoundToThePast
<1>3. CASE addSessionGrant
  <2>1. use.at = "grant" /\ grant' = use.word /\ verdict' = verdict /\ use' = [use EXCEPT !.at = "start"]
    BY <1>3 DEF addSessionGrant
  <2>2. /\ use' \in Uses /\ use'.n = use.n /\ use'.kind = use.kind /\ use'.began = use.began /\ use'.word = use.word
        /\ use'.held = use.held /\ use'.first = use.first /\ use'.listed = use.listed /\ use'.slot = use.slot
        /\ use'.taken = use.taken /\ use'.seen = use.seen /\ use'.late = use.late /\ use'.at = "start" /\ use'.by = use.by
        /\ use.word \in Nat
    BY <1>1, <2>1 DEF Uses
  <2>3. ChannelSound' /\ JudgedSince' /\ WordsCurrent' /\ FirstAnswerRules'
    BY <1>1, <2>1, <2>2 DEF ChannelSound, Deciding, JudgedSince, WordsCurrent, FirstAnswerRules
  <2> QED
    BY <1>1, <2>1, <2>2, <2>3, UseMoves DEF BoundToThePast
<1>4. CASE executeApprovedTool
  <2>1. UNCHANGED <<grant, verdict>> /\ use' = [UseOf(use.n, "ran", use.kind) EXCEPT !.began = 0]
    BY <1>4 DEF executeApprovedTool
  <2>2. /\ use' \in Uses /\ use'.n = use.n /\ use'.kind = use.kind /\ use'.at = "ran" /\ use'.began = 0 /\ use'.word = 0
        /\ use'.seen = 0 /\ use'.listed = FALSE /\ use'.slot = "empty" /\ use'.taken = "none" /\ use'.by = "none"
        /\ use'.first = "none"
    BY <1>1, <2>1, ApprovalFields DEF Uses, UseOf
  <2>3. ChannelSound' /\ JudgedSince' /\ WordsCurrent' /\ FirstAnswerRules'
    BY <2>2 DEF ChannelSound, Deciding, JudgedSince, WordsCurrent, FirstAnswerRules
  <2> QED
    BY <1>1, <2>1, <2>2, <2>3, UseMoves DEF BoundToThePast
<1>5. CASE Fail
  <2>1. /\ use' = [use EXCEPT !.at = "refused", !.by = "none", !.late = TRUE]
        /\ grant' \in {0, grant} /\ verdict' \in {NoVerdict, verdict}
        /\ use.at \in {"resolve", "default", "granted", "reflect", "lookup", "recall", "judge", "bind",
                       "card", "ask", "recheck", "start"}
    BY <1>5 DEF Fail
  <2>2. /\ use' \in Uses /\ use'.n = use.n /\ use'.kind = use.kind /\ use'.began = use.began /\ use'.word = use.word
        /\ use'.first = use.first /\ use'.listed = use.listed /\ use'.slot = use.slot
        /\ use'.taken = use.taken /\ use'.seen = use.seen /\ use'.late = TRUE /\ use'.at = "refused" /\ use'.by = "none"
    BY <1>1, <2>1 DEF Uses
  <2>3. ChannelSound' /\ JudgedSince' /\ WordsCurrent' /\ FirstAnswerRules'
    BY <1>1, <2>1, <2>2 DEF ChannelSound, Deciding, JudgedSince, WordsCurrent, FirstAnswerRules
  <2>4. verdict' \in Verdicts /\ grant' \in Nat /\ grant' <= rules
    BY <1>1, <2>1, ApprovalFields
  <2> QED
    BY <1>1, <2>2, <2>3, <2>4, UseMoves DEF BoundToThePast
<1> QED
  BY <1>2, <1>3, <1>4, <1>5

\* A word reaches the channel of the call: the first one stays there.
LEMMA WordArrives ==
    ASSUME ApprovalsInv, rules' = rules, grant' = grant, verdict' = verdict,
           \A d \in Answerers : answerer'[d] = answerer[d] \/ answerer'[d] = Unasked,
           answerer' \in [Answerers -> [at : {"idle", "offer"}, n : Nat, say : {"none"} \cup Words, read : Nat]],
           \/ use' = use
           \/ use.listed /\ use' = Put("revoked")
           \/ \E say \in Sayings(use.kind) : use.listed /\ use' = Accepted(say)
    PROVE  ApprovalsInv'
<1>1. use \in Uses /\ ChannelSound /\ BoundToThePast /\ FirstAnswerRules /\ WordsCurrent /\ JudgedSince
      /\ grant \in Nat /\ verdict \in Verdicts /\ rules \in Nat /\ \A d \in Answerers : AnswerFits(d)
  BY DEF ApprovalsInv, ApprovalsTypes
<1>2. Sayings(use.kind) \subseteq Words /\ "revoked" \notin Sayings(use.kind) /\ "empty" \notin Sayings(use.kind)
  BY DEF Sayings, Words
<1>3. /\ use' \in Uses /\ use'.n = use.n /\ use'.kind = use.kind /\ use'.began = use.began /\ use'.word = use.word
      /\ use'.held = use.held /\ use'.listed = use.listed /\ use'.at = use.at /\ use'.by = use.by
      /\ use'.taken = use.taken /\ use'.seen = use.seen /\ use'.late = use.late
      /\ \/ use'.slot = use.slot /\ use'.first = use.first
         \/ /\ use.slot = "empty" /\ use.listed
            /\ use'.slot \in Sayings(use.kind) \cup {"revoked"}
            /\ use'.first = IF use.first = "none" /\ use.at = "wait" /\ use'.slot # "revoked" THEN use'.slot ELSE use.first
  <2>1. CASE use' = use
    BY <1>1, <2>1
  <2>2. CASE use.listed /\ use' = Put("revoked")
    <3>1. CASE use.slot = "empty"
      <4>1. use' = [use EXCEPT !.slot = "revoked"]
        BY <2>2, <3>1 DEF Put
      <4> QED
        BY <1>1, <2>2, <3>1, <4>1 DEF Uses, Words
    <3>2. CASE use.slot # "empty"
      BY <1>1, <2>2, <3>2 DEF Put
    <3> QED
      BY <3>1, <3>2
  <2>3. ASSUME NEW say \in Sayings(use.kind), use.listed, use' = Accepted(say)
        PROVE  /\ use' \in Uses /\ use'.n = use.n /\ use'.kind = use.kind /\ use'.began = use.began /\ use'.word = use.word
               /\ use'.held = use.held /\ use'.listed = use.listed /\ use'.at = use.at /\ use'.by = use.by
               /\ use'.taken = use.taken /\ use'.seen = use.seen /\ use'.late = use.late
               /\ \/ use'.slot = use.slot /\ use'.first = use.first
                  \/ /\ use.slot = "empty" /\ use'.slot = say
                     /\ use'.first = IF use.first = "none" /\ use.at = "wait" THEN say ELSE use.first
    <3>1. say \in Words
      BY <1>2
    <3>2. CASE use.slot = "empty"
      <4>1. Put(say) = [use EXCEPT !.slot = say]
        BY <1>1, <3>2 DEF Put
      <4>2. CASE use.first = "none" /\ use.at = "wait"
        <5>1. Put(say).first = use.first /\ Put(say).at = use.at
          BY <1>1, <4>1 DEF Uses
        <5>2. use' = [use EXCEPT !.slot = say, !.first = say]
          BY <1>1, <1>2, <2>3, <3>2, <4>1, <4>2, <5>1 DEF Accepted, Uses
        <5> QED
          BY <1>1, <3>1, <3>2, <4>2, <5>2 DEF Uses
      <4>3. CASE ~(use.first = "none" /\ use.at = "wait")
        <5>1. use' = [use EXCEPT !.slot = say]
          BY <1>1, <2>3, <3>2, <4>1, <4>3 DEF Accepted, Uses
        <5> QED
          BY <1>1, <3>1, <3>2, <4>3, <5>1 DEF Uses
      <4> QED
        BY <4>2, <4>3
    <3>3. CASE use.slot # "empty"
      <4>1. use' = use
        BY <1>1, <2>3, <3>3 DEF Put, Accepted, Uses
      <4> QED
        BY <1>1, <4>1
    <3> QED
      BY <3>2, <3>3
  <2> QED
    BY <1>2, <2>1, <2>2, <2>3
<1>4. use.listed <=> use.at \in {"wait", "leave"}
  BY <1>1 DEF ChannelSound
<1>5. ChannelSound'
  BY <1>1, <1>2, <1>3, <1>4 DEF ChannelSound, Deciding
<1>6. JudgedSince' /\ WordsCurrent'
  BY <1>1, <1>3 DEF JudgedSince, WordsCurrent
<1>7. FirstAnswerRules'
  <2>1. use.listed => use.by = "none" /\ use.at # "refused"
    BY <1>1, <1>4 DEF ChannelSound
  <2> QED
    BY <1>1, <1>3, <2>1 DEF FirstAnswerRules
<1>8. ApprovalsTypes' /\ BoundToThePast'
  BY <1>1, <1>3 DEF ApprovalsTypes, BoundToThePast
<1>9. ASSUME NEW d \in Answerers PROVE AnswerFits(d)'
  BY <1>1, <1>3 DEF AnswerFits, Unasked
<1> QED
  BY <1>5, <1>6, <1>7, <1>8, <1>9 DEF ApprovalsInv

LEMMA AnswersKeep ==
    ASSUME ApprovalsInv, NEW d \in Answerers, BeginAnswer(d) \/ OfferAnswer(d)
    PROVE  ApprovalsInv'
<1>1. /\ UNCHANGED <<rules, grant, verdict>> /\ use \in Uses /\ rules \in Nat
      /\ answerer \in [Answerers -> [at : {"idle", "offer"}, n : Nat, say : {"none"} \cup Words, read : Nat]]
  BY DEF BeginAnswer, OfferAnswer, ApprovalsInv, ApprovalsTypes
<1>2. CASE BeginAnswer(d)
  <2>1. use' = use
    BY <1>2 DEF BeginAnswer
  <2>2. PICK say \in Sayings(use.kind) :
          answerer' = [answerer EXCEPT ![d] = [at |-> "offer", n |-> use.n, say |-> say, read |-> rules]]
    BY <1>2, Zenon DEF BeginAnswer
  <2> DEFINE a == [at |-> "offer", n |-> use.n, say |-> say, read |-> rules]
  <2>3. a \in [at : {"idle", "offer"}, n : Nat, say : {"none"} \cup Words, read : Nat] /\ a.n = use.n /\ a.say = say
    BY <1>1, <2>2 DEF Uses, Sayings, Words
  <2> HIDE DEF a
  <2>4. /\ answerer' \in [Answerers -> [at : {"idle", "offer"}, n : Nat, say : {"none"} \cup Words, read : Nat]]
        /\ answerer'[d] = a /\ \A e \in Answerers \ {d} : answerer'[e] = answerer[e]
    BY <1>1, <2>2, <2>3 DEF a
  <2>5. ApprovalsTypes'
    BY <1>1, <2>1, <2>4 DEF ApprovalsInv, ApprovalsTypes
  <2>6. ASSUME NEW e \in Answerers PROVE AnswerFits(e)'
    <3>1. use.n <= use.n
      BY <1>1 DEF Uses
    <3> QED
      BY <1>1, <2>1, <2>3, <2>4, <3>1 DEF ApprovalsInv, AnswerFits
  <2> QED
    BY <1>1, <2>1, <2>5, <2>6 DEF ApprovalsInv, BoundToThePast, ChannelSound, JudgedSince, WordsCurrent, FirstAnswerRules
<1>3. CASE OfferAnswer(d)
  <2>1. answerer[d].at = "offer" /\ answerer' = [answerer EXCEPT ![d] = Unasked]
    BY <1>3, Zenon DEF OfferAnswer
  <2>2. /\ answerer' \in [Answerers -> [at : {"idle", "offer"}, n : Nat, say : {"none"} \cup Words, read : Nat]]
        /\ \A e \in Answerers : answerer'[e] = answerer[e] \/ answerer'[e] = Unasked
    BY <1>1, <2>1 DEF Unasked
  <2>3. use' = IF ~Meets(d) THEN use
               ELSE IF use.kind = "command" /\ answerer[d].read # use.word THEN Put("revoked")
               ELSE Accepted(answerer[d].say)
    BY <1>3, Zenon DEF OfferAnswer
  <2>4. Meets(d) => use.listed /\ answerer[d].say \in Sayings(use.kind)
    BY <2>1 DEF Meets, ApprovalsInv, AnswerFits
  <2>5. \/ use' = use
        \/ use.listed /\ use' = Put("revoked")
        \/ \E say \in Sayings(use.kind) : use.listed /\ use' = Accepted(say)
    BY <2>3, <2>4, Zenon
  <2> QED
    BY <1>1, <2>2, <2>5, WordArrives
<1> QED
  BY <1>2, <1>3

LEMMA RulesKeep ==
    ASSUME ApprovalsInv, ChangeRules \/ invalidateApprovals \/ DenyPending \/ cancelPendingUserQuestions
    PROVE  ApprovalsInv'
<1>1. CASE ChangeRules
  <2>1. UNCHANGED <<grant, verdict, use, answerer>> /\ rules' \in {rules, rules + 1}
    BY <1>1 DEF ChangeRules
  <2>2. /\ use \in Uses /\ rules \in Nat /\ rules' \in Nat /\ rules' >= rules /\ grant \in Nat
        /\ use.began \in Nat /\ use.word \in Nat /\ use.seen \in Nat
    BY <2>1 DEF ApprovalsInv, ApprovalsTypes, Uses
  <2>3. ApprovalsTypes' /\ BoundToThePast'
    BY <2>1, <2>2 DEF ApprovalsInv, ApprovalsTypes, BoundToThePast
  <2>4. ChannelSound' /\ JudgedSince' /\ WordsCurrent' /\ \A d \in Answerers : AnswerFits(d)'
    BY <2>1, <2>2 DEF ApprovalsInv, ChannelSound, JudgedSince, WordsCurrent, AnswerFits
  <2>5. FirstAnswerRules'
    BY <2>1, <2>2 DEF ApprovalsInv, FirstAnswerRules
  <2> QED
    BY <2>3, <2>4, <2>5 DEF ApprovalsInv
<1>2. CASE invalidateApprovals
  <2>1. UNCHANGED <<rules, use, answerer>> /\ grant' = 0 /\ verdict' = NoVerdict
    BY <1>2 DEF invalidateApprovals
  <2>2. ApprovalsTypes' /\ BoundToThePast'
    BY <2>1, ApprovalFields DEF ApprovalsInv, ApprovalsTypes, BoundToThePast
  <2> QED
    BY <2>1, <2>2 DEF ApprovalsInv, ChannelSound, JudgedSince, WordsCurrent, AnswerFits, FirstAnswerRules
<1>3. CASE DenyPending \/ cancelPendingUserQuestions
  <2>1. UNCHANGED <<rules, grant, verdict, answerer>> /\ Revoke
    BY <1>3 DEF DenyPending, cancelPendingUserQuestions
  <2>2. use' = use \/ (use.listed /\ use' = Put("revoked"))
    BY <2>1, Zenon DEF Revoke
  <2>3. answerer' \in [Answerers -> [at : {"idle", "offer"}, n : Nat, say : {"none"} \cup Words, read : Nat]]
    BY <2>1 DEF ApprovalsInv, ApprovalsTypes
  <2> QED
    BY <2>1, <2>2, <2>3, WordArrives
<1> QED
  BY <1>1, <1>2, <1>3

LEMMA ApprovalsStep == ApprovalsInv /\ [ApprovalsNext]_approvalVars => ApprovalsInv'
<1> SUFFICES ASSUME ApprovalsInv, [ApprovalsNext]_approvalVars PROVE ApprovalsInv'
  OBVIOUS
<1>1. CASE BeginCall
  BY <1>1, BeginCallKeeps
<1>2. CASE resolveToolPermission \/ LookUpGrant \/ hasSessionGrant \/ RefuseUnattended \/ ReadGenerations
  BY <1>2, PermissionKeeps, Zenon
<1>3. CASE \/ reflectBeforeExecution \/ LookUpVerdict \/ cachedReflection \/ reflectOnAction
           \/ BindVerdict \/ rememberReflection
  BY <1>3, ReflectionKeeps, Zenon
<1>4. CASE AddPending \/ waitForToolApproval \/ removePending
  BY <1>4, ChannelKeeps, Zenon
<1>5. CASE approvalGenerationsCurrent \/ addSessionGrant \/ executeApprovedTool \/ Fail
  BY <1>5, FollowingKeeps, Zenon
<1>6. CASE \E d \in Answerers : BeginAnswer(d) \/ OfferAnswer(d)
  BY <1>6, AnswersKeep, Zenon
<1>7. CASE ChangeRules \/ invalidateApprovals \/ DenyPending \/ cancelPendingUserQuestions
  BY <1>7, RulesKeep, Zenon
<1>8. CASE HaltRun \/ UNCHANGED approvalVars
  <2>1. UNCHANGED <<rules, grant, verdict, use, answerer>>
    BY <1>8 DEF HaltRun, approvalVars
  <2> QED
    BY <2>1 DEF ApprovalsInv, ApprovalsTypes, BoundToThePast, ChannelSound, JudgedSince, AnswerFits, WordsCurrent, FirstAnswerRules
<1> QED
  BY <1>1, <1>2, <1>3, <1>4, <1>5, <1>6, <1>7, <1>8, Zenon DEF ApprovalsNext

\* The gate of the tool calls (runner_tools.go, danger_reflection.go) against
\* any number of changes of the rules: whatever lets a call go ahead, be it a
\* grant, a remembered verdict or an answer, was given under the rules in force
\* since the call began or took it.
THEOREM WordsAreCurrent == ApprovalsSpec => []WordsCurrent
<1>1. ApprovalsInv => WordsCurrent
  BY DEF ApprovalsInv
<1> QED
  BY <1>1, ApprovalsStart, ApprovalsStep, PTL DEF ApprovalsSpec

\* Any number of handlers that answer at once, with the timeout, an interrupt
\* and the revocations of a rule change racing them: the call follows the first
\* answer it was given, and a person whose answer was accepted sees it followed.
THEOREM FirstAnswerIsFollowed == ApprovalsSpec => []FirstAnswerRules
<1>1. ApprovalsInv => FirstAnswerRules
  BY DEF ApprovalsInv
<1> QED
  BY <1>1, ApprovalsStart, ApprovalsStep, PTL DEF ApprovalsSpec


-----------------------------------------------------------------------------
(* Gateway. Who may hold a listener follows from where the call under opMu   *)
(* stands, and what the manager runs from what that call and the handler of  *)
(* the settings have still to do.                                            *)

Listeners == [state : {"unmade", "bound", "handed", "serving", "ending"}, stopping : BOOLEAN,
              shut : BOOLEAN, serves : Settings \cup {"none"}]
Places == {"idle", "start", "swap", "detach", "bind", "activate", "retire", "shutdown",
           "rebind", "restore", "reinstate"}

OpenCalls == [pc : Places, call : {"none", "apply", "rollback", "close"}, next : Settings,
              old : Servers \cup {"none"}, hand : Servers \cup {"none"}]
Managers == [started : BOOLEAN, closed : BOOLEAN, active : Servers \cup {"none"}, cfg : Settings]
Patches == [pc : {"idle", "apply", "save", "rollback"}, next : Settings]

GatewayTypes ==
    /\ gateway \in Managers
    /\ server \in [Servers -> Listeners]
    /\ op \in OpenCalls
    /\ patch \in Patches
    /\ saved \in Settings
    /\ lapses \subseteq {"died", "missed", "unrestored"}

\* Whose the listener s is, and that the active one is whole.
Claimed(s) ==
    /\ server[s].state = "bound" => op.hand = s /\ op.pc \in {"activate", "reinstate"}
    /\ server[s].state \in {"handed", "serving"} =>
          \/ gateway.active = s
          \/ op.pc \in {"retire", "shutdown"} /\ op.hand = s
          \/ server[s].state = "handed" /\ server[s].shut
    /\ gateway.active = s =>
          /\ server[s].state \in {"handed", "serving", "ending"}
          /\ ~server[s].shut /\ ~server[s].stopping
          /\ server[s].serves = gateway.cfg

\* What the call under opMu has in its hands, and what it left to the manager.
CallSound ==
    /\ op.pc \in {"activate", "reinstate"} =>
          /\ op.hand \in Servers /\ op.hand # op.old
          /\ server[op.hand].state = "bound"
          /\ ~server[op.hand].shut /\ ~server[op.hand].stopping
    /\ op.pc = "activate" => server[op.hand].serves = op.next
    /\ op.pc = "reinstate" => server[op.hand].serves = gateway.cfg
    /\ op.pc = "swap" => op.old \in Servers
    /\ op.pc \in {"swap", "detach", "bind", "activate"} => gateway.active \in {op.old, "none"}
    /\ op.pc \in {"start", "shutdown", "rebind", "restore", "reinstate"} => gateway.active = "none"
    /\ op.pc = "retire" => op.hand \in Servers /\ gateway.active # op.hand
    /\ op.pc \in {"swap", "bind", "rebind", "activate"} => op.next.enabled

\* Whose call it is, and where the handler of the settings waits for it.
CallFits ==
    /\ op.pc \in {"swap", "detach", "bind", "retire", "rebind", "restore", "reinstate"} =>
          op.call \in {"apply", "rollback"}
    /\ op.pc = "shutdown" => op.call # "none"
    /\ op.pc = "start" => op.call = "none"
    /\ op.pc = "activate" => op.call # "close"
    /\ op.pc # "idle" =>
          /\ op.call = "none" => op.old = "none" /\ op.next = saved /\ gateway.cfg = saved
                                 /\ patch.pc \in {"idle", "apply"}
          /\ op.call = "apply" => patch.pc = "apply" /\ patch.next = op.next
          /\ op.call = "rollback" => patch.pc = "rollback" /\ saved = op.next
          /\ op.call # "close" => ~gateway.closed
          /\ op.call = "close" => gateway.closed

\* The manager g follows the settings cfg, unless the lapses explain it.
Follows(g, why, cfg) ==
    /\ "missed" \in why \/ "unrestored" \in why \/ g.cfg = cfg
    /\ why # {} \/ (g.active # "none" <=> cfg.enabled)

FollowsUp ==
    /\ op.pc = "start" => lapses = {} /\ patch.pc = "idle" /\ ~gateway.started
    /\ op.pc = "idle" /\ gateway.started /\ ~gateway.closed /\ patch.pc \in {"idle", "apply"} =>
          Follows(gateway, lapses, saved)
    /\ op.pc = "idle" /\ gateway.started /\ ~gateway.closed /\ patch.pc = "save" => Follows(gateway, lapses, patch.next)
    /\ op.pc = "retire" => Follows(gateway, lapses, op.next)

GatewayInv ==
    /\ GatewayTypes
    /\ \A s \in Servers : Claimed(s)
    /\ CallSound
    /\ CallFits
    /\ FollowsUp

LEMMA GatewayInitHolds == GatewayInit => GatewayInv
<1> SUFFICES ASSUME NEW cfg \in Settings, GatewayBegins(cfg) PROVE GatewayInv
  BY DEF GatewayInit
<1>1. /\ gateway = [started |-> FALSE, closed |-> FALSE, active |-> "none", cfg |-> cfg]
      /\ server = [s \in Servers |-> NoServer]
      /\ op = [pc |-> "start", call |-> "none", next |-> cfg, old |-> "none", hand |-> "none"]
      /\ patch = [pc |-> "idle", next |-> cfg]
      /\ saved = cfg
      /\ lapses = {}
  BY DEF GatewayBegins, NoOp
<1>2. NoServer \in Listeners /\ NoServer.state = "unmade"
  BY DEF NoServer, Listeners
<1>3. GatewayTypes
  BY <1>1, <1>2 DEF GatewayTypes, Managers, OpenCalls, Patches, Places
<1>4. \A s \in Servers : Claimed(s)
  BY <1>1, <1>2, GatewayAssumption DEF Claimed, GatewayAssumption
<1>5. CallSound /\ CallFits /\ FollowsUp
  BY <1>1 DEF CallSound, CallFits, FollowsUp
<1> QED
  BY <1>3, <1>4, <1>5 DEF GatewayInv

\* The listener a call binds is one that was not made, and is whole.
LEMMA BindMakes ==
    ASSUME GatewayTypes, NEW s \in Servers, NEW cfg \in Settings, Bind(s, cfg)
    PROVE  /\ server' \in [Servers -> Listeners]
           /\ server[s].state = "unmade" /\ s # op.old
           /\ server'[s].state = "bound" /\ ~server'[s].shut /\ ~server'[s].stopping /\ server'[s].serves = cfg
           /\ \A t \in Servers : t # s => server'[t] = server[t]
<1>1. server[s] = NoServer /\ s # op.old /\ server' = [server EXCEPT ![s] = [NoServer EXCEPT !.state = "bound", !.serves = cfg]]
  BY DEF Bind
<1> DEFINE r == [NoServer EXCEPT !.state = "bound", !.serves = cfg]
<1>2. r \in Listeners /\ r.state = "bound" /\ ~r.shut /\ ~r.stopping /\ r.serves = cfg /\ NoServer.state = "unmade"
  BY DEF NoServer, Listeners
<1>3. server' = [server EXCEPT ![s] = r]
  BY <1>1
<1> HIDE DEF r
<1> QED
  BY <1>1, <1>2, <1>3 DEF GatewayTypes

\* A listener that is shut down no longer serves.
LEMMA ShutDownCloses ==
    ASSUME GatewayTypes, NEW h \in Servers \cup {"none"}, server' = ShutDown(h)
    PROVE  /\ server' \in [Servers -> Listeners]
           /\ \A t \in Servers : t # h => server'[t] = server[t]
           /\ \A t \in Servers : t = h /\ server[t].state # "unmade" =>
                 /\ server'[t].shut
                 /\ server'[t].state = (IF server[t].state = "serving" THEN "ending" ELSE server[t].state)
           /\ \A t \in Servers : t = h /\ server[t].state = "unmade" => server'[t].state \in {"unmade"}
<1> DEFINE r(t) == [server[t] EXCEPT !.shut = TRUE, !.state = IF server[t].state = "serving" THEN "ending" ELSE server[t].state]
<1>0. server' = [t \in Servers |-> IF t # h \/ server[t] = NoServer THEN server[t] ELSE r(t)]
  BY Zenon DEF ShutDown
<1>1. \A t \in Servers : server'[t] = IF t # h \/ server[t] = NoServer THEN server[t] ELSE r(t)
  BY <1>0, Zenon
<1>2. \A t \in Servers : server[t] \in Listeners
  BY DEF GatewayTypes
<1>3. \A t \in Servers : r(t) \in Listeners /\ r(t).shut /\ r(t).state = (IF server[t].state = "serving" THEN "ending" ELSE server[t].state)
  BY <1>2 DEF Listeners
<1>4. NoServer.state = "unmade"
  BY DEF NoServer
<1>5. server' = [t \in Servers |-> server'[t]]
  BY <1>0, Zenon
<1> HIDE DEF r
<1>6. server' \in [Servers -> Listeners]
  BY <1>1, <1>2, <1>3, <1>5
<1> QED
  BY <1>1, <1>3, <1>4, <1>6

\* The call returns: the handler goes on, and the manager follows what it was told.
LEMMA Returned ==
    ASSUME GatewayInv, NEW ok \in BOOLEAN, Return(ok), saved' = saved, op.pc # "idle",
           gateway' \in Managers, server' \in [Servers -> Listeners],
           lapses' \subseteq {"died", "missed", "unrestored"},
           \A s \in Servers : Claimed(s)',
           gateway'.closed <=> gateway.closed,
           op.call = "none" => ok,
           ok /\ op.call # "close" => Follows(gateway', lapses', op.next),
           ~ok /\ op.call = "rollback" => "unrestored" \in lapses'
    PROVE  GatewayInv'
<1>1. op \in OpenCalls /\ patch \in Patches /\ saved \in Settings /\ CallFits
  BY DEF GatewayInv, GatewayTypes
<1>2. op' \in OpenCalls /\ op'.pc = "idle"
  BY <1>1 DEF Return, NoOp, OpenCalls, Places
<1>3. /\ patch' \in Patches
      /\ op.call = "apply" /\ ok => patch'.pc = "save" /\ patch'.next = patch.next
      /\ op.call = "apply" /\ ~ok => patch'.pc = "rollback"
      /\ op.call = "rollback" => patch'.pc = "idle"
      /\ op.call \in {"none", "close"} => patch' = patch
  <2>1. CASE op.call = "apply"
    BY <1>1, <2>1 DEF Return, Patches
  <2>2. CASE op.call = "rollback"
    BY <1>1, <2>2 DEF Return, Patches
  <2>3. CASE op.call \in {"none", "close"}
    BY <1>1, <2>3 DEF Return, Patches
  <2> QED
    BY <1>1, <2>1, <2>2, <2>3 DEF OpenCalls
<1>4. GatewayTypes'
  BY <1>1, <1>2, <1>3 DEF GatewayTypes
<1>5. CallSound' /\ CallFits'
  BY <1>2 DEF CallSound, CallFits
<1>6. FollowsUp'
  <2>1. CASE op.call = "apply"
    BY <1>1, <1>2, <1>3, <2>1 DEF FollowsUp, CallFits
  <2>2. CASE op.call = "rollback"
    BY <1>1, <1>2, <1>3, <2>2 DEF FollowsUp, CallFits, Follows
  <2>3. CASE op.call = "none"
    BY <1>1, <1>2, <1>3, <2>3 DEF FollowsUp, CallFits
  <2>4. CASE op.call = "close"
    BY <1>1, <1>2, <1>3, <2>4 DEF FollowsUp, CallFits
  <2> QED
    BY <1>1, <2>1, <2>2, <2>3, <2>4 DEF OpenCalls
<1> QED
  BY <1>4, <1>5, <1>6 DEF GatewayInv

LEMMA ListenerSteps ==
    ASSUME GatewayInv, NEW s \in Servers, ServeBegins(s) \/ ListenerDies(s)
    PROVE  GatewayInv'
<1>1. /\ server \in [Servers -> Listeners] /\ Claimed(s) /\ CallSound /\ CallFits /\ FollowsUp
      /\ \A t \in Servers : Claimed(t)
  BY DEF GatewayInv, GatewayTypes
<1>2. /\ gateway' = gateway /\ op' = op /\ patch' = patch /\ saved' = saved /\ lapses' = lapses
      /\ server[s].state \in {"handed", "serving"}
      /\ \E at \in {"serving", "ending"} :
            /\ server' = [server EXCEPT ![s].state = at]
            /\ at = "serving" => ~server[s].shut
  <2>1. CASE ServeBegins(s)
    BY <1>1, <2>1 DEF ServeBegins
  <2>2. CASE ListenerDies(s)
    BY <1>1, <2>2 DEF ListenerDies
  <2> QED
    BY <2>1, <2>2
<1>3. PICK at \in {"serving", "ending"} : server' = [server EXCEPT ![s].state = at] /\ (at = "serving" => ~server[s].shut)
  BY <1>2
<1>4. /\ server' \in [Servers -> Listeners]
      /\ server'[s].state = at /\ server'[s].shut = server[s].shut /\ server'[s].stopping = server[s].stopping
      /\ server'[s].serves = server[s].serves
      /\ \A t \in Servers : t # s => server'[t] = server[t]
  BY <1>1, <1>3 DEF Listeners
<1>5. ASSUME NEW t \in Servers PROVE Claimed(t)'
  <2>1. Claimed(t)
    BY <1>1
  <2>2. CASE t = s
    BY <1>2, <1>3, <1>4, <2>1, <2>2 DEF Claimed
  <2>3. CASE t # s
    BY <1>2, <1>4, <2>1, <2>3 DEF Claimed
  <2> QED
    BY <2>2, <2>3
<1>6. CallSound'
  <2>1. op.pc \in {"activate", "reinstate"} => op.hand \in Servers /\ op.hand # s
    BY <1>1, <1>2 DEF CallSound
  <2> QED
    BY <1>1, <1>2, <1>4, <2>1 DEF CallSound
<1>7. CallFits' /\ FollowsUp'
  BY <1>1, <1>2 DEF CallFits, FollowsUp
<1>8. GatewayTypes'
  BY <1>2, <1>4 DEF GatewayInv, GatewayTypes
<1> QED
  BY <1>5, <1>6, <1>7, <1>8 DEF GatewayInv

LEMMA ListenerEnds ==
    ASSUME GatewayInv, NEW s \in Servers, ServeEnds(s)
    PROVE  GatewayInv'
<1>1. /\ server \in [Servers -> Listeners] /\ Claimed(s) /\ CallSound /\ CallFits /\ FollowsUp
      /\ gateway \in Managers /\ lapses \subseteq {"died", "missed", "unrestored"}
      /\ \A t \in Servers : Claimed(t)
  BY DEF GatewayInv, GatewayTypes
<1>2. /\ op' = op /\ patch' = patch /\ saved' = saved
      /\ server[s].state = "ending" /\ server' = [server EXCEPT ![s] = NoServer]
  BY DEF ServeEnds
<1>3. NoServer \in Listeners /\ NoServer.state = "unmade"
  BY DEF NoServer, Listeners
<1>4. /\ server' \in [Servers -> Listeners] /\ server'[s].state = "unmade"
      /\ \A t \in Servers : t # s => server'[t] = server[t]
  BY <1>1, <1>2, <1>3
<1>5. /\ gateway' \in Managers /\ gateway'.cfg = gateway.cfg /\ (gateway'.closed <=> gateway.closed)
      /\ (gateway'.started <=> gateway.started)
      /\ lapses' \subseteq {"died", "missed", "unrestored"} /\ lapses \subseteq lapses'
      /\ \/ gateway' = gateway /\ lapses' = lapses /\ gateway.active # s
         \/ gateway'.active = "none" /\ "died" \in lapses' /\ gateway.active = s
  <2>1. CASE gateway.active = s /\ ~server[s].stopping
    <3>1. gateway' = [gateway EXCEPT !.active = "none"] /\ lapses' = lapses \cup {"died"}
      BY <2>1 DEF ServeEnds
    <3> QED
      BY <1>1, <2>1, <3>1 DEF Managers
  <2>2. CASE ~(gateway.active = s /\ ~server[s].stopping)
    <3>1. gateway' = gateway /\ lapses' = lapses
      BY <2>2 DEF ServeEnds
    <3> QED
      BY <1>1, <2>2, <3>1 DEF Claimed
  <2> QED
    BY <2>1, <2>2
<1>6. gateway'.active = gateway.active \/ gateway'.active = "none"
  BY <1>5
<1>7. ASSUME NEW t \in Servers PROVE Claimed(t)'
  <2>1. Claimed(t) /\ t # "none"
    BY <1>1, GatewayAssumption DEF GatewayAssumption
  <2>2. CASE t = s
    BY <1>2, <1>4, <1>5, <2>1, <2>2 DEF Claimed
  <2>3. CASE t # s
    BY <1>2, <1>4, <1>5, <2>1, <2>3 DEF Claimed
  <2> QED
    BY <2>2, <2>3
<1>8. CallSound'
  <2>1. op.pc \in {"activate", "reinstate"} => op.hand \in Servers /\ op.hand # s
    BY <1>1, <1>2 DEF CallSound
  <2>2. op.pc = "retire" => gateway'.active # op.hand
    BY <1>1, <1>5, GatewayAssumption DEF CallSound, GatewayAssumption
  <2> QED
    BY <1>1, <1>2, <1>4, <1>5, <1>6, <2>1, <2>2 DEF CallSound
<1>9. CallFits'
  BY <1>1, <1>2, <1>5 DEF CallFits
<1>10. ASSUME NEW cfg, Follows(gateway, lapses, cfg) PROVE Follows(gateway', lapses', cfg)
  BY <1>5, <1>10 DEF Follows
<1>11. FollowsUp'
  <2>1. op.pc # "start" \/ (gateway' = gateway /\ lapses' = lapses)
    BY <1>1, <1>5, GatewayAssumption DEF CallSound, GatewayAssumption
  <2> QED
    BY <1>1, <1>2, <1>5, <1>10, <2>1 DEF FollowsUp
<1>12. GatewayTypes'
  BY <1>2, <1>4, <1>5 DEF GatewayInv, GatewayTypes
<1> QED
  BY <1>7, <1>8, <1>9, <1>11, <1>12 DEF GatewayInv

\* A fresh listener goes to the call that bound it.
LEMMA BoundIsClaimed ==
    ASSUME GatewayInv, NEW s \in Servers, gateway'.active = gateway.active, gateway'.cfg = gateway.cfg, op' \in OpenCalls, op'.hand = s,
           op'.pc \in {"activate", "reinstate"}, op.pc \in {"start", "bind", "rebind", "restore"},
           server[s].state = "unmade", server'[s].state = "bound",
           \A t \in Servers : t # s => server'[t] = server[t],
           NEW t \in Servers
    PROVE  Claimed(t)'
<1>1. Claimed(t) /\ server \in [Servers -> Listeners]
  BY DEF GatewayInv, GatewayTypes
<1>2. CASE t = s
  BY <1>1, <1>2 DEF Claimed
<1>3. CASE t # s
  BY <1>1, <1>3 DEF Claimed
<1> QED
  BY <1>2, <1>3

LEMMA GatewayStartKeeps == ASSUME GatewayInv, GatewayStart PROVE GatewayInv'
<1>1. /\ GatewayTypes /\ CallSound /\ CallFits /\ FollowsUp
      /\ op.pc = "start" /\ patch' = patch /\ saved' = saved /\ lapses' = lapses
      /\ \A t \in Servers : Claimed(t)
  <2>1. op.pc = "start" /\ patch' = patch /\ saved' = saved /\ lapses' = lapses
    BY Zenon DEF GatewayStart, OpAt
  <2> QED
    BY <2>1 DEF GatewayInv
<1>2. /\ op.call = "none" /\ op.old = "none" /\ op.next = saved /\ gateway.cfg = saved /\ gateway.active = "none"
      /\ lapses = {} /\ patch.pc = "idle" /\ ~gateway.closed
  BY <1>1 DEF CallSound, CallFits, FollowsUp
<1>3. NoOp(saved) \in OpenCalls /\ NoOp(saved).pc = "idle"
  BY <1>1 DEF NoOp, OpenCalls, Places, GatewayTypes
<1>4. CASE op' = NoOp(saved) /\ server' = server
           /\ (gateway' = gateway \/ (gateway' = [gateway EXCEPT !.started = TRUE] /\ ~gateway.cfg.enabled))
  <2>1. gateway' \in Managers /\ gateway'.active = gateway.active /\ gateway'.cfg = gateway.cfg
        /\ (gateway'.started => gateway.started \/ ~gateway.cfg.enabled)
    BY <1>1, <1>4 DEF GatewayTypes, Managers
  <2>2. GatewayTypes'
    BY <1>1, <1>3, <1>4, <2>1 DEF GatewayTypes
  <2>3. ASSUME NEW t \in Servers PROVE Claimed(t)'
    BY <1>1, <1>2, <1>4, <2>1 DEF Claimed
  <2>4. CallSound' /\ CallFits'
    BY <1>3, <1>4 DEF CallSound, CallFits
  <2>5. FollowsUp'
    BY <1>1, <1>2, <1>3, <1>4, <2>1 DEF FollowsUp, Follows
  <2> QED
    BY <2>2, <2>3, <2>4, <2>5 DEF GatewayInv
<1>5. ASSUME NEW s \in Servers, gateway.cfg.enabled, Bind(s, gateway.cfg),
             op' = [op EXCEPT !.pc = "activate", !.hand = s], gateway' = [gateway EXCEPT !.started = TRUE]
      PROVE  GatewayInv'
  <2>1. /\ gateway.cfg \in Settings /\ gateway' \in Managers
        /\ gateway'.active = gateway.active /\ gateway'.cfg = gateway.cfg /\ gateway'.closed = gateway.closed
    BY <1>1, <1>5 DEF GatewayTypes, Managers
  <2>2. /\ server' \in [Servers -> Listeners]
        /\ server[s].state = "unmade" /\ s # op.old
        /\ server'[s].state = "bound" /\ ~server'[s].shut /\ ~server'[s].stopping /\ server'[s].serves = gateway.cfg
        /\ \A t \in Servers : t # s => server'[t] = server[t]
    BY <1>1, <1>5, <2>1, BindMakes
  <2>3. /\ op' \in OpenCalls /\ op'.pc = "activate" /\ op'.hand = s /\ op'.old = op.old /\ op'.call = op.call
        /\ op'.next = op.next
    BY <1>1, <1>5 DEF GatewayTypes, OpenCalls, Places
  <2>4. ASSUME NEW t \in Servers PROVE Claimed(t)'
    BY <1>1, <1>5, <2>1, <2>2, <2>3, BoundIsClaimed
  <2>5. CallSound'
    BY <1>1, <1>2, <1>5, <2>1, <2>2, <2>3 DEF CallSound
  <2>6. CallFits' /\ FollowsUp'
    BY <1>1, <1>2, <1>5, <2>1, <2>3 DEF CallFits, FollowsUp
  <2>7. GatewayTypes'
    BY <1>1, <1>5, <2>1, <2>2, <2>3 DEF GatewayTypes
  <2> QED
    BY <2>4, <2>5, <2>6, <2>7 DEF GatewayInv
<1> QED
  BY <1>4, <1>5, Zenon DEF GatewayStart

LEMMA DetachLetsGo ==
    ASSUME GatewayInv, server' = Detached, gateway'.active = "none", op.pc \in {"idle", "detach"},
           op'.pc = "shutdown", op'.hand = gateway.active
    PROVE  server' \in [Servers -> Listeners] /\ \A t \in Servers : Claimed(t)'
<1>1. server \in [Servers -> Listeners] /\ \A t \in Servers : Claimed(t)
  BY DEF GatewayInv, GatewayTypes
<1> DEFINE left(t) == [server[t] EXCEPT !.stopping = TRUE]
<1>2. server' = [t \in Servers |-> IF t = gateway.active THEN left(t) ELSE server[t]]
  BY Zenon DEF Detached
<1>3. /\ server' \in [Servers -> Listeners]
      /\ \A t \in Servers : server'[t].state = server[t].state /\ server'[t].shut = server[t].shut
  <2>1. \A t \in Servers : left(t) \in Listeners /\ left(t).state = server[t].state /\ left(t).shut = server[t].shut
    BY <1>1 DEF Listeners
  <2> HIDE DEF left
  <2>2. \A t \in Servers : server'[t] = left(t) \/ server'[t] = server[t]
    BY <1>2
  <2>3. server' \in [Servers -> Listeners]
    BY <1>1, <1>2, <2>1
  <2> QED
    BY <2>1, <2>2, <2>3
<1>4. ASSUME NEW t \in Servers PROVE Claimed(t)'
  <2>1. Claimed(t) /\ t # "none"
    BY <1>1, GatewayAssumption DEF GatewayAssumption
  <2> QED
    BY <1>3, <2>1 DEF Claimed
<1> QED
  BY <1>3, <1>4

\* The listener that is handed over, and the one it replaces.
LEMMA ActivatedHands ==
    ASSUME GatewayTypes, NEW h \in Servers, NEW replaced, h # replaced, server' = Activated(h, replaced)
    PROVE  /\ server' \in [Servers -> Listeners]
           /\ server'[h].state = "handed" /\ server'[h].shut = server[h].shut
           /\ server'[h].stopping = server[h].stopping /\ server'[h].serves = server[h].serves
           /\ \A t \in Servers : t # h => server'[t].state = server[t].state /\ server'[t].shut = server[t].shut
<1>1. \A t \in Servers : server[t] \in Listeners
  BY DEF GatewayTypes
<1> DEFINE taken(t) == [server[t] EXCEPT !.state = "handed"]
           left(t) == [server[t] EXCEPT !.stopping = TRUE]
<1>2. server' = [t \in Servers |-> CASE t = h -> taken(t)
                                     [] t = replaced /\ server[t] # NoServer -> left(t)
                                     [] OTHER -> server[t]]
  BY Zenon DEF Activated
<1>3. \A t \in Servers : /\ taken(t) \in Listeners /\ taken(t).state = "handed" /\ taken(t).shut = server[t].shut
                         /\ taken(t).stopping = server[t].stopping /\ taken(t).serves = server[t].serves
                         /\ left(t) \in Listeners /\ left(t).state = server[t].state /\ left(t).shut = server[t].shut
  BY <1>1 DEF Listeners
<1> HIDE DEF taken, left
<1>4. server'[h] = taken(h)
  BY <1>2
<1>5. ASSUME NEW t \in Servers, t # h PROVE server'[t] = left(t) \/ server'[t] = server[t]
  BY <1>2, <1>5
<1>6. server' \in [Servers -> Listeners]
  <2>1. server' = [t \in Servers |-> server'[t]]
    BY <1>2, Zenon
  <2>2. \A t \in Servers : server'[t] \in Listeners
    BY <1>1, <1>3, <1>4, <1>5
  <2> QED
    BY <2>1, <2>2
<1> QED
  BY <1>3, <1>4, <1>5, <1>6

LEMMA GatewayCloseKeeps == ASSUME GatewayInv, GatewayClose PROVE GatewayInv'
<1>1. /\ GatewayTypes /\ CallSound /\ CallFits /\ FollowsUp
      /\ op.pc = "idle" /\ patch' = patch /\ saved' = saved /\ lapses' = lapses
      /\ gateway' = [gateway EXCEPT !.closed = TRUE, !.active = "none"] /\ server' = Detached
      /\ op' = [op EXCEPT !.pc = "shutdown", !.call = "close", !.hand = gateway.active]
  <2>1. /\ op.pc = "idle" /\ patch' = patch /\ saved' = saved /\ lapses' = lapses
        /\ gateway' = [gateway EXCEPT !.closed = TRUE, !.active = "none"] /\ server' = Detached
        /\ op' = [op EXCEPT !.pc = "shutdown", !.call = "close", !.hand = gateway.active]
    BY Zenon DEF GatewayClose, OpAt
  <2> QED
    BY <2>1 DEF GatewayInv
<1>2. gateway' \in Managers /\ gateway'.closed /\ gateway'.active = "none" /\ gateway'.cfg = gateway.cfg
  BY <1>1 DEF GatewayTypes, Managers
<1>3. op' \in OpenCalls /\ op'.pc = "shutdown" /\ op'.call = "close" /\ op'.hand = gateway.active
  BY <1>1 DEF GatewayTypes, OpenCalls, Managers, Places
<1>4. server' \in [Servers -> Listeners] /\ \A t \in Servers : Claimed(t)'
  BY <1>1, <1>2, <1>3, DetachLetsGo
<1>5. CallSound' /\ CallFits' /\ FollowsUp'
  BY <1>1, <1>2, <1>3 DEF CallSound, CallFits, FollowsUp
<1>6. GatewayTypes'
  BY <1>1, <1>2, <1>3, <1>4 DEF GatewayTypes
<1> QED
  BY <1>4, <1>5, <1>6 DEF GatewayInv

LEMMA GatewayDetachKeeps == ASSUME GatewayInv, Detach PROVE GatewayInv'
<1>1. /\ GatewayTypes /\ CallSound /\ CallFits /\ FollowsUp
      /\ op.pc = "detach" /\ patch' = patch /\ saved' = saved /\ lapses' = lapses
      /\ gateway' = [gateway EXCEPT !.active = "none"] /\ server' = Detached
      /\ op' = [op EXCEPT !.pc = "shutdown", !.hand = gateway.active]
  <2>1. /\ op.pc = "detach" /\ patch' = patch /\ saved' = saved /\ lapses' = lapses
        /\ gateway' = [gateway EXCEPT !.active = "none"] /\ server' = Detached
        /\ op' = [op EXCEPT !.pc = "shutdown", !.hand = gateway.active]
    BY Zenon DEF Detach, OpAt
  <2> QED
    BY <2>1 DEF GatewayInv
<1>2. gateway' \in Managers /\ (gateway'.closed <=> gateway.closed) /\ gateway'.active = "none" /\ gateway'.cfg = gateway.cfg
  BY <1>1 DEF GatewayTypes, Managers
<1>3. /\ op' \in OpenCalls /\ op'.pc = "shutdown" /\ op'.call = op.call /\ op'.hand = gateway.active
      /\ op'.next = op.next /\ op'.old = op.old
  BY <1>1 DEF GatewayTypes, OpenCalls, Managers, Places
<1>4. server' \in [Servers -> Listeners] /\ \A t \in Servers : Claimed(t)'
  BY <1>1, <1>2, <1>3, DetachLetsGo
<1>5. CallSound' /\ CallFits' /\ FollowsUp'
  BY <1>1, <1>2, <1>3 DEF CallSound, CallFits, FollowsUp
<1>6. GatewayTypes'
  BY <1>1, <1>2, <1>3, <1>4 DEF GatewayTypes
<1> QED
  BY <1>4, <1>5, <1>6 DEF GatewayInv

LEMMA ReconfigureKeeps ==
    ASSUME GatewayInv, NEW call \in {"apply", "rollback"}, NEW cfg \in Settings, Reconfigure(call, cfg),
           call = "apply" => cfg = patch.next, call = "rollback" => cfg = saved
    PROVE  GatewayInv'
<1> DEFINE old == gateway.active
           at == CASE ~cfg.enabled -> "detach"
                   [] cfg.enabled /\ old = "none" -> "bind"
                   [] OTHER -> IF SameAddress(server[old].serves, cfg) THEN "swap"
                               ELSE IF server[old].serves.port = cfg.port THEN "detach" ELSE "bind"
<1>1. /\ GatewayTypes /\ CallSound /\ CallFits /\ FollowsUp
      /\ op.pc = "idle" /\ ~gateway.closed /\ patch.pc = call
      /\ gateway' = gateway /\ server' = server /\ patch' = patch /\ saved' = saved /\ lapses' = lapses
      /\ op' = [pc |-> at, call |-> call, next |-> cfg, old |-> old, hand |-> "none"]
  <2>1. /\ op.pc = "idle" /\ ~gateway.closed /\ patch.pc = call
        /\ gateway' = gateway /\ server' = server /\ patch' = patch /\ saved' = saved /\ lapses' = lapses
        /\ op' = [pc |-> at, call |-> call, next |-> cfg, old |-> old, hand |-> "none"]
    BY Zenon DEF Reconfigure, OpAt
  <2> HIDE DEF at
  <2> QED
    BY <2>1 DEF GatewayInv
<1>2. /\ at \in {"detach", "bind", "swap"} /\ (at \in {"bind", "swap"} => cfg.enabled)
      /\ (at = "swap" => old # "none") /\ old \in Servers \cup {"none"}
  BY <1>1 DEF GatewayTypes, Managers
<1> HIDE DEF at
<1>3. /\ op' \in OpenCalls /\ op'.pc = at /\ op'.call = call /\ op'.next = cfg /\ op'.old = old
  BY <1>1, <1>2 DEF OpenCalls, Places
<1>4. ASSUME NEW t \in Servers PROVE Claimed(t)'
  <2>1. Claimed(t)
    BY DEF GatewayInv
  <2> QED
    BY <1>1, <1>2, <1>3, <2>1 DEF Claimed
<1>5. CallSound' /\ CallFits' /\ FollowsUp'
  BY <1>1, <1>2, <1>3 DEF CallSound, CallFits, FollowsUp
<1>6. GatewayTypes'
  BY <1>1, <1>3 DEF GatewayTypes
<1> QED
  BY <1>4, <1>5, <1>6 DEF GatewayInv

LEMMA RefusedKeeps == ASSUME GatewayInv, ReconfigureRefused PROVE GatewayInv'
<1>1. /\ GatewayTypes /\ CallSound /\ CallFits /\ FollowsUp /\ op.pc = "idle" /\ gateway.closed
      /\ gateway' = gateway /\ server' = server /\ op' = op /\ saved' = saved /\ lapses' = lapses
      /\ patch' \in Patches
  <2>1. /\ op.pc = "idle" /\ gateway.closed
        /\ gateway' = gateway /\ server' = server /\ op' = op /\ saved' = saved /\ lapses' = lapses
        /\ patch' = [pc |-> "rollback", next |-> saved] \/ patch' = [pc |-> "idle", next |-> saved]
    BY Zenon DEF ReconfigureRefused, OpAt
  <2>2. GatewayTypes /\ CallSound /\ CallFits /\ FollowsUp /\ saved \in Settings
    BY DEF GatewayInv, GatewayTypes
  <2> QED
    BY <2>1, <2>2 DEF Patches
<1>2. ASSUME NEW t \in Servers PROVE Claimed(t)'
  BY <1>1 DEF GatewayInv, Claimed
<1>3. CallSound' /\ CallFits' /\ FollowsUp'
  BY <1>1 DEF CallSound, CallFits, FollowsUp
<1>4. GatewayTypes'
  BY <1>1 DEF GatewayTypes
<1> QED
  BY <1>2, <1>3, <1>4 DEF GatewayInv

\* A call that goes on to hand over the listener it has bound.
LEMMA BoundForCall ==
    ASSUME GatewayInv, NEW s \in Servers, NEW cfg \in Settings, Bind(s, cfg), op' \in OpenCalls, op'.hand = s,
           op'.pc \in {"activate", "reinstate"}, op.pc \in {"bind", "rebind", "restore"},
           op'.call = op.call, op'.next = op.next, op'.old = op.old \/ op'.old = "none",
           op'.pc = "activate" => cfg = op.next, op'.pc = "reinstate" => cfg = gateway.cfg,
           op'.pc = "activate" => op.next.enabled /\ gateway.active \in {op'.old, "none"},
           op'.pc = "reinstate" => gateway.active = "none",
           gateway' = gateway, patch' = patch, saved' = saved, lapses' = lapses
    PROVE  GatewayInv'
<1>1. GatewayTypes /\ CallSound /\ CallFits /\ FollowsUp
  BY DEF GatewayInv
<1>2. /\ server' \in [Servers -> Listeners]
      /\ server[s].state = "unmade" /\ s # op.old
      /\ server'[s].state = "bound" /\ ~server'[s].shut /\ ~server'[s].stopping /\ server'[s].serves = cfg
      /\ \A t \in Servers : t # s => server'[t] = server[t]
  BY <1>1, BindMakes
<1>3. s # "none"
  BY GatewayAssumption DEF GatewayAssumption
<1>4. ASSUME NEW t \in Servers PROVE Claimed(t)'
  BY <1>2, BoundIsClaimed
<1>5. CallSound'
  BY <1>1, <1>2, <1>3 DEF CallSound
<1>6. CallFits'
  BY <1>1 DEF CallFits
<1>7. FollowsUp'
  BY <1>1 DEF FollowsUp
<1>8. GatewayTypes'
  BY <1>1, <1>2 DEF GatewayTypes
<1> QED
  BY <1>4, <1>5, <1>6, <1>7, <1>8 DEF GatewayInv

LEMMA GatewayBindKeeps == ASSUME GatewayInv, BindNext PROVE GatewayInv'
<1>1. PICK s \in Servers : Bind(s, op.next) /\ op' = [op EXCEPT !.pc = "activate", !.hand = s]
  BY Zenon DEF BindNext
<1>2. op.pc = "bind" /\ gateway' = gateway /\ patch' = patch /\ saved' = saved /\ lapses' = lapses
  BY Zenon DEF BindNext, OpAt
<1>3. op \in OpenCalls /\ CallSound
  BY DEF GatewayInv, GatewayTypes
<1>4. /\ op' \in OpenCalls /\ op'.pc = "activate" /\ op'.hand = s /\ op'.call = op.call /\ op'.next = op.next
      /\ op'.old = op.old /\ op.next \in Settings
  BY <1>1, <1>3 DEF OpenCalls, Places
<1>5. op.next.enabled /\ gateway.active \in {op'.old, "none"}
  BY <1>2, <1>3, <1>4 DEF CallSound
<1> QED
  BY <1>1, <1>2, <1>4, <1>5, BoundForCall

LEMMA RebindKeeps == ASSUME GatewayInv, Rebind PROVE GatewayInv'
<1>1. op.pc = "rebind" /\ gateway' = gateway /\ patch' = patch /\ saved' = saved /\ lapses' = lapses
  BY Zenon DEF Rebind, OpAt
<1>2. op \in OpenCalls /\ CallSound /\ GatewayTypes /\ CallFits /\ FollowsUp /\ \A t \in Servers : Claimed(t)
  BY DEF GatewayInv, GatewayTypes
<1>3. ASSUME NEW s \in Servers, Bind(s, op.next), op' = [op EXCEPT !.pc = "activate", !.hand = s, !.old = "none"]
      PROVE  GatewayInv'
  <2>1. /\ op' \in OpenCalls /\ op'.pc = "activate" /\ op'.hand = s /\ op'.call = op.call /\ op'.next = op.next
        /\ op'.old = "none" /\ op.next \in Settings
    BY <1>2, <1>3 DEF OpenCalls, Places
  <2>2. op.next.enabled /\ gateway.active \in {op'.old, "none"}
    BY <1>1, <1>2 DEF CallSound
  <2> QED
    BY <1>1, <1>3, <2>1, <2>2, BoundForCall
<1>4. CASE op' = [op EXCEPT !.pc = "restore"] /\ server' = server
  <2>1. op' \in OpenCalls /\ op'.pc = "restore" /\ op'.call = op.call /\ op'.next = op.next /\ op'.old = op.old
    BY <1>2, <1>4 DEF OpenCalls, Places
  <2>2. ASSUME NEW t \in Servers PROVE Claimed(t)'
    BY <1>1, <1>2, <1>4, <2>1 DEF Claimed
  <2>3. CallSound' /\ CallFits' /\ FollowsUp'
    BY <1>1, <1>2, <1>4, <2>1 DEF CallSound, CallFits, FollowsUp
  <2>4. GatewayTypes'
    BY <1>1, <1>2, <1>4, <2>1 DEF GatewayTypes
  <2> QED
    BY <2>2, <2>3, <2>4 DEF GatewayInv
<1>5. \/ \E s \in Servers : Bind(s, op.next) /\ op' = [op EXCEPT !.pc = "activate", !.hand = s, !.old = "none"]
      \/ op' = [op EXCEPT !.pc = "restore"] /\ server' = server
  BY Zenon DEF Rebind, OpTo
<1> QED
  BY <1>3, <1>4, <1>5, Zenon

LEMMA BindFailsKeeps == ASSUME GatewayInv, BindFails PROVE GatewayInv'
<1>1. op.pc = "bind" /\ gateway' = gateway /\ server' = server /\ saved' = saved /\ Return(FALSE) /\ Lapsed(FALSE)
  BY Zenon DEF BindFails, OpAt
<1>2. GatewayTypes /\ CallFits /\ op.call \in {"apply", "rollback"}
  BY <1>1 DEF GatewayInv, CallFits
<1>3. lapses' \subseteq {"died", "missed", "unrestored"} /\ (op.call = "rollback" => "unrestored" \in lapses')
  BY <1>1, <1>2 DEF Lapsed, GatewayTypes
<1>4. op'.pc = "idle"
  BY <1>1 DEF Return, NoOp
<1>5. ASSUME NEW t \in Servers PROVE Claimed(t)'
  BY <1>1, <1>4 DEF GatewayInv, Claimed
<1>6. gateway' \in Managers /\ server' \in [Servers -> Listeners]
  BY <1>1, <1>2 DEF GatewayTypes
<1> QED
  BY <1>1, <1>2, <1>3, <1>5, <1>6, Returned

LEMMA RestoreKeeps == ASSUME GatewayInv, Restore PROVE GatewayInv'
<1>1. op.pc = "restore" /\ gateway' = gateway /\ saved' = saved
  BY Zenon DEF Restore, OpAt
<1>2. op \in OpenCalls /\ CallSound /\ GatewayTypes /\ CallFits /\ op.call \in {"apply", "rollback"} /\ gateway \in Managers
  BY <1>1 DEF GatewayInv, GatewayTypes, CallFits
<1>3. ASSUME NEW s \in Servers, Bind(s, gateway.cfg), op' = [op EXCEPT !.pc = "reinstate", !.hand = s],
             patch' = patch, lapses' = lapses
      PROVE  GatewayInv'
  <2>1. /\ op' \in OpenCalls /\ op'.pc = "reinstate" /\ op'.hand = s /\ op'.call = op.call /\ op'.next = op.next
        /\ op'.old = op.old
    BY <1>2, <1>3 DEF OpenCalls, Places
  <2>2. gateway.active = "none" /\ gateway.cfg \in Settings
    BY <1>1, <1>2 DEF CallSound, Managers
  <2> QED
    BY <1>1, <1>3, <2>1, <2>2, BoundForCall
<1>4. CASE Lapsed(FALSE) /\ Return(FALSE) /\ server' = server
  <2>1. lapses' \subseteq {"died", "missed", "unrestored"} /\ (op.call = "rollback" => "unrestored" \in lapses')
    BY <1>2, <1>4 DEF Lapsed, GatewayTypes
  <2>2. op'.pc = "idle"
    BY <1>4 DEF Return, NoOp
  <2>3. ASSUME NEW t \in Servers PROVE Claimed(t)'
    BY <1>1, <1>4, <2>2 DEF GatewayInv, Claimed
  <2>4. gateway' \in Managers /\ server' \in [Servers -> Listeners]
    BY <1>1, <1>2, <1>4 DEF GatewayTypes
  <2> QED
    BY <1>1, <1>2, <1>4, <2>1, <2>3, <2>4, Returned
<1>5. \/ \E s \in Servers : Bind(s, gateway.cfg) /\ op' = [op EXCEPT !.pc = "reinstate", !.hand = s]
                            /\ patch' = patch /\ lapses' = lapses
      \/ Lapsed(FALSE) /\ Return(FALSE) /\ server' = server
  BY Zenon DEF Restore
<1> QED
  BY <1>3, <1>4, <1>5, Zenon

LEMMA SwapServiceKeeps == ASSUME GatewayInv, SwapService PROVE GatewayInv'
<1>1. op.pc = "swap" /\ saved' = saved
  BY Zenon DEF SwapService, OpAt
<1>2. /\ op \in OpenCalls /\ CallSound /\ GatewayTypes /\ CallFits /\ op.call \in {"apply", "rollback"} /\ gateway \in Managers
      /\ op.old \in Servers /\ op.next \in Settings /\ op.next.enabled /\ server \in [Servers -> Listeners]
      /\ gateway.active \in {op.old, "none"}
  BY <1>1 DEF GatewayInv, GatewayTypes, CallFits, CallSound, OpenCalls
<1>3. op'.pc = "idle"
  <2>1. Return(TRUE) \/ Return(FALSE)
    BY Zenon DEF SwapService
  <2> QED
    BY <2>1 DEF Return, NoOp
<1>4. CASE /\ gateway.active = op.old /\ server' = [server EXCEPT ![op.old].serves = op.next]
           /\ gateway' = [gateway EXCEPT !.cfg = op.next] /\ Lapsed(TRUE) /\ Return(TRUE)
  <2>1. server' = [server EXCEPT ![op.old].serves = op.next] /\ gateway' = [gateway EXCEPT !.cfg = op.next] /\ lapses' = {}
    BY <1>4 DEF Lapsed
  <2>2. gateway' \in Managers /\ gateway'.cfg = op.next /\ gateway'.active = gateway.active /\ (gateway'.closed <=> gateway.closed)
    BY <1>2, <2>1 DEF Managers
  <2>3. /\ server' \in [Servers -> Listeners] /\ server'[op.old].serves = op.next
        /\ server'[op.old].state = server[op.old].state /\ server'[op.old].shut = server[op.old].shut
        /\ server'[op.old].stopping = server[op.old].stopping
        /\ \A t \in Servers : t # op.old => server'[t] = server[t]
    BY <1>2, <2>1 DEF Listeners
  <2>4. ASSUME NEW t \in Servers PROVE Claimed(t)'
    <3>1. Claimed(t)
      BY DEF GatewayInv
    <3>2. CASE t = op.old
      BY <1>1, <1>3, <1>4, <2>2, <2>3, <3>1, <3>2 DEF Claimed
    <3>3. CASE t # op.old
      BY <1>1, <1>3, <1>4, <2>2, <2>3, <3>1, <3>3 DEF Claimed
    <3> QED
      BY <3>2, <3>3
  <2>5. Follows(gateway', lapses', op.next)
    BY <1>2, <1>4, <2>1, <2>2, GatewayAssumption DEF Follows, GatewayAssumption
  <2>6. lapses' \subseteq {"died", "missed", "unrestored"}
    BY <2>1
  <2> QED
    BY <1>1, <1>2, <1>4, <2>2, <2>3, <2>4, <2>5, <2>6, Returned
<1>5. CASE /\ gateway.active # op.old /\ lapses' = lapses \cup {"missed"}
           /\ Return(TRUE) /\ server' = server /\ gateway' = gateway
  <2>1. server' = server /\ gateway' = gateway /\ lapses' = lapses \cup {"missed"}
    BY <1>5
  <2>2. ASSUME NEW t \in Servers PROVE Claimed(t)'
    BY <1>1, <1>3, <2>1 DEF GatewayInv, Claimed
  <2>3. Follows(gateway', lapses', op.next) /\ lapses' \subseteq {"died", "missed", "unrestored"}
    BY <1>2, <2>1 DEF Follows, GatewayTypes
  <2>4. gateway' \in Managers /\ server' \in [Servers -> Listeners]
    BY <1>2, <2>1
  <2> QED
    BY <1>1, <1>2, <1>5, <2>1, <2>2, <2>3, <2>4, Returned
<1>6. CASE Lapsed(FALSE) /\ Return(FALSE) /\ server' = server /\ gateway' = gateway
  <2>1. lapses' \subseteq {"died", "missed", "unrestored"} /\ (op.call = "rollback" => "unrestored" \in lapses')
    BY <1>2, <1>6 DEF Lapsed, GatewayTypes
  <2>2. ASSUME NEW t \in Servers PROVE Claimed(t)'
    BY <1>1, <1>3, <1>6 DEF GatewayInv, Claimed
  <2>3. gateway' \in Managers /\ server' \in [Servers -> Listeners]
    BY <1>2, <1>6
  <2> QED
    BY <1>1, <1>2, <1>6, <2>1, <2>2, <2>3, Returned
<1> QED
  BY <1>4, <1>5, <1>6, Zenon DEF SwapService

\* The listener in the hands of the call becomes the active one.
LEMMA HandIsActive ==
    ASSUME GatewayInv, op.pc \in {"activate", "reinstate"}, NEW replaced, op.hand # replaced,
           server' = Activated(op.hand, replaced),
           gateway'.active = op.hand, gateway'.cfg = server[op.hand].serves,
           gateway.active # "none" =>
              op'.pc = "retire" /\ op'.hand = gateway.active
    PROVE  server' \in [Servers -> Listeners] /\ \A t \in Servers : Claimed(t)'
<1>1. /\ op.hand \in Servers /\ server[op.hand].state = "bound"
      /\ ~server[op.hand].shut /\ ~server[op.hand].stopping /\ GatewayTypes
  BY DEF GatewayInv, CallSound
<1>2. /\ server' \in [Servers -> Listeners]
      /\ server'[op.hand].state = "handed" /\ server'[op.hand].shut = server[op.hand].shut
      /\ server'[op.hand].stopping = server[op.hand].stopping /\ server'[op.hand].serves = server[op.hand].serves
      /\ \A t \in Servers : t # op.hand => server'[t].state = server[t].state /\ server'[t].shut = server[t].shut
  <2> DEFINE h == op.hand
  <2>1. h \in Servers /\ h # replaced /\ server' = Activated(h, replaced)
    BY <1>1
  <2> HIDE DEF h
  <2>2. /\ server' \in [Servers -> Listeners]
        /\ server'[h].state = "handed" /\ server'[h].shut = server[h].shut
        /\ server'[h].stopping = server[h].stopping /\ server'[h].serves = server[h].serves
        /\ \A t \in Servers : t # h => server'[t].state = server[t].state /\ server'[t].shut = server[t].shut
    BY <1>1, <2>1, ActivatedHands
  <2> QED
    BY <2>2 DEF h
<1>3. ASSUME NEW t \in Servers PROVE Claimed(t)'
  <2>1. Claimed(t) /\ t # "none"
    BY GatewayAssumption DEF GatewayInv, GatewayAssumption
  <2>2. CASE t = op.hand
    BY <1>1, <1>2, <2>1, <2>2 DEF Claimed
  <2>3. CASE t # op.hand
    BY <1>1, <1>2, <2>1, <2>3 DEF Claimed
  <2> QED
    BY <2>2, <2>3
<1> QED
  BY <1>2, <1>3

LEMMA ActivateKeeps == ASSUME GatewayInv, Activate PROVE GatewayInv'
<1>1. /\ op.pc = "activate" /\ saved' = saved /\ server' = Activated(op.hand, op.old)
      /\ gateway' = [gateway EXCEPT !.active = op.hand, !.cfg = op.next] /\ lapses' = {}
  BY Zenon DEF Activate, OpAt, Lapsed
<1>2. /\ op \in OpenCalls /\ CallSound /\ GatewayTypes /\ CallFits /\ gateway \in Managers
      /\ op.hand \in Servers /\ op.hand # op.old /\ op.next \in Settings /\ op.next.enabled
      /\ gateway.active \in {op.old, "none"} /\ server[op.hand].serves = op.next
  BY <1>1 DEF GatewayInv, GatewayTypes, CallSound, OpenCalls
<1>3. /\ gateway' \in Managers /\ gateway'.cfg = op.next /\ gateway'.active = op.hand
      /\ (gateway'.closed <=> gateway.closed)
  BY <1>1, <1>2 DEF Managers
<1>4. Follows(gateway', lapses', op.next) /\ lapses' \subseteq {"died", "missed", "unrestored"}
  BY <1>1, <1>2, <1>3, GatewayAssumption DEF Follows, GatewayAssumption
<1>5. CASE op.old = "none"
  <2>1. Return(TRUE) /\ gateway.active = "none"
    BY <1>2, <1>5 DEF Activate
  <2>2. server' \in [Servers -> Listeners] /\ \A t \in Servers : Claimed(t)'
    BY <1>1, <1>2, <1>3, <2>1, HandIsActive
  <2>3. op.call # "close"
    BY <1>1, <1>2 DEF CallFits
  <2> QED
    BY <1>1, <1>2, <1>3, <1>4, <2>1, <2>2, Returned
<1>6. CASE op.old # "none"
  <2>1. op' = [op EXCEPT !.pc = "retire", !.hand = op.old] /\ patch' = patch
    BY <1>6 DEF Activate
  <2>2. /\ op' \in OpenCalls /\ op'.pc = "retire" /\ op'.hand = op.old /\ op'.call = op.call /\ op'.next = op.next
        /\ op.old \in Servers
    BY <1>2, <1>6, <2>1 DEF OpenCalls, Places
  <2>3. server' \in [Servers -> Listeners] /\ \A t \in Servers : Claimed(t)'
    BY <1>1, <1>2, <1>3, <2>2, HandIsActive
  <2>4. CallSound'
    BY <1>2, <1>3, <2>2 DEF CallSound
  <2>5. CallFits'
    <3>1. op.call \in {"apply", "rollback"}
      BY <1>1, <1>2, <1>6 DEF CallFits, OpenCalls
    <3> QED
      BY <1>1, <1>2, <1>3, <2>1, <2>2, <3>1 DEF CallFits
  <2>6. FollowsUp'
    BY <1>4, <2>2 DEF FollowsUp
  <2>7. GatewayTypes'
    BY <1>1, <1>2, <1>3, <1>4, <2>1, <2>2, <2>3 DEF GatewayTypes
  <2> QED
    BY <2>3, <2>4, <2>5, <2>6, <2>7 DEF GatewayInv
<1> QED
  BY <1>5, <1>6

LEMMA ReinstateKeeps == ASSUME GatewayInv, Reinstate PROVE GatewayInv'
<1>1. /\ op.pc = "reinstate" /\ saved' = saved /\ server' = Activated(op.hand, "none")
      /\ gateway' = [gateway EXCEPT !.active = op.hand] /\ Lapsed(FALSE) /\ Return(FALSE)
  BY Zenon DEF Reinstate, OpAt
<1>2. /\ CallSound /\ GatewayTypes /\ CallFits /\ gateway \in Managers /\ op.call \in {"apply", "rollback"}
      /\ op.hand \in Servers /\ op.hand # "none" /\ gateway.active = "none" /\ server[op.hand].serves = gateway.cfg
  BY <1>1, GatewayAssumption DEF GatewayInv, GatewayTypes, CallSound, CallFits, GatewayAssumption
<1>3. /\ gateway' \in Managers /\ gateway'.cfg = gateway.cfg /\ gateway'.active = op.hand
      /\ (gateway'.closed <=> gateway.closed)
  BY <1>1, <1>2 DEF Managers
<1>4. lapses' \subseteq {"died", "missed", "unrestored"} /\ (op.call = "rollback" => "unrestored" \in lapses')
  BY <1>1, <1>2 DEF Lapsed, GatewayTypes
<1>5. server' \in [Servers -> Listeners] /\ \A t \in Servers : Claimed(t)'
  BY <1>1, <1>2, <1>3, HandIsActive
<1> QED
  BY <1>1, <1>2, <1>3, <1>4, <1>5, Returned

\* Once it is shut down, the listener of the call needs nobody's hand.
LEMMA ShutIsReleased ==
    ASSUME GatewayInv, op.pc \in {"retire", "shutdown"}, server' = ShutDown(op.hand),
           op'.pc \notin {"retire", "shutdown"}, gateway'.active = gateway.active,
           gateway'.cfg = gateway.cfg \/ gateway.active = "none"
    PROVE  server' \in [Servers -> Listeners] /\ \A t \in Servers : Claimed(t)'
<1>1. op.hand \in Servers \cup {"none"} /\ GatewayTypes
  BY DEF GatewayInv, GatewayTypes, OpenCalls
<1>2. /\ server' \in [Servers -> Listeners]
      /\ \A t \in Servers : t # op.hand => server'[t] = server[t]
      /\ \A t \in Servers : t = op.hand /\ server[t].state # "unmade" =>
            /\ server'[t].shut
            /\ server'[t].state = (IF server[t].state = "serving" THEN "ending" ELSE server[t].state)
      /\ \A t \in Servers : t = op.hand /\ server[t].state = "unmade" => server'[t].state \in {"unmade"}
  <2> DEFINE h == op.hand
  <2>1. h \in Servers \cup {"none"} /\ server' = ShutDown(h)
    BY <1>1
  <2> HIDE DEF h
  <2>2. /\ server' \in [Servers -> Listeners]
        /\ \A t \in Servers : t # h => server'[t] = server[t]
        /\ \A t \in Servers : t = h /\ server[t].state # "unmade" =>
              /\ server'[t].shut
              /\ server'[t].state = (IF server[t].state = "serving" THEN "ending" ELSE server[t].state)
        /\ \A t \in Servers : t = h /\ server[t].state = "unmade" => server'[t].state \in {"unmade"}
    BY <1>1, <2>1, ShutDownCloses
  <2> QED
    BY <2>2 DEF h
<1>3. ASSUME NEW t \in Servers PROVE Claimed(t)'
  <2>1. Claimed(t) /\ t # "none" /\ (t = gateway.active => t # op.hand)
    BY GatewayAssumption DEF GatewayInv, GatewayAssumption, CallSound
  <2>2. CASE t = op.hand
    <3>1. server[t].state # "bound" /\ gateway.active # t
      BY <2>1, <2>2 DEF Claimed
    <3>2. CASE server[t].state = "unmade"
      BY <1>2, <2>2, <3>1, <3>2 DEF Claimed
    <3>3. CASE server[t].state # "unmade"
      BY <1>2, <2>2, <3>1, <3>3 DEF Claimed
    <3> QED
      BY <3>2, <3>3
  <2>3. CASE t # op.hand
    BY <1>2, <2>1, <2>3 DEF Claimed
  <2> QED
    BY <2>2, <2>3
<1> QED
  BY <1>2, <1>3

LEMMA RetireKeeps == ASSUME GatewayInv, Retire PROVE GatewayInv'
<1>1. op.pc = "retire" /\ server' = ShutDown(op.hand) /\ Return(TRUE)
      /\ gateway' = gateway /\ saved' = saved /\ lapses' = lapses
  BY Zenon DEF Retire, OpAt
<1>2. op'.pc = "idle"
  BY <1>1 DEF Return, NoOp
<1>3. server' \in [Servers -> Listeners] /\ \A t \in Servers : Claimed(t)'
  BY <1>1, <1>2, ShutIsReleased
<1>4. /\ Follows(gateway', lapses', op.next) /\ gateway' \in Managers
      /\ lapses' \subseteq {"died", "missed", "unrestored"} /\ op.call \in {"apply", "rollback"}
  BY <1>1 DEF GatewayInv, FollowsUp, GatewayTypes, CallFits
<1> QED
  BY <1>1, <1>3, <1>4, Returned

LEMMA ShutdownKeeps == ASSUME GatewayInv, Shutdown PROVE GatewayInv'
<1>1. op.pc = "shutdown" /\ server' = ShutDown(op.hand) /\ saved' = saved
  BY Zenon DEF Shutdown, OpAt
<1>2. /\ op \in OpenCalls /\ CallSound /\ GatewayTypes /\ CallFits /\ gateway \in Managers /\ op.next \in Settings
      /\ gateway.active = "none" /\ op.call # "none" /\ lapses \subseteq {"died", "missed", "unrestored"}
  BY <1>1 DEF GatewayInv, GatewayTypes, CallSound, CallFits, OpenCalls
<1>3. Return(TRUE) \/ Return(FALSE) => op'.pc = "idle"
  BY DEF Return, NoOp
<1>4. CASE op.call # "close" /\ op.next.enabled /\ op' = [op EXCEPT !.pc = "rebind"]
           /\ gateway' = gateway /\ patch' = patch /\ lapses' = lapses
  <2>1. op' \in OpenCalls /\ op'.pc = "rebind" /\ op'.call = op.call /\ op'.next = op.next /\ op'.old = op.old
    BY <1>2, <1>4 DEF OpenCalls, Places
  <2>2. server' \in [Servers -> Listeners] /\ \A t \in Servers : Claimed(t)'
    BY <1>1, <1>4, <2>1, ShutIsReleased
  <2>3. CallSound' /\ CallFits'
    BY <1>1, <1>2, <1>4, <2>1 DEF CallSound, CallFits, OpenCalls
  <2>4. FollowsUp'
    BY <2>1 DEF FollowsUp
  <2>5. GatewayTypes'
    BY <1>1, <1>2, <1>4, <2>1, <2>2 DEF GatewayTypes
  <2> QED
    BY <2>2, <2>3, <2>4, <2>5 DEF GatewayInv
<1>5. CASE op.call # "close" /\ ~op.next.enabled /\ gateway' = [gateway EXCEPT !.cfg = op.next]
           /\ lapses' = {} /\ Return(TRUE)
  <2>1. gateway' \in Managers /\ gateway'.cfg = op.next /\ gateway'.active = "none" /\ (gateway'.closed <=> gateway.closed)
    BY <1>2, <1>5 DEF Managers
  <2>2. server' \in [Servers -> Listeners] /\ \A t \in Servers : Claimed(t)'
    BY <1>1, <1>2, <1>3, <1>5, <2>1, ShutIsReleased
  <2>3. Follows(gateway', lapses', op.next) /\ lapses' \subseteq {"died", "missed", "unrestored"}
    BY <1>5, <2>1 DEF Follows
  <2> QED
    BY <1>1, <1>2, <1>5, <2>1, <2>2, <2>3, Returned
<1>6. CASE op.call = "close" /\ Return(TRUE) /\ gateway' = gateway /\ lapses' = lapses
  <2>1. server' \in [Servers -> Listeners] /\ \A t \in Servers : Claimed(t)'
    BY <1>1, <1>3, <1>6, ShutIsReleased
  <2> QED
    BY <1>1, <1>2, <1>6, <2>1, Returned
<1>7. CASE op.call # "close" /\ Lapsed(FALSE) /\ Return(FALSE) /\ gateway' = gateway
  <2>1. lapses' \subseteq {"died", "missed", "unrestored"} /\ (op.call = "rollback" => "unrestored" \in lapses')
    BY <1>2, <1>7 DEF Lapsed
  <2>2. server' \in [Servers -> Listeners] /\ \A t \in Servers : Claimed(t)'
    BY <1>1, <1>3, <1>7, ShutIsReleased
  <2> QED
    BY <1>1, <1>2, <1>7, <2>1, <2>2, Returned
<1>8. Lapsed(TRUE) => lapses' = {}
  BY DEF Lapsed
<1> QED
  BY <1>4, <1>5, <1>6, <1>7, <1>8, Zenon DEF Shutdown, OpTo

LEMMA PatchKeeps == ASSUME GatewayInv, Patch \/ Save PROVE GatewayInv'
<1>1. gateway' = gateway /\ server' = server /\ op' = op /\ lapses' = lapses
  BY Zenon DEF Patch, Save
<1>2. GatewayTypes /\ CallSound /\ CallFits /\ FollowsUp /\ patch \in Patches /\ saved \in Settings
  BY DEF GatewayInv, GatewayTypes
<1>3. ASSUME NEW t \in Servers PROVE Claimed(t)'
  BY <1>1 DEF GatewayInv, Claimed
<1>4. CASE Patch
  <2>1. PICK cfg \in Settings : patch' = [pc |-> "apply", next |-> cfg]
    BY <1>4, Zenon DEF Patch
  <2>2. patch.pc = "idle" /\ gateway.started /\ saved' = saved
    BY <1>4, Zenon DEF Patch
  <2>3. patch' \in Patches /\ patch'.pc = "apply"
    BY <2>1 DEF Patches
  <2>4. CallSound' /\ CallFits' /\ FollowsUp'
    BY <1>1, <1>2, <2>2, <2>3 DEF CallSound, CallFits, FollowsUp, OpenCalls
  <2>5. GatewayTypes'
    BY <1>1, <1>2, <2>2, <2>3 DEF GatewayTypes
  <2> QED
    BY <1>3, <2>4, <2>5 DEF GatewayInv
<1>5. CASE Save
  <2>1. /\ patch.pc = "save"
        /\ \/ saved' = patch.next /\ patch' = [patch EXCEPT !.pc = "idle"]
           \/ patch' = [pc |-> "rollback", next |-> saved] /\ saved' = saved
    BY <1>5, Zenon DEF Save
  <2>2. /\ patch' \in Patches /\ saved' \in Settings
        /\ \/ saved' = patch.next /\ patch'.pc = "idle"
           \/ saved' = saved /\ patch'.pc = "rollback"
    BY <1>2, <2>1 DEF Patches
  <2>3. op.pc = "idle" \/ op.call = "close"
    BY <1>2, <2>1 DEF CallFits, GatewayTypes, OpenCalls
  <2>4. CallSound' /\ CallFits'
    BY <1>1, <1>2, <2>3 DEF CallSound, CallFits
  <2>5. FollowsUp'
    BY <1>1, <1>2, <2>1, <2>2, <2>3 DEF FollowsUp, CallFits
  <2>6. GatewayTypes'
    BY <1>1, <1>2, <2>2 DEF GatewayTypes
  <2> QED
    BY <1>3, <2>4, <2>5, <2>6 DEF GatewayInv
<1> QED
  BY <1>4, <1>5

LEMMA GatewayStepKeeps == ASSUME GatewayInv, [GatewayNext]_gatewayVars PROVE GatewayInv'
<1>1. ASSUME NEW s \in Servers, ServeBegins(s) \/ ListenerDies(s) \/ ServeEnds(s) PROVE GatewayInv'
  BY <1>1, ListenerSteps, ListenerEnds, Zenon
<1>2. CASE GatewayStart \/ GatewayClose \/ ReconfigureRefused \/ SwapService \/ Detach \/ BindNext \/ BindFails
  BY <1>2, GatewayStartKeeps, GatewayCloseKeeps, RefusedKeeps, SwapServiceKeeps, GatewayDetachKeeps, GatewayBindKeeps,
     BindFailsKeeps, Zenon
<1>3. CASE Activate \/ Retire \/ Shutdown \/ Rebind \/ Restore \/ Reinstate \/ Patch \/ Save
  BY <1>3, ActivateKeeps, RetireKeeps, ShutdownKeeps, RebindKeeps, RestoreKeeps, ReinstateKeeps, PatchKeeps, Zenon
<1>4. CASE Reconfigure("apply", patch.next) \/ Reconfigure("rollback", saved)
  <2>1. patch.next \in Settings /\ saved \in Settings
    BY DEF GatewayInv, GatewayTypes, Patches
  <2>2. PICK call \in {"apply", "rollback"}, cfg \in Settings :
           /\ Reconfigure(call, cfg)
           /\ call = "apply" => cfg = patch.next
           /\ call = "rollback" => cfg = saved
    BY <1>4, <2>1
  <2> QED
    BY <2>2, ReconfigureKeeps
<1>5. CASE UNCHANGED gatewayVars
  <2>1. gateway' = gateway /\ server' = server /\ op' = op /\ patch' = patch /\ saved' = saved /\ lapses' = lapses
    BY <1>5 DEF gatewayVars
  <2> QED
    BY <2>1 DEF GatewayInv, GatewayTypes, Claimed, CallSound, CallFits, FollowsUp
<1> QED
  BY <1>1, <1>2, <1>3, <1>4, <1>5, Zenon DEF GatewayNext

LEMMA GatewayHolds == GatewaySpec => []GatewayInv
<1>1. GatewayInv /\ [GatewayNext]_gatewayVars => GatewayInv'
  BY GatewayStepKeeps
<1> QED
  BY GatewayInitHolds, <1>1, PTL DEF GatewaySpec

\* No listener accepts in nobody's hand, and what the manager reports as
\* running serves the settings it reports (Manager of manager.go), in every
\* interleaving of Start, Reconfigure and Close with serve goroutines that end.
THEOREM ListenersStayInHand == GatewaySpec => []ListenerInHand
<1>1. GatewayInv => ListenerInHand
  <2> SUFFICES ASSUME GatewayInv PROVE ListenerInHand
    OBVIOUS
  <2>1. /\ gateway.active \in Servers \cup {"none"} /\ \A s \in Servers : Claimed(s)
    BY DEF GatewayInv, GatewayTypes, Managers
  <2>2. ASSUME NEW s \in Bound
        PROVE  \/ gateway.active = s
               \/ ~OpAt("idle") /\ s \in {op.hand, op.old}
               \/ server[s].shut /\ server[s].state = "handed"
    BY <2>1 DEF Bound, Claimed, OpAt
  <2> QED
    BY <2>1, <2>2 DEF ListenerInHand, Claimed
<1> QED
  BY GatewayHolds, <1>1, PTL

\* Between two patches the manager runs what was saved and listens when it
\* should (patchGatewayRuntimeConfig of gateway_runtime_admin.go), unless a
\* failed rollback, a swap that missed its listener or a listener's death
\* explains the difference.
THEOREM SettingsAreKept == GatewaySpec => []SettingsKept
<1>1. GatewayInv => SettingsKept
  BY DEF GatewayInv, FollowsUp, Follows, SettingsKept, OpAt
<1> QED
  BY GatewayHolds, <1>1, PTL

-----------------------------------------------------------------------------
(* Message queue. A follow-up is a row, in the hands of one claimant, or in  *)
(* the conversation; the run and the goroutines that drain are treated alike *)
(* as claimants, whatever name the run has among them.                       *)

QueueRows == [msg : Messages, pos : Nat, text : Nat, mode : RunModes \cup {"any"}]
QueueItems == QueueRows \cup {NoItem}
RunViews == [pc : {"none", "model", "steer", "claimed", "restore", "parked"}, item : QueueItems,
             mode : RunModes \cup {"any"}, shut : {"no", "gate", "stale"}, canceled : BOOLEAN, next : BOOLEAN]
DrainPlaces == {"none", "begin", "look", "claim", "send", "restore", "end"}
Drains == [pc : DrainPlaces, item : QueueItems]
Told == [state : {"new", "asked", "deleted", "lost"}, text : Nat, late : Nat]
Spendings == [submits : Nat, stops : Nat, faults : Nat, missed : BOOLEAN]

TheRun == CHOOSE x : x \notin Drainers
Claimants == Drainers \cup {TheRun}
Claims == [c \in Claimants |-> IF c = TheRun THEN turn.item ELSE drainer[c].item]

Held(m) == (\E r \in queue : r.msg = m) \/ (\E c \in Claimants : Claims[c].msg = m)

QueueTypes ==
    /\ queue \in SUBSET QueueRows /\ IsFiniteSet(queue)
    /\ turn \in RunViews
    /\ drainer \in [Drainers -> Drains]
    /\ draining \in BOOLEAN
    /\ notices \in Nat
    /\ said \in [Messages -> SUBSET (Nat \X Nat)]
    /\ asked \in [Messages -> Told]
    /\ spent \in Spendings

\* No two places hold the same follow-up, and each holds its last text.
Sole ==
    /\ \A r, s \in queue : r.msg = s.msg => r = s
    /\ \A r \in queue, c \in Claimants : r.msg # Claims[c].msg
    /\ \A c, e \in Claimants : Claims[c].msg = Claims[e].msg /\ Claims[c] # NoItem => c = e
    /\ \A r \in queue : r.text = asked[r.msg].text
    /\ \A c \in Claimants : Claims[c] # NoItem => Claims[c].text = asked[Claims[c].msg].text

\* What became of the follow-up m agrees with what the user was told.
Kept(m) ==
    /\ IsFiniteSet(said[m])
    /\ Held(m) => asked[m].state = "asked" /\ Cardinality(said[m]) <= asked[m].late
    /\ Cardinality(said[m]) <= asked[m].late + 1
    /\ asked[m].state = "new" => said[m] = {} /\ asked[m].late = 0 /\ asked[m].text = 0
    /\ asked[m].state = "asked" => Held(m) \/ said[m] # {}
    /\ asked[m].state = "deleted" => Cardinality(said[m]) <= asked[m].late

Looking(d) == drainer[d].pc \in {"look", "claim", "send", "restore", "end"}

\* Who is where, and that somebody will look at a follow-up that waits.
Drained ==
    /\ turn.pc \in {"claimed", "restore"} <=> turn.item # NoItem
    /\ \A d \in Drainers : drainer[d].pc \in {"send", "restore"} <=> drainer[d].item # NoItem
    /\ \A d, e \in Drainers : Looking(d) /\ Looking(e) => d = e
    /\ \A d \in Drainers : Looking(d) => draining
    /\ draining => \E d \in Drainers : Looking(d)
    /\ \A d \in Drainers : drainer[d].pc = "restore" => spent.missed
    /\ FollowUpAttended

QueueInv ==
    /\ QueueTypes
    /\ Sole
    /\ \A m \in Messages : Kept(m)
    /\ Drained

\* A name for the run that no goroutine has.
LEMMA RunIsNoDrainer == TheRun \notin Drainers
<1>1. {d \in Drainers : d \notin d} \notin Drainers
  OBVIOUS
<1> QED
  BY <1>1 DEF TheRun

\* A finite set of rows has one that no other comes after.
LEMMA LastRow ==
    ASSUME NEW Q \in SUBSET QueueRows, IsFiniteSet(Q), Q # {}
    PROVE  \E r \in Q : \A s \in Q : s.pos <= r.pos
<1> DEFINE Last(U) == \E r \in U : \A s \in U : s.pos <= r.pos
           Bad == {U \in FiniteSubsetsOf(Q) : U # {} /\ ~Last(U)}
<1>1. Bad = {}
  <2> SUFFICES ASSUME Bad # {} PROVE FALSE
    OBVIOUS
  <2>1. IsWellFoundedOn(StrictSubsetOrdering(Q), FiniteSubsetsOf(Q)) /\ Bad \subseteq FiniteSubsetsOf(Q)
    BY FS_StrictSubsetOrderingWellFounded
  <2>2. PICK U \in Bad : \A V \in Bad : ~(<<V, U>> \in StrictSubsetOrdering(Q))
    <3> HIDE DEF Bad
    <3> QED
      BY <2>1, WFMin
  <2>3. U \subseteq Q /\ IsFiniteSet(U) /\ U # {} /\ ~Last(U)
    BY DEF FiniteSubsetsOf
  <2>4. PICK x \in U : TRUE
    BY <2>3
  <2> DEFINE V == U \ {x}
  <2>5. V \subseteq Q /\ IsFiniteSet(V) /\ V \subseteq U /\ V # U
    BY <2>3, <2>4, FS_RemoveElement
  <2>6. V \notin Bad
    <3> HIDE DEF Bad, V
    <3> QED
      BY <2>2, <2>3, <2>5 DEF StrictSubsetOrdering
  <2>7. V = {} \/ Last(V)
    <3> HIDE DEF V, Last
    <3> QED
      BY <2>5, <2>6 DEF FiniteSubsetsOf
  <2>8. \A s \in U : s.pos \in Nat
    BY <2>3 DEF QueueRows
  <2>9. CASE V = {}
    <3>1. U = {x}
      BY <2>4, <2>9
    <3> QED
      BY <2>3, <2>8, <3>1
  <2>10. CASE Last(V)
    <3>1. PICK r \in V : \A s \in V : s.pos <= r.pos
      BY <2>10
    <3>2. r \in U /\ \A s \in U : s = x \/ s.pos <= r.pos
      BY <3>1
    <3>3. CASE x.pos <= r.pos
      BY <2>3, <3>2, <3>3
    <3>4. CASE ~(x.pos <= r.pos)
      <4>1. \A s \in U : s.pos <= x.pos
        BY <2>4, <2>8, <3>2, <3>4
      <4> QED
        BY <2>3, <2>4, <4>1
    <3> QED
      BY <3>3, <3>4
  <2> QED
    BY <2>7, <2>9, <2>10
<1>2. Q \in FiniteSubsetsOf(Q)
  BY DEF FiniteSubsetsOf
<1> QED
  BY <1>1, <1>2

LEMMA LastPositionIsNat == ASSUME QueueTypes PROVE LastPosition \in Nat
<1>1. queue \in SUBSET QueueRows /\ IsFiniteSet(queue)
  BY DEF QueueTypes
<1>2. CASE queue = {}
  BY <1>2 DEF LastPosition
<1>3. CASE queue # {}
  <2>1. PICK r \in queue : \A s \in queue : s.pos <= r.pos
    BY <1>1, <1>3, LastRow
  <2>2. r.pos \in {s.pos : s \in queue}
    BY <2>1
  <2>3. LastPosition \in {s.pos : s \in queue}
    BY <1>3, <2>1, <2>2 DEF LastPosition
  <2> QED
    BY <1>1, <2>3 DEF QueueRows
<1> QED
  BY <1>2, <1>3

\* A saying more in the conversation.
LEMMA SaidGrows ==
    ASSUME NEW S, IsFiniteSet(S), NEW x
    PROVE  /\ IsFiniteSet(S \cup {x}) /\ S \cup {x} # {}
           /\ Cardinality(S) \in Nat /\ Cardinality(S \cup {x}) \in Nat
           /\ Cardinality(S \cup {x}) <= Cardinality(S) + 1
<1>1. Cardinality(S) \in Nat
  BY FS_CardinalityType
<1>2. IsFiniteSet(S \cup {x}) /\ Cardinality(S \cup {x}) = IF x \in S THEN Cardinality(S) ELSE Cardinality(S) + 1
  BY FS_AddElement
<1> QED
  BY <1>1, <1>2

\* What every lemma about the places of follow-ups needs of the state.
PlacesTyped ==
    /\ queue \subseteq QueueRows
    /\ Claims \in [Claimants -> QueueItems]
    /\ said \in [Messages -> SUBSET (Nat \X Nat)]
    /\ asked \in [Messages -> Told]

PlacesInv == PlacesTyped /\ Sole /\ \A m \in Messages : Kept(m)

LEMMA ItemNames ==
    /\ NoItem.msg = "none"
    /\ \A r \in QueueRows : r.msg \in Messages /\ r.text \in Nat /\ r.msg # "none" /\ r # NoItem
    /\ \A r \in QueueItems : r \in QueueRows \/ r = NoItem
    /\ \A r \in QueueItems : r.msg \in Messages => r \in QueueRows
BY QueueAssumption DEF NoItem, QueueRows, QueueItems, QueueAssumption

LEMMA KeptCounts ==
    ASSUME PlacesInv, NEW m \in Messages
    PROVE  Cardinality(said[m]) \in Nat /\ asked[m].late \in Nat
<1>1. IsFiniteSet(said[m])
  BY DEF PlacesInv, Kept
<1>2. Cardinality(said[m]) \in Nat
  BY <1>1, FS_CardinalityType
<1> QED
  BY <1>2 DEF PlacesInv, PlacesTyped, Told

\* A new row, of a follow-up not parked before.
LEMMA RowIsParked ==
    ASSUME PlacesInv, NEW n \in QueueRows, asked[n.msg].state = "new", n.text = 0,
           queue' = queue \cup {n}, Claims' = Claims, said' = said,
           asked' = [asked EXCEPT ![n.msg].state = "asked"]
    PROVE  PlacesInv'
<1> DEFINE m == n.msg
<1>1. m \in Messages /\ PlacesTyped /\ Sole /\ Kept(m) /\ \A x \in Messages : Kept(x)
  BY ItemNames DEF PlacesInv
<1>2. /\ asked' \in [Messages -> Told] /\ asked'[m].state = "asked"
      /\ asked'[m].text = asked[m].text /\ asked'[m].late = asked[m].late
      /\ \A x \in Messages : x # m => asked'[x] = asked[x]
  BY <1>1 DEF PlacesTyped, Told
<1>3. PlacesTyped'
  BY <1>1, <1>2 DEF PlacesTyped
<1>4. ~Held(m) /\ asked[m].text = 0 /\ asked[m].late = 0 /\ said[m] = {}
  BY <1>1 DEF Kept
<1>5. (\A r \in queue : r.msg # m) /\ (\A c \in Claimants : Claims[c].msg # m)
  BY <1>4 DEF Held
<1>6. Sole'
  <2>1. \A r \in queue : r.msg \in Messages /\ asked'[r.msg].text = asked[r.msg].text
    BY <1>1, <1>2, ItemNames DEF PlacesTyped
  <2>2. \A c \in Claimants : Claims[c] # NoItem => Claims[c].msg \in Messages /\ asked'[Claims[c].msg].text = asked[Claims[c].msg].text
    BY <1>1, <1>2, ItemNames DEF PlacesTyped
  <2> QED
    BY <1>1, <1>2, <1>4, <1>5, <2>1, <2>2 DEF Sole
<1>7. ASSUME NEW x \in Messages PROVE Kept(x)'
  <2>1. CASE x = m
    <3>1. IsFiniteSet(said[m]) /\ Cardinality(said[m]) = 0
      BY <1>4, FS_EmptySet
    <3>2. Held(m)'
      BY DEF Held
    <3> QED
      BY <1>2, <1>4, <2>1, <3>1, <3>2 DEF Kept
  <2>2. CASE x # m
    <3>1. Held(x)' <=> Held(x)
      BY <2>2 DEF Held
    <3> QED
      BY <1>1, <1>2, <2>2, <3>1 DEF Kept
  <2> QED
    BY <2>1, <2>2
<1> QED
  BY <1>3, <1>6, <1>7 DEF PlacesInv

LEMMA RowIsEdited ==
    ASSUME PlacesInv, NEW r \in queue, NEW n \in QueueRows, n.msg = r.msg,
           queue' = (queue \ {r}) \cup {n}, Claims' = Claims, said' = said,
           asked' = [asked EXCEPT ![r.msg].text = n.text], asked[r.msg].state # "new"
    PROVE  PlacesInv'
<1> DEFINE m == r.msg
<1>1. m \in Messages /\ PlacesTyped /\ Sole /\ \A x \in Messages : Kept(x)
  BY ItemNames DEF PlacesInv, PlacesTyped
<1>2. /\ asked' \in [Messages -> Told] /\ asked'[m].state = asked[m].state
      /\ asked'[m].text = n.text /\ asked'[m].late = asked[m].late
      /\ \A x \in Messages : x # m => asked'[x] = asked[x]
  BY <1>1, ItemNames DEF PlacesTyped, Told
<1>3. PlacesTyped'
  BY <1>1, <1>2 DEF PlacesTyped
<1>4. (\A s \in queue : s # r => s.msg # m) /\ (\A c \in Claimants : Claims[c].msg # m)
  BY <1>1 DEF Sole
<1>5. Sole'
  <2>1. \A s \in queue : s # r => s.msg \in Messages /\ asked'[s.msg].text = asked[s.msg].text
    BY <1>1, <1>2, <1>4, ItemNames DEF PlacesTyped
  <2>2. \A c \in Claimants : Claims[c] # NoItem => Claims[c].msg \in Messages /\ asked'[Claims[c].msg].text = asked[Claims[c].msg].text
    BY <1>1, <1>2, <1>4, ItemNames DEF PlacesTyped
  <2> QED
    BY <1>1, <1>2, <1>4, <2>1, <2>2 DEF Sole
<1>6. ASSUME NEW x \in Messages PROVE Kept(x)'
  <2>1. Held(x)' <=> Held(x)
    BY <1>4 DEF Held
  <2>2. asked'[x].state = asked[x].state /\ asked'[x].late = asked[x].late /\ (asked[x].state = "new" => asked'[x] = asked[x])
    BY <1>2
  <2> QED
    BY <1>1, <2>1, <2>2 DEF Kept
<1> QED
  BY <1>3, <1>5, <1>6 DEF PlacesInv

LEMMA RowIsDeleted ==
    ASSUME PlacesInv, NEW r \in queue,
           queue' = queue \ {r}, Claims' = Claims, said' = said,
           asked' = [asked EXCEPT ![r.msg].state = "deleted"]
    PROVE  PlacesInv'
<1> DEFINE m == r.msg
<1>1. m \in Messages /\ PlacesTyped /\ Sole /\ \A x \in Messages : Kept(x)
  BY ItemNames DEF PlacesInv, PlacesTyped
<1>2. /\ asked' \in [Messages -> Told] /\ asked'[m].state = "deleted"
      /\ asked'[m].text = asked[m].text /\ asked'[m].late = asked[m].late
      /\ \A x \in Messages : x # m => asked'[x] = asked[x]
  BY <1>1 DEF PlacesTyped, Told
<1>3. PlacesTyped'
  BY <1>1, <1>2 DEF PlacesTyped
<1>4. (\A s \in queue : s # r => s.msg # m) /\ (\A c \in Claimants : Claims[c].msg # m)
  BY <1>1 DEF Sole
<1>5. Sole'
  <2>1. \A s \in queue : s # r => s.msg \in Messages /\ asked'[s.msg].text = asked[s.msg].text
    BY <1>1, <1>2, <1>4, ItemNames DEF PlacesTyped
  <2>2. \A c \in Claimants : Claims[c] # NoItem => Claims[c].msg \in Messages /\ asked'[Claims[c].msg].text = asked[Claims[c].msg].text
    BY <1>1, <1>2, <1>4, ItemNames DEF PlacesTyped
  <2> QED
    BY <1>1, <2>1, <2>2 DEF Sole
<1>6. ASSUME NEW x \in Messages PROVE Kept(x)'
  <2>1. CASE x = m
    <3>1. Held(m) /\ ~Held(m)'
      BY <1>4 DEF Held
    <3> QED
      BY <1>1, <1>2, <2>1, <3>1 DEF Kept
  <2>2. CASE x # m
    <3>1. Held(x)' <=> Held(x)
      BY <2>2 DEF Held
    <3> QED
      BY <1>1, <1>2, <2>2, <3>1 DEF Kept
  <2> QED
    BY <2>1, <2>2
<1> QED
  BY <1>3, <1>5, <1>6 DEF PlacesInv

\* A row is claimed, and one that is claimed is put back.
LEMMA RowIsClaimed ==
    ASSUME PlacesInv, NEW r \in queue, NEW c \in Claimants, Claims[c] = NoItem,
           queue' = queue \ {r}, Claims' = [Claims EXCEPT ![c] = r], said' = said, asked' = asked
    PROVE  PlacesInv'
<1>1. r.msg \in Messages /\ r \in QueueRows /\ PlacesTyped /\ Sole /\ \A x \in Messages : Kept(x)
  BY ItemNames DEF PlacesInv, PlacesTyped
<1>2. /\ Claims' \in [Claimants -> QueueItems] /\ Claims'[c] = r
      /\ \A e \in Claimants : e # c => Claims'[e] = Claims[e]
  BY <1>1 DEF PlacesTyped, QueueItems
<1>3. PlacesTyped'
  BY <1>1, <1>2 DEF PlacesTyped
<1>4. (\A s \in queue : s # r => s.msg # r.msg) /\ (\A e \in Claimants : Claims[e].msg # r.msg)
  BY <1>1 DEF Sole
<1>5. Sole'
  BY <1>1, <1>2, <1>4 DEF Sole
<1>6. ASSUME NEW x \in Messages PROVE Kept(x)'
  <2>1. Held(x)' <=> Held(x)
    <3>1. CASE x = r.msg
      <4>1. Held(x) /\ \E e \in Claimants : Claims'[e].msg = x
        BY <1>2, <3>1 DEF Held
      <4> QED
        BY <4>1 DEF Held
    <3>2. CASE x # r.msg
      <4>1. \A e \in Claimants : Claims'[e].msg = x <=> Claims[e].msg = x
        BY <1>2, <3>2, ItemNames, QueueAssumption DEF QueueAssumption
      <4>2. \A s \in queue : s.msg = x => s \in queue'
        BY <3>2
      <4> QED
        BY <4>1, <4>2 DEF Held
    <3> QED
      BY <3>1, <3>2
  <2> QED
    BY <1>1, <2>1 DEF Kept
<1> QED
  BY <1>3, <1>5, <1>6 DEF PlacesInv

LEMMA RowIsRestored ==
    ASSUME PlacesInv, NEW c \in Claimants, Claims[c] # NoItem,
           queue' = queue \cup {Claims[c]}, Claims' = [Claims EXCEPT ![c] = NoItem], said' = said, asked' = asked
    PROVE  PlacesInv'
<1> DEFINE r == Claims[c]
<1>1. r.msg \in Messages /\ r \in QueueRows /\ PlacesTyped /\ Sole /\ \A x \in Messages : Kept(x)
  BY ItemNames DEF PlacesInv, PlacesTyped
<1>2. /\ Claims' \in [Claimants -> QueueItems] /\ Claims'[c] = NoItem
      /\ \A e \in Claimants : e # c => Claims'[e] = Claims[e]
  BY <1>1 DEF PlacesTyped, QueueItems
<1>3. PlacesTyped'
  BY <1>1, <1>2 DEF PlacesTyped
<1>4. (\A s \in queue : s.msg # r.msg) /\ (\A e \in Claimants : e # c => Claims[e].msg # r.msg)
  BY <1>1 DEF Sole
<1>5. NoItem.msg # r.msg /\ \A s \in queue : s.msg # NoItem.msg
  BY <1>1, ItemNames DEF PlacesTyped
<1>6. Sole'
  <2>1. \A s, q \in queue' : s.msg = q.msg => s = q
    BY <1>1, <1>4 DEF Sole
  <2>2. \A s \in queue', e \in Claimants : s.msg # Claims'[e].msg
    BY <1>1, <1>2, <1>4, <1>5 DEF Sole
  <2>3. \A d, e \in Claimants : Claims'[d].msg = Claims'[e].msg /\ Claims'[d] # NoItem => d = e
    <3>1. \A d \in Claimants : Claims[d] # NoItem => Claims[d].msg # NoItem.msg
      BY <1>1, ItemNames DEF PlacesTyped
    <3> QED
      BY <1>1, <1>2, <3>1 DEF Sole
  <2>4. \A s \in queue' : s.text = asked[s.msg].text
    BY <1>1 DEF Sole
  <2>5. \A e \in Claimants : Claims'[e] # NoItem => Claims'[e].text = asked[Claims'[e].msg].text
    BY <1>1, <1>2 DEF Sole
  <2> QED
    BY <2>1, <2>2, <2>3, <2>4, <2>5 DEF Sole
<1>7. ASSUME NEW x \in Messages PROVE Kept(x)'
  <2>1. Held(x)' <=> Held(x)
    BY <1>2, ItemNames DEF Held
  <2> QED
    BY <1>1, <2>1 DEF Kept
<1> QED
  BY <1>3, <1>6, <1>7 DEF PlacesInv

\* A claimed follow-up is said, and with that out of hand.
LEMMA ItemIsSaid ==
    ASSUME PlacesInv, NEW c \in Claimants, Claims[c] # NoItem, NEW p \in Nat \X Nat,
           queue' = queue, Claims' = [Claims EXCEPT ![c] = NoItem], asked' = asked,
           said' = [said EXCEPT ![Claims[c].msg] = said[Claims[c].msg] \cup {p}]
    PROVE  PlacesInv'
<1> DEFINE m == Claims[c].msg
<1>1. m \in Messages /\ PlacesTyped /\ Sole /\ \A x \in Messages : Kept(x)
  BY ItemNames DEF PlacesInv, PlacesTyped
<1>2. /\ Claims' \in [Claimants -> QueueItems] /\ Claims'[c] = NoItem
      /\ \A e \in Claimants : e # c => Claims'[e] = Claims[e]
  BY <1>1 DEF PlacesTyped, QueueItems
<1>3. /\ said' \in [Messages -> SUBSET (Nat \X Nat)] /\ said'[m] = said[m] \cup {p}
      /\ \A x \in Messages : x # m => said'[x] = said[x]
  <2> HIDE DEF m
  <2>1. said[m] \cup {p} \in SUBSET (Nat \X Nat)
    BY <1>1 DEF PlacesTyped
  <2>2. said' = [said EXCEPT ![m] = said[m] \cup {p}]
    BY DEF m
  <2> QED
    BY <1>1, <2>1, <2>2 DEF PlacesTyped
<1>4. PlacesTyped'
  BY <1>1, <1>2, <1>3 DEF PlacesTyped
<1>5. (\A s \in queue : s.msg # m) /\ (\A e \in Claimants : e # c => Claims[e].msg # m)
  BY <1>1 DEF Sole
<1>6. Sole'
  <2>1. \A s \in queue : s.msg # NoItem.msg
    BY <1>1, ItemNames DEF PlacesTyped
  <2>2. \A d \in Claimants : Claims[d] # NoItem => Claims[d].msg # NoItem.msg
    BY <1>1, ItemNames DEF PlacesTyped
  <2>3. \A d, e \in Claimants : Claims'[d].msg = Claims'[e].msg /\ Claims'[d] # NoItem => d = e
    BY <1>1, <1>2, <2>2 DEF Sole
  <2>4. \A s \in queue, e \in Claimants : s.msg # Claims'[e].msg
    BY <1>1, <1>2, <2>1 DEF Sole
  <2>5. \A e \in Claimants : Claims'[e] # NoItem => Claims'[e].text = asked[Claims'[e].msg].text
    BY <1>1, <1>2 DEF Sole
  <2> QED
    BY <1>1, <2>3, <2>4, <2>5 DEF Sole
<1>7. ASSUME NEW x \in Messages PROVE Kept(x)'
  <2>1. CASE x = m
    <3>1. Held(m)
      BY DEF Held
    <3>2. ~Held(x)'
      <4>1. \A s \in queue' : s.msg # x
        BY <1>5, <2>1
      <4>2. \A e \in Claimants : Claims'[e].msg # x
        <5>1. NoItem.msg # x
          BY <1>1, ItemNames, QueueAssumption DEF QueueAssumption
        <5> HIDE DEF m
        <5> QED
          BY <1>2, <1>5, <2>1, <5>1
      <4> QED
        BY <4>1, <4>2 DEF Held
    <3>3. /\ IsFiniteSet(said[m]) /\ asked[m].state = "asked" /\ Cardinality(said[m]) <= asked[m].late
      BY <1>1, <3>1 DEF Kept
    <3>4. /\ IsFiniteSet(said'[m]) /\ said'[m] # {} /\ Cardinality(said'[m]) \in Nat
          /\ Cardinality(said'[m]) <= Cardinality(said[m]) + 1 /\ Cardinality(said[m]) \in Nat
      <4> DEFINE S == said[m]
      <4>1. IsFiniteSet(S) /\ said'[m] = S \cup {p}
        BY <1>3, <3>3
      <4> HIDE DEF S
      <4>2. /\ IsFiniteSet(S \cup {p}) /\ S \cup {p} # {} /\ Cardinality(S) \in Nat /\ Cardinality(S \cup {p}) \in Nat
            /\ Cardinality(S \cup {p}) <= Cardinality(S) + 1
        BY <4>1, SaidGrows
      <4> QED
        BY <4>1, <4>2 DEF S
    <3>5. asked[m].late \in Nat
      BY <1>1 DEF PlacesTyped, Told
    <3>6. Cardinality(said'[m]) <= asked[m].late + 1
      BY <3>3, <3>4, <3>5
    <3>7. asked'[m] = asked[m]
      OBVIOUS
    <3> HIDE DEF m
    <3> QED
      BY <2>1, <3>2, <3>3, <3>4, <3>6, <3>7 DEF Kept
  <2>2. CASE x # m
    <3>1. Held(x)' <=> Held(x)
      <4>1. \A e \in Claimants : Claims'[e].msg = x <=> Claims[e].msg = x
        BY <1>2, <2>2, ItemNames, QueueAssumption DEF QueueAssumption
      <4> QED
        BY <4>1 DEF Held
    <3> QED
      BY <1>1, <1>3, <2>2, <3>1 DEF Kept
  <2> QED
    BY <2>1, <2>2
<1> QED
  BY <1>4, <1>6, <1>7 DEF PlacesInv

\* A send that fails after its message was stored: the follow-up stays in hand.
LEMMA ItemIsSaidLate ==
    ASSUME PlacesInv, NEW c \in Claimants, Claims[c] # NoItem, NEW p \in Nat \X Nat,
           queue' = queue, Claims' = Claims,
           asked' = [asked EXCEPT ![Claims[c].msg].late = asked[Claims[c].msg].late + 1],
           said' = [said EXCEPT ![Claims[c].msg] = said[Claims[c].msg] \cup {p}]
    PROVE  PlacesInv'
<1> DEFINE m == Claims[c].msg
<1>1. m \in Messages /\ PlacesTyped /\ Sole /\ \A x \in Messages : Kept(x)
  BY ItemNames DEF PlacesInv, PlacesTyped
<1>2. /\ said' \in [Messages -> SUBSET (Nat \X Nat)] /\ said'[m] = said[m] \cup {p}
      /\ \A x \in Messages : x # m => said'[x] = said[x]
  <2> HIDE DEF m
  <2>1. said[m] \cup {p} \in SUBSET (Nat \X Nat)
    BY <1>1 DEF PlacesTyped
  <2>2. said' = [said EXCEPT ![m] = said[m] \cup {p}]
    BY DEF m
  <2> QED
    BY <1>1, <2>1, <2>2 DEF PlacesTyped
<1>3. /\ asked' \in [Messages -> Told] /\ asked'[m].late = asked[m].late + 1 /\ asked[m].late \in Nat
      /\ \A x \in Messages : asked'[x].state = asked[x].state /\ asked'[x].text = asked[x].text
      /\ \A x \in Messages : x # m => asked'[x] = asked[x]
  BY <1>1 DEF PlacesTyped, Told
<1>4. PlacesTyped'
  BY <1>1, <1>2, <1>3 DEF PlacesTyped
<1>5. Sole'
  <2>1. \A r \in queue : asked'[r.msg].text = asked[r.msg].text
    BY <1>1, <1>3, ItemNames DEF PlacesTyped
  <2>2. \A e \in Claimants : Claims[e] # NoItem => asked'[Claims[e].msg].text = asked[Claims[e].msg].text
    BY <1>1, <1>3, ItemNames DEF PlacesTyped
  <2> QED
    BY <1>1, <2>1, <2>2 DEF Sole
<1>6. ASSUME NEW x \in Messages PROVE Kept(x)'
  <2>1. Held(x)' <=> Held(x)
    BY DEF Held
  <2>2. CASE x = m
    <3>1. Held(m)
      BY DEF Held
    <3>2. /\ IsFiniteSet(said[m]) /\ asked[m].state = "asked" /\ Cardinality(said[m]) <= asked[m].late
      BY <1>1, <3>1 DEF Kept
    <3>3. /\ IsFiniteSet(said'[m]) /\ said'[m] # {} /\ Cardinality(said'[m]) \in Nat
          /\ Cardinality(said'[m]) <= Cardinality(said[m]) + 1 /\ Cardinality(said[m]) \in Nat
      <4> DEFINE S == said[m]
      <4>1. IsFiniteSet(S) /\ said'[m] = S \cup {p}
        BY <1>2, <3>2
      <4> HIDE DEF S
      <4>2. /\ IsFiniteSet(S \cup {p}) /\ S \cup {p} # {} /\ Cardinality(S) \in Nat /\ Cardinality(S \cup {p}) \in Nat
            /\ Cardinality(S \cup {p}) <= Cardinality(S) + 1
        BY <4>1, SaidGrows
      <4> QED
        BY <4>1, <4>2 DEF S
    <3>4. Cardinality(said'[m]) <= asked'[m].late /\ Cardinality(said'[m]) <= asked'[m].late + 1 /\ asked'[m].state = "asked"
      BY <1>1, <1>3, <3>2, <3>3
    <3> HIDE DEF m
    <3> QED
      BY <2>2, <3>3, <3>4 DEF Kept
  <2>3. CASE x # m
    BY <1>1, <1>2, <1>3, <2>1, <2>3 DEF Kept
  <2> QED
    BY <2>2, <2>3
<1> QED
  BY <1>4, <1>5, <1>6 DEF PlacesInv

\* What was claimed is dropped: the user was told of it, and it is in no place.
LEMMA ItemIsLost ==
    ASSUME PlacesInv, NEW c \in Claimants, Claims[c] # NoItem,
           queue' = queue, Claims' = [Claims EXCEPT ![c] = NoItem], said' = said,
           asked' = [asked EXCEPT ![Claims[c].msg].state = "lost"]
    PROVE  PlacesInv'
<1> DEFINE m == Claims[c].msg
<1>1. m \in Messages /\ PlacesTyped /\ Sole /\ \A x \in Messages : Kept(x)
  BY ItemNames DEF PlacesInv, PlacesTyped
<1>2. /\ Claims' \in [Claimants -> QueueItems] /\ Claims'[c] = NoItem
      /\ \A e \in Claimants : e # c => Claims'[e] = Claims[e]
  BY <1>1 DEF PlacesTyped, QueueItems
<1>3. /\ asked' \in [Messages -> Told] /\ asked'[m].state = "lost" /\ asked'[m].late = asked[m].late
      /\ \A x \in Messages : asked'[x].text = asked[x].text
      /\ \A x \in Messages : x # m => asked'[x] = asked[x]
  BY <1>1 DEF PlacesTyped, Told
<1>4. PlacesTyped'
  BY <1>1, <1>2, <1>3 DEF PlacesTyped
<1>5. (\A s \in queue : s.msg # m) /\ (\A e \in Claimants : e # c => Claims[e].msg # m)
  BY <1>1 DEF Sole
<1>6. Sole'
  <2>1. \A s \in queue : s.msg # NoItem.msg /\ asked'[s.msg].text = asked[s.msg].text
    BY <1>1, <1>3, ItemNames DEF PlacesTyped
  <2>2. \A d \in Claimants : Claims[d] # NoItem =>
           Claims[d].msg # NoItem.msg /\ asked'[Claims[d].msg].text = asked[Claims[d].msg].text
    BY <1>1, <1>3, ItemNames DEF PlacesTyped
  <2>3. \A d, e \in Claimants : Claims'[d].msg = Claims'[e].msg /\ Claims'[d] # NoItem => d = e
    BY <1>1, <1>2, <2>2 DEF Sole
  <2>4. \A s \in queue, e \in Claimants : s.msg # Claims'[e].msg
    BY <1>1, <1>2, <2>1 DEF Sole
  <2>5. \A e \in Claimants : Claims'[e] # NoItem => Claims'[e].text = asked'[Claims'[e].msg].text
    BY <1>1, <1>2, <2>2 DEF Sole
  <2>6. \A s \in queue : s.text = asked'[s.msg].text
    BY <1>1, <2>1 DEF Sole
  <2> QED
    BY <1>1, <2>3, <2>4, <2>5, <2>6 DEF Sole
<1>7. ASSUME NEW x \in Messages PROVE Kept(x)'
  <2>1. CASE x = m
    <3>1. ~Held(x)'
      <4>1. \A s \in queue' : s.msg # x
        BY <1>5, <2>1
      <4>2. \A e \in Claimants : Claims'[e].msg # x
        <5>1. NoItem.msg # x
          BY <1>1, ItemNames, QueueAssumption DEF QueueAssumption
        <5> HIDE DEF m
        <5> QED
          BY <1>2, <1>5, <2>1, <5>1
      <4> QED
        BY <4>1, <4>2 DEF Held
    <3>2. said'[m] = said[m] /\ Kept(m)
      BY <1>1
    <3> HIDE DEF m
    <3> QED
      BY <1>3, <2>1, <3>1, <3>2 DEF Kept
  <2>2. CASE x # m
    <3>1. Held(x)' <=> Held(x)
      <4>1. \A e \in Claimants : Claims'[e].msg = x <=> Claims[e].msg = x
        BY <1>2, <2>2, ItemNames, QueueAssumption DEF QueueAssumption
      <4> QED
        BY <4>1 DEF Held
    <3> QED
      BY <1>1, <1>3, <2>2, <3>1 DEF Kept
  <2> QED
    BY <2>1, <2>2
<1> QED
  BY <1>4, <1>6, <1>7 DEF PlacesInv

\* A crash empties every hand; what was in one and not yet said is lost.
LEMMA HandsAreEmptied ==
    ASSUME PlacesInv, queue' = queue, Claims' = [c \in Claimants |-> NoItem], said' = said,
           asked' \in [Messages -> Told],
           \A m \in Messages :
              /\ asked'[m].text = asked[m].text /\ asked'[m].late = asked[m].late
              /\ IF (\E c \in Claimants : Claims[c].msg = m) /\ said[m] = {}
                 THEN asked'[m].state = "lost" ELSE asked'[m].state = asked[m].state
    PROVE  PlacesInv'
<1>1. PlacesTyped /\ Sole /\ \A x \in Messages : Kept(x)
  BY DEF PlacesInv
<1>2. PlacesTyped'
  BY <1>1 DEF PlacesTyped, QueueItems
<1>3. Sole'
  <2>1. \A s \in queue : s.msg # NoItem.msg /\ asked'[s.msg].text = asked[s.msg].text
    BY <1>1, ItemNames DEF PlacesTyped
  <2> QED
    BY <1>1, <2>1 DEF Sole
<1>4. ASSUME NEW x \in Messages PROVE Kept(x)'
  <2>1. Held(x)' <=> \E s \in queue : s.msg = x
    BY ItemNames, QueueAssumption DEF Held, QueueAssumption
  <2>2. CASE (\E c \in Claimants : Claims[c].msg = x) /\ said[x] = {}
    <3>1. ~Held(x)'
      BY <1>1, <2>1, <2>2 DEF Sole
    <3>2. asked'[x].state = "lost"
      BY <2>2
    <3> QED
      BY <1>1, <3>1, <3>2 DEF Kept
  <2>3. CASE ~((\E c \in Claimants : Claims[c].msg = x) /\ said[x] = {})
    <3>1. asked'[x].state = asked[x].state
      BY <2>3
    <3>2. Held(x)' => Held(x)
      BY <2>1 DEF Held
    <3>3. Held(x) => Held(x)' \/ said[x] # {}
      BY <2>1, <2>3 DEF Held
    <3> QED
      BY <1>1, <3>1, <3>2, <3>3 DEF Kept
  <2> QED
    BY <2>2, <2>3
<1> QED
  BY <1>2, <1>3, <1>4 DEF PlacesInv

\* What every lemma about the run and the goroutines needs of the state.
QueueControl ==
    /\ IsFiniteSet(queue)
    /\ turn \in RunViews
    /\ drainer \in [Drainers -> Drains]
    /\ draining \in BOOLEAN
    /\ notices \in Nat
    /\ spent \in Spendings
    /\ Drained

LEMMA ClaimsRead ==
    ASSUME turn \in RunViews, drainer \in [Drainers -> Drains]
    PROVE  /\ Claims \in [Claimants -> QueueItems] /\ Claims[TheRun] = turn.item
           /\ \A d \in Drainers : Claims[d] = drainer[d].item
BY RunIsNoDrainer DEF Claims, Claimants, RunViews, Drains

LEMMA QueueParts == QueueInv <=> PlacesInv /\ QueueControl
<1>1. QueueTypes => Claims \in [Claimants -> QueueItems]
  BY ClaimsRead DEF QueueTypes
<1> QED
  BY <1>1 DEF QueueInv, QueueTypes, PlacesInv, PlacesTyped, QueueControl

LEMMA QueuePartsAfter == PlacesInv' /\ QueueControl' => QueueInv'
BY QueueParts, PTL

\* The hands after a step, as the run and the goroutines have them.
LEMMA HandsStay ==
    ASSUME turn'.item = turn.item, \A d \in Drainers : drainer'[d].item = drainer[d].item
    PROVE  Claims' = Claims
<1>1. \A c \in Claimants : (IF c = TheRun THEN turn'.item ELSE drainer'[c].item)
                           = (IF c = TheRun THEN turn.item ELSE drainer[c].item)
  BY RunIsNoDrainer DEF Claimants
<1> QED
  BY <1>1 DEF Claims

LEMMA RunsHandMoves ==
    ASSUME \A d \in Drainers : drainer'[d].item = drainer[d].item
    PROVE  Claims' = [Claims EXCEPT ![TheRun] = turn'.item]
<1>1. \A d \in Drainers : d # TheRun
  BY RunIsNoDrainer
<1>2. \A c \in Claimants : c # TheRun => c \in Drainers
  BY DEF Claimants
<1> QED
  BY <1>1, <1>2 DEF Claims

LEMMA DrainersHandMoves ==
    ASSUME NEW d \in Drainers, turn'.item = turn.item,
           \A e \in Drainers : e # d => drainer'[e].item = drainer[e].item
    PROVE  Claims' = [Claims EXCEPT ![d] = drainer'[d].item]
<1>1. d # TheRun /\ d \in Claimants
  BY RunIsNoDrainer DEF Claimants
<1>2. \A c \in Claimants : c # TheRun => c \in Drainers
  BY DEF Claimants
<1> QED
  BY <1>1, <1>2 DEF Claims

LEMMA PlacesStay ==
    ASSUME PlacesInv, queue' = queue, said' = said, asked' = asked,
           turn'.item = turn.item, \A d \in Drainers : drainer'[d].item = drainer[d].item
    PROVE  PlacesInv'
<1>1. Claims' = Claims
  BY HandsStay
<1> QED
  BY <1>1 DEF PlacesInv, PlacesTyped, Sole, Kept, Held

LEMMA FaultIsNoted ==
    ASSUME spent \in Spendings, Fault(TRUE)
    PROVE  spent' \in Spendings /\ spent'.missed
<1>1. spent' = [spent EXCEPT !.faults = spent.faults + 1, !.missed = TRUE]
  <2>1. spent' = [spent EXCEPT !.faults = spent.faults + 1, !.missed = spent.missed \/ TRUE]
    BY Zenon DEF Fault
  <2>2. (spent.missed \/ TRUE) = TRUE
    OBVIOUS
  <2> QED
    BY <2>1, <2>2, Zenon
<1>2. spent' \in Spendings
  <2>1. PICK b \in BOOLEAN : b = TRUE
    OBVIOUS
  <2>2. PICK n \in Nat : n = spent.faults + 1
    BY DEF Spendings
  <2>3. spent' = [spent EXCEPT !.faults = n, !.missed = b]
    BY <1>1, <2>1, <2>2, Zenon
  <2> QED
    BY <2>3 DEF Spendings
<1>3. spent'.missed = TRUE
  BY <1>1 DEF Spendings
<1> QED
  BY <1>2, <1>3, Zenon

LEMMA FaultIsBorne ==
    ASSUME spent \in Spendings, Fault(FALSE)
    PROVE  spent' \in Spendings /\ (spent'.missed <=> spent.missed)
<1>1. spent' = [spent EXCEPT !.faults = spent.faults + 1]
  <2>1. spent' = [spent EXCEPT !.faults = spent.faults + 1, !.missed = spent.missed \/ FALSE]
    BY Zenon DEF Fault
  <2>2. (spent.missed \/ FALSE) = spent.missed
    BY Zenon DEF Spendings
  <2>3. spent' = [spent EXCEPT !.faults = spent.faults + 1, !.missed = spent.missed]
    BY <2>1, <2>2, Zenon
  <2> QED
    BY <2>3 DEF Spendings
<1> QED
  BY <1>1 DEF Spendings

\* A step of the run or the user: the goroutines stay where they are.
LEMMA RunMoves ==
    ASSUME QueueControl, turn' \in RunViews, turn'.pc \in {"claimed", "restore"} <=> turn'.item # NoItem,
           drainer' = drainer, draining' = draining, spent' \in Spendings, spent.missed => spent'.missed,
           notices' \in Nat, notices' >= notices, IsFiniteSet(queue'),
           \/ turn'.pc # "none" \/ spent'.missed \/ notices' > 0
           \/ turn.pc = "none" /\ (queue' # {} => queue # {}) /\ (spent'.missed <=> spent.missed)
    PROVE  QueueControl'
<1>1. /\ \A d \in Drainers : drainer[d].pc \in {"send", "restore"} <=> drainer[d].item # NoItem
      /\ \A d, e \in Drainers : Looking(d) /\ Looking(e) => d = e
      /\ \A d \in Drainers : Looking(d) => draining
      /\ draining => \E d \in Drainers : Looking(d)
      /\ \A d \in Drainers : drainer[d].pc = "restore" => spent.missed
      /\ FollowUpAttended /\ notices \in Nat
  BY DEF QueueControl, Drained
<1>2. \A d \in Drainers : drainer'[d].pc = drainer[d].pc
  OBVIOUS
<1>3. FollowUpAttended'
  <2>1. CASE turn'.pc # "none" \/ spent'.missed \/ notices' > 0
    BY <2>1 DEF FollowUpAttended, Busy, Attended
  <2>2. CASE turn.pc = "none" /\ (queue' # {} => queue # {}) /\ (spent'.missed <=> spent.missed)
    <3>1. Attended => Attended'
      BY <1>1 DEF Attended
    <3> QED
      BY <1>1, <2>2, <3>1 DEF FollowUpAttended, Busy
  <2> QED
    BY <2>1, <2>2
<1>4. Drained'
  BY <1>1, <1>3 DEF Drained, Looking
<1> QED
  BY <1>4 DEF QueueControl

\* A step of a goroutine to the place at, with what it has in hand there.
LEMMA DrainerMoves ==
    ASSUME QueueControl, NEW d \in Drainers, drainer' \in [Drainers -> Drains],
           \A e \in Drainers : e # d => drainer'[e] = drainer[e],
           drainer'[d].pc \in {"send", "restore"} <=> drainer'[d].item # NoItem,
           turn' \in RunViews, turn'.pc \in {"claimed", "restore"} <=> turn'.item # NoItem,
           draining' \in BOOLEAN, notices' \in Nat, spent' \in Spendings, IsFiniteSet(queue'),
           Looking(d)' => \A e \in Drainers : e # d => ~Looking(e),
           draining' <=> (Looking(d)' \/ \E e \in Drainers : e # d /\ Looking(e)),
           \A e \in Drainers : e # d /\ drainer[e].pc = "restore" => spent'.missed,
           drainer'[d].pc = "restore" => spent'.missed,
           FollowUpAttended'
    PROVE  QueueControl'
<1>1. /\ \A e \in Drainers : drainer[e].pc \in {"send", "restore"} <=> drainer[e].item # NoItem
      /\ \A e, f \in Drainers : Looking(e) /\ Looking(f) => e = f
  BY DEF QueueControl, Drained
<1>2. \A e \in Drainers : e # d => (Looking(e)' <=> Looking(e))
  BY DEF Looking
<1>3. \A e, f \in Drainers : Looking(e)' /\ Looking(f)' => e = f
  BY <1>1, <1>2
<1>4. (\A e \in Drainers : Looking(e)' => draining') /\ (draining' => \E e \in Drainers : Looking(e)')
  BY <1>2
<1>5. \A e \in Drainers : drainer'[e].pc = "restore" => spent'.missed
  OBVIOUS
<1>6. \A e \in Drainers : drainer'[e].pc \in {"send", "restore"} <=> drainer'[e].item # NoItem
  BY <1>1
<1>7. Drained'
  BY <1>3, <1>4, <1>5, <1>6 DEF Drained
<1> QED
  BY <1>7 DEF QueueControl

LEMMA MissedIsSet ==
    ASSUME spent \in Spendings, NEW b \in BOOLEAN, spent' = [spent EXCEPT !.missed = b]
    PROVE  spent' \in Spendings /\ (spent'.missed <=> b)
BY DEF Spendings

\* A goroutine begins, and with it somebody will look.
LEMMA Scheduled ==
    ASSUME drainer \in [Drainers -> Drains], Schedule
    PROVE  \E d \in Drainers :
              /\ drainer[d].pc = "none" /\ drainer[d].item = NoItem
              /\ drainer' \in [Drainers -> Drains] /\ drainer'[d].pc = "begin" /\ drainer'[d].item = NoItem
              /\ \A e \in Drainers : e # d => drainer'[e] = drainer[e]
<1>1. PICK d \in Drainers : drainer[d] = AtRest /\ drainer' = [drainer EXCEPT ![d].pc = "begin"]
  BY Zenon DEF Schedule
<1>2. drainer[d].pc = "none" /\ drainer[d].item = NoItem
  BY <1>1 DEF AtRest
<1>3. /\ drainer' \in [Drainers -> Drains] /\ drainer'[d].pc = "begin" /\ drainer'[d].item = NoItem
      /\ \A e \in Drainers : e # d => drainer'[e] = drainer[e]
  BY <1>1, <1>2 DEF Drains, DrainPlaces
<1> QED
  BY <1>2, <1>3

LEMMA ScheduleKeeps ==
    ASSUME QueueControl, Schedule, turn' = turn, draining' = draining, notices' \in Nat, spent' = spent,
           IsFiniteSet(queue')
    PROVE  QueueControl' /\ \A d \in Drainers : drainer'[d].item = drainer[d].item
<1>1. drainer \in [Drainers -> Drains] /\ Drained /\ turn \in RunViews /\ spent \in Spendings /\ draining \in BOOLEAN
  BY DEF QueueControl
<1>2. PICK d \in Drainers :
         /\ drainer[d].pc = "none" /\ drainer[d].item = NoItem
         /\ drainer' \in [Drainers -> Drains] /\ drainer'[d].pc = "begin" /\ drainer'[d].item = NoItem
         /\ \A e \in Drainers : e # d => drainer'[e] = drainer[e]
  BY <1>1, Scheduled
<1>3. FollowUpAttended'
  BY <1>2 DEF FollowUpAttended, Attended
<1>4. ~Looking(d) /\ ~Looking(d)'
  BY <1>2 DEF Looking
<1>5. /\ turn.pc \in {"claimed", "restore"} <=> turn.item # NoItem
      /\ \A e \in Drainers : Looking(e) => draining
      /\ draining => \E e \in Drainers : Looking(e)
      /\ \A e \in Drainers : drainer[e].pc = "restore" => spent.missed
  BY <1>1 DEF Drained
<1>6. draining' <=> (Looking(d)' \/ \E e \in Drainers : e # d /\ Looking(e))
  BY <1>4, <1>5
<1>7. QueueControl'
  BY <1>1, <1>2, <1>3, <1>4, <1>5, <1>6, DrainerMoves
<1> QED
  BY <1>2, <1>7

LEMMA EnqueueKeeps ==
    ASSUME QueueInv, NEW m \in Messages, NEW mode \in RunModes \cup {"any"}, EnqueueMessage(m, mode)
    PROVE  QueueInv'
<1>1. PlacesInv /\ QueueControl /\ QueueTypes
  BY QueueParts DEF QueueInv
<1> DEFINE n == [msg |-> m, pos |-> LastPosition + 1, text |-> 0, mode |-> mode]
<1>2. /\ asked[m].state = "new" /\ queue' = queue \cup {n} /\ asked' = [asked EXCEPT ![m].state = "asked"]
      /\ Schedule /\ turn' = turn /\ draining' = draining /\ notices' = notices /\ said' = said /\ spent' = spent
  BY Zenon DEF EnqueueMessage
<1>3. n \in QueueRows /\ n.msg = m /\ n.text = 0
  BY <1>1, LastPositionIsNat DEF QueueRows
<1>4. IsFiniteSet(queue')
  BY <1>1, <1>2, FS_AddElement DEF QueueTypes
<1>5. notices' \in Nat
  BY <1>1, <1>2 DEF QueueTypes
<1>6. QueueControl' /\ \A d \in Drainers : drainer'[d].item = drainer[d].item
  BY <1>1, <1>2, <1>4, <1>5, ScheduleKeeps
<1>7. Claims' = Claims
  BY <1>2, <1>6, HandsStay
<1>8. PlacesInv'
  <2> HIDE DEF n
  <2> QED
    BY <1>1, <1>2, <1>3, <1>7, RowIsParked
<1> QED
  BY <1>6, <1>8, QueuePartsAfter

\* The user's edits move nothing but the row.
LEMMA RowMoves ==
    ASSUME QueueControl, turn' = turn, drainer' = drainer, draining' = draining, notices' = notices, spent' = spent,
           IsFiniteSet(queue'), queue' # {} => queue # {}
    PROVE  QueueControl' /\ Claims' = Claims
<1>1. turn \in RunViews /\ spent \in Spendings /\ notices \in Nat /\ (turn.pc \in {"claimed", "restore"} <=> turn.item # NoItem)
  BY DEF QueueControl, Drained
<1>2. QueueControl'
  <2>1. turn.pc # "none" \/ turn.pc = "none"
    OBVIOUS
  <2> QED
    BY <1>1, <2>1, RunMoves
<1>3. Claims' = Claims
  BY HandsStay
<1> QED
  BY <1>2, <1>3

LEMMA UpdateKeeps == ASSUME QueueInv, NEW m \in Messages, UpdateQueuedMessage(m) PROVE QueueInv'
<1>1. PlacesInv /\ QueueControl /\ QueueTypes /\ Kept(m)
  BY QueueParts DEF QueueInv
<1>2. PICK r \in Row(m) : /\ queue' = (queue \ {r}) \cup {[r EXCEPT !.text = r.text + 1]}
                          /\ asked' = [asked EXCEPT ![m].text = r.text + 1]
  BY Zenon DEF UpdateQueuedMessage
<1>3. turn' = turn /\ drainer' = drainer /\ draining' = draining /\ notices' = notices /\ said' = said /\ spent' = spent
  BY Zenon DEF UpdateQueuedMessage
<1>4. r \in queue /\ r.msg = m /\ r \in QueueRows
  BY <1>1 DEF Row, QueueTypes
<1>5. PICK n \in QueueRows : n = [r EXCEPT !.text = r.text + 1] /\ n.msg = m /\ n.text = r.text + 1
  <2> DEFINE k == [r EXCEPT !.text = r.text + 1]
  <2>1. k \in QueueRows /\ k.msg = r.msg /\ k.text = r.text + 1
    BY <1>4 DEF QueueRows
  <2> HIDE DEF k
  <2>2. \E n \in QueueRows : n = k /\ n.msg = m /\ n.text = r.text + 1
    BY <1>4, <2>1
  <2> QED
    BY <2>2 DEF k
<1>6. asked[m].state # "new"
  <2>1. Held(m)
    BY <1>4 DEF Held
  <2> QED
    BY <1>1, <2>1 DEF Kept
<1>7. IsFiniteSet(queue') /\ queue # {}
  BY <1>1, <1>2, <1>4, FS_AddElement, FS_RemoveElement DEF QueueTypes
<1>8. QueueControl' /\ Claims' = Claims
  BY <1>1, <1>3, <1>7, RowMoves
<1>9. PlacesInv'
  BY <1>1, <1>2, <1>3, <1>4, <1>5, <1>6, <1>8, RowIsEdited
<1> QED
  BY <1>8, <1>9, QueuePartsAfter

LEMMA DeleteKeeps == ASSUME QueueInv, NEW m \in Messages, DeleteQueuedMessage(m) PROVE QueueInv'
<1>1. PlacesInv /\ QueueControl /\ QueueTypes
  BY QueueParts DEF QueueInv
<1>2. PICK r \in Row(m) : queue' = queue \ {r}
  BY Zenon DEF DeleteQueuedMessage
<1>3. /\ turn' = turn /\ drainer' = drainer /\ draining' = draining /\ notices' = notices /\ said' = said /\ spent' = spent
      /\ asked' = [asked EXCEPT ![m].state = "deleted"]
  BY Zenon DEF DeleteQueuedMessage
<1>4. r \in queue /\ r.msg = m
  BY DEF Row
<1>5. IsFiniteSet(queue') /\ (queue' # {} => queue # {})
  BY <1>1, <1>2, FS_RemoveElement DEF QueueTypes
<1>6. QueueControl' /\ Claims' = Claims
  BY <1>1, <1>3, <1>5, RowMoves
<1>7. PlacesInv'
  BY <1>1, <1>2, <1>3, <1>4, <1>6, RowIsDeleted
<1> QED
  BY <1>6, <1>7, QueuePartsAfter

\* A run that is started or superseded has no more and no less in hand.
LEMMA SubmittedStarts ==
    ASSUME turn \in RunViews, turn.pc \in {"claimed", "restore"} <=> turn.item # NoItem,
           NEW mode \in RunModes \cup {"any"}, Submitted(mode)
    PROVE  /\ turn' \in RunViews /\ turn'.item = turn.item /\ turn'.pc # "none"
           /\ turn'.pc \in {"claimed", "restore"} <=> turn'.item # NoItem
<1>1. CASE turn.pc \in {"none", "parked"}
  <2>1. turn' = [pc |-> "model", item |-> NoItem, mode |-> mode, shut |-> "no", canceled |-> FALSE, next |-> FALSE]
    BY <1>1 DEF Submitted, NoTurn
  <2>2. turn.item = NoItem
    BY <1>1
  <2> QED
    BY <2>1, <2>2 DEF RunViews, QueueItems
<1>2. CASE turn.pc \notin {"none", "parked"}
  <2>1. turn' = [turn EXCEPT !.canceled = TRUE, !.next = TRUE]
    BY <1>2 DEF Submitted
  <2> QED
    BY <1>2, <2>1 DEF RunViews
<1> QED
  BY <1>1, <1>2

\* A step of the run that takes nothing in hand and lets nothing go.
LEMMA RunSteps ==
    ASSUME QueueInv, turn' \in RunViews, turn'.item = turn.item,
           turn'.pc \in {"claimed", "restore"} <=> turn'.item # NoItem,
           queue' = queue, drainer' = drainer, draining' = draining, said' = said, asked' = asked,
           spent' \in Spendings, spent.missed => spent'.missed, notices' \in Nat, notices' >= notices,
           turn'.pc # "none" \/ spent'.missed \/ notices' > 0
    PROVE  QueueInv'
<1>1. PlacesInv /\ QueueControl /\ IsFiniteSet(queue')
  BY QueueParts DEF QueueInv, QueueTypes
<1>2. QueueControl'
  BY <1>1, RunMoves
<1>3. PlacesInv'
  BY <1>1, PlacesStay
<1> QED
  BY <1>2, <1>3, QueuePartsAfter

LEMMA SubmitKeeps == ASSUME QueueInv, SubmitDirect PROVE QueueInv'
<1>1. /\ queue' = queue /\ drainer' = drainer /\ draining' = draining /\ notices' = notices /\ said' = said /\ asked' = asked
      /\ spent' = [spent EXCEPT !.submits = spent.submits + 1]
  BY Zenon DEF SubmitDirect
<1>2. PICK mode \in RunModes \cup {"any"} : Submitted(mode)
  BY Zenon DEF SubmitDirect
<1>3. /\ turn \in RunViews /\ (turn.pc \in {"claimed", "restore"} <=> turn.item # NoItem) /\ spent \in Spendings
      /\ notices \in Nat
  BY DEF QueueInv, QueueTypes, Drained
<1>4. spent' \in Spendings /\ (spent.missed => spent'.missed)
  BY <1>1, <1>3 DEF Spendings
<1>5. /\ turn' \in RunViews /\ turn'.item = turn.item /\ turn'.pc # "none"
      /\ turn'.pc \in {"claimed", "restore"} <=> turn'.item # NoItem
  BY <1>2, <1>3, SubmittedStarts
<1>6. notices' \in Nat /\ notices' >= notices
  BY <1>1, <1>3
<1> QED
  BY <1>1, <1>4, <1>5, <1>6, RunSteps

LEMMA InterruptKeeps == ASSUME QueueInv, Interrupt PROVE QueueInv'
<1>1. /\ queue' = queue /\ drainer' = drainer /\ draining' = draining /\ notices' = notices /\ said' = said /\ asked' = asked
      /\ turn.pc # "none"
      /\ spent' = [spent EXCEPT !.stops = spent.stops + 1, !.missed = spent.missed \/ turn.pc = "parked"]
      /\ turn' = IF turn.pc = "parked" THEN NoTurn ELSE [turn EXCEPT !.canceled = TRUE, !.next = FALSE]
  BY Zenon DEF Interrupt, Busy
<1>2. /\ turn \in RunViews /\ (turn.pc \in {"claimed", "restore"} <=> turn.item # NoItem) /\ spent \in Spendings
      /\ notices \in Nat
  BY DEF QueueInv, QueueTypes, Drained
<1>3. spent' \in Spendings /\ (spent'.missed <=> spent.missed \/ turn.pc = "parked")
  <2>1. PICK b \in BOOLEAN : b = (spent.missed \/ turn.pc = "parked")
    OBVIOUS
  <2>2. PICK n \in Nat : n = spent.stops + 1
    BY <1>2 DEF Spendings
  <2>3. spent' = [spent EXCEPT !.stops = n, !.missed = b]
    BY <1>1, <2>1, <2>2, Zenon
  <2>4. spent' \in Spendings /\ (spent'.missed <=> b)
    BY <1>2, <2>3 DEF Spendings
  <2> QED
    BY <2>1, <2>4, Zenon
<1>4. notices' \in Nat /\ notices' >= notices
  BY <1>1, <1>2
<1>5. CASE turn.pc = "parked"
  <2>1. turn' = [pc |-> "none", item |-> NoItem, mode |-> "any", shut |-> "no", canceled |-> FALSE, next |-> FALSE]
    BY <1>1, <1>5 DEF NoTurn
  <2>2. turn' \in RunViews /\ turn'.item = turn.item /\ (turn'.pc \in {"claimed", "restore"} <=> turn'.item # NoItem)
    BY <1>2, <1>5, <2>1 DEF RunViews, QueueItems
  <2>3. spent'.missed /\ (spent.missed => spent'.missed)
    BY <1>3, <1>5
  <2> QED
    BY <1>1, <1>3, <1>4, <2>2, <2>3, RunSteps
<1>6. CASE turn.pc # "parked"
  <2>1. turn' = [turn EXCEPT !.canceled = TRUE, !.next = FALSE]
    BY <1>1, <1>6
  <2>2. /\ turn' \in RunViews /\ turn'.item = turn.item /\ turn'.pc # "none"
        /\ (turn'.pc \in {"claimed", "restore"} <=> turn'.item # NoItem)
    BY <1>1, <1>2, <2>1 DEF RunViews
  <2>3. spent.missed => spent'.missed
    BY <1>3
  <2> QED
    BY <1>1, <1>3, <1>4, <2>2, <2>3, RunSteps
<1> QED
  BY <1>5, <1>6

\* The tool batch settles, the run parks, wakes, shuts itself to steering, or
\* does not steer, or gives up the follow-up it has claimed.
LEMMA TurnsKeep ==
    ASSUME QueueInv, Settled \/ Park \/ Wake \/ Shut \/ SteerSkip \/ SteerFails
    PROVE  QueueInv'
<1>1. /\ turn \in RunViews /\ (turn.pc \in {"claimed", "restore"} <=> turn.item # NoItem) /\ spent \in Spendings
      /\ notices \in Nat
  BY DEF QueueInv, QueueTypes, Drained
<1>2. queue' = queue /\ drainer' = drainer /\ draining' = draining /\ notices' = notices /\ said' = said /\ asked' = asked
  BY Zenon DEF Settled, Park, Wake, Shut, SteerSkip, SteerFails
<1>3. spent' = spent \/ Fault(FALSE)
  BY Zenon DEF Settled, Park, Wake, Shut, SteerSkip, SteerFails
<1>4. spent' \in Spendings /\ (spent.missed => spent'.missed)
  BY <1>1, <1>3, FaultIsBorne
<1>5. \/ turn.pc \in {"model", "parked", "steer"} /\ \E at \in {"steer", "parked", "model"} : turn' = [turn EXCEPT !.pc = at]
      \/ turn.pc \in {"model", "steer", "parked"} /\ \E s \in {"no", "gate", "stale"} : turn' = [turn EXCEPT !.shut = s]
      \/ turn.pc = "claimed" /\ turn' = [turn EXCEPT !.pc = "restore"]
  <2>1. CASE Settled
    BY <2>1 DEF Settled
  <2>2. CASE Park
    BY <2>2 DEF Park
  <2>3. CASE Wake
    BY <2>3 DEF Wake
  <2>4. CASE Shut
    <3>1. turn.shut \in {"no", "gate", "stale"}
      BY <1>1 DEF RunViews
    <3>2. PICK s \in CASE turn.shut = "no" -> {"gate", "stale"}
                       [] turn.shut = "gate" -> {"no", "stale"}
                       [] turn.shut = "stale" -> {} : turn' = [turn EXCEPT !.shut = s]
      BY <2>4, Zenon DEF Shut
    <3>3. s \in {"no", "gate", "stale"}
      BY <3>1, <3>2
    <3>4. turn.pc \in {"model", "steer", "parked"}
      BY <2>4, Zenon DEF Shut
    <3> QED
      BY <3>2, <3>3, <3>4
  <2>5. CASE SteerSkip
    BY <2>5 DEF SteerSkip
  <2>6. CASE SteerFails
    BY <2>6 DEF SteerFails
  <2> QED
    BY <2>1, <2>2, <2>3, <2>4, <2>5, <2>6
<1>6. /\ turn' \in RunViews /\ turn'.item = turn.item /\ turn'.pc # "none"
      /\ (turn'.pc \in {"claimed", "restore"} <=> turn'.item # NoItem)
  <2>1. ASSUME turn.pc \in {"model", "parked", "steer"}, NEW at \in {"steer", "parked", "model"}, turn' = [turn EXCEPT !.pc = at]
        PROVE  /\ turn' \in RunViews /\ turn'.item = turn.item /\ turn'.pc # "none"
               /\ (turn'.pc \in {"claimed", "restore"} <=> turn'.item # NoItem)
    BY <1>1, <2>1 DEF RunViews
  <2>2. ASSUME turn.pc \in {"model", "steer", "parked"}, NEW s \in {"no", "gate", "stale"}, turn' = [turn EXCEPT !.shut = s]
        PROVE  /\ turn' \in RunViews /\ turn'.item = turn.item /\ turn'.pc # "none"
               /\ (turn'.pc \in {"claimed", "restore"} <=> turn'.item # NoItem)
    BY <1>1, <2>2 DEF RunViews
  <2>3. ASSUME turn.pc = "claimed", turn' = [turn EXCEPT !.pc = "restore"]
        PROVE  /\ turn' \in RunViews /\ turn'.item = turn.item /\ turn'.pc # "none"
               /\ (turn'.pc \in {"claimed", "restore"} <=> turn'.item # NoItem)
    BY <1>1, <2>3 DEF RunViews
  <2> QED
    BY <1>5, <2>1, <2>2, <2>3, Zenon
<1>7. notices' \in Nat /\ notices' >= notices
  BY <1>1, <1>2
<1> QED
  BY <1>2, <1>4, <1>6, <1>7, RunSteps

LEMMA RunEndsKeeps == ASSUME QueueInv, RunEnds PROVE QueueInv'
<1>1. /\ turn \in RunViews /\ (turn.pc \in {"claimed", "restore"} <=> turn.item # NoItem) /\ spent \in Spendings
      /\ notices \in Nat
  BY DEF QueueInv, QueueTypes, Drained
<1>2. /\ queue' = queue /\ drainer' = drainer /\ draining' = draining /\ said' = said /\ asked' = asked /\ spent' = spent
      /\ notices' = notices + 1 /\ turn.pc = "model"
  BY Zenon DEF RunEnds
<1>3. PICK mode \in (IF turn.next THEN RunModes \cup {"any"} ELSE {"any"}) :
         turn' = IF turn.next THEN [NoTurn EXCEPT !.pc = "model", !.mode = mode] ELSE NoTurn
  BY Zenon DEF RunEnds
<1>4. mode \in RunModes \cup {"any"}
  BY <1>3
<1>5. \E at \in {"none", "model"} : turn' = [pc |-> at, item |-> NoItem, mode |-> mode, shut |-> "no", canceled |-> FALSE, next |-> FALSE]
  BY <1>3 DEF NoTurn
<1>6. turn.item = NoItem
  BY <1>1, <1>2
<1>7. turn' \in RunViews /\ turn'.item = turn.item /\ (turn'.pc \in {"claimed", "restore"} <=> turn'.item # NoItem)
  BY <1>4, <1>5, <1>6 DEF RunViews, QueueItems
<1>8. notices' \in Nat /\ notices' >= notices /\ notices' > 0
  BY <1>1, <1>2
<1>9. spent' \in Spendings /\ (spent.missed => spent'.missed)
  BY <1>1, <1>2
<1> QED
  BY <1>2, <1>7, <1>8, <1>9, RunSteps

LEMMA NotifyKeeps == ASSUME QueueInv, Notify PROVE QueueInv'
<1>1. /\ queue' = queue /\ turn' = turn /\ draining' = draining /\ said' = said /\ asked' = asked /\ spent' = spent
      /\ notices' = notices - 1 /\ notices > 0 /\ Schedule
  BY Zenon DEF Notify
<1>2. PlacesInv /\ QueueControl /\ IsFiniteSet(queue') /\ notices \in Nat
  BY <1>1, QueueParts DEF QueueInv, QueueTypes
<1>3. notices' \in Nat
  BY <1>1, <1>2
<1>4. QueueControl' /\ \A d \in Drainers : drainer'[d].item = drainer[d].item
  BY <1>1, <1>2, <1>3, ScheduleKeeps
<1>5. PlacesInv'
  BY <1>1, <1>2, <1>4, PlacesStay
<1> QED
  BY <1>4, <1>5, QueuePartsAfter

\* A step of the run with the follow-up it has in hand.
LEMMA RunsHand ==
    ASSUME QueueInv, turn' \in RunViews, turn.pc # "none", turn'.pc # "none", PlacesInv',
           turn'.pc \in {"claimed", "restore"} <=> turn'.item # NoItem,
           drainer' = drainer, draining' = draining, notices' = notices,
           spent' \in Spendings, spent.missed => spent'.missed, IsFiniteSet(queue')
    PROVE  QueueInv'
<1>1. QueueControl /\ notices \in Nat
  BY QueueParts DEF QueueInv, QueueTypes
<1>2. notices' \in Nat /\ notices' >= notices
  BY <1>1
<1>3. QueueControl'
  BY <1>1, <1>2, RunMoves
<1> QED
  BY <1>3, QueuePartsAfter

LEMMA SteerClaimKeeps == ASSUME QueueInv, SteerClaim PROVE QueueInv'
<1>1. /\ turn \in RunViews /\ (turn.pc \in {"claimed", "restore"} <=> turn.item # NoItem) /\ spent \in Spendings
      /\ PlacesInv /\ queue \in SUBSET QueueRows /\ IsFiniteSet(queue) /\ drainer \in [Drainers -> Drains]
  BY QueueParts DEF QueueInv, QueueTypes, Drained
<1>2. /\ drainer' = drainer /\ draining' = draining /\ notices' = notices /\ said' = said /\ asked' = asked /\ spent' = spent
      /\ turn.pc = "steer"
  BY Zenon DEF SteerClaim
<1>3. PICK r \in queue : queue' = queue \ {r} /\ turn' = [turn EXCEPT !.pc = "claimed", !.item = r]
  BY Zenon DEF SteerClaim, ClaimNext
<1>4. turn' \in RunViews /\ turn'.pc = "claimed" /\ turn'.item = r /\ r # NoItem
  BY <1>1, <1>3, ItemNames DEF RunViews, QueueItems
<1>5. TheRun \in Claimants /\ Claims[TheRun] = NoItem
  BY <1>1, <1>2, ClaimsRead DEF Claimants
<1>6. Claims' = [Claims EXCEPT ![TheRun] = r]
  BY <1>2, <1>4, RunsHandMoves
<1>7. PlacesInv'
  BY <1>1, <1>2, <1>3, <1>5, <1>6, RowIsClaimed
<1>8. IsFiniteSet(queue')
  BY <1>1, <1>3, FS_RemoveElement
<1> QED
  BY <1>1, <1>2, <1>4, <1>7, <1>8, RunsHand

\* The saying that is added to the conversation.
LEMMA SayAdds ==
    ASSUME PlacesInv, NEW r \in QueueRows, Say(r)
    PROVE  \E p \in Nat \X Nat : said' = [said EXCEPT ![r.msg] = said[r.msg] \cup {p}]
<1>1. said' = [said EXCEPT ![r.msg] = said[r.msg] \cup {<<Cardinality(said[r.msg]) + 1, r.text>>}]
  BY Zenon DEF Say
<1>2. Cardinality(said[r.msg]) \in Nat /\ r.text \in Nat
  BY ItemNames, KeptCounts
<1>3. <<Cardinality(said[r.msg]) + 1, r.text>> \in Nat \X Nat
  BY <1>2
<1> QED
  BY <1>1, <1>3, Zenon

LEMMA SteerInsertKeeps == ASSUME QueueInv, SteerInsert PROVE QueueInv'
<1>1. /\ turn \in RunViews /\ (turn.pc \in {"claimed", "restore"} <=> turn.item # NoItem) /\ spent \in Spendings
      /\ PlacesInv /\ IsFiniteSet(queue) /\ drainer \in [Drainers -> Drains]
  BY QueueParts DEF QueueInv, QueueTypes, Drained
<1>2. /\ queue' = queue /\ drainer' = drainer /\ draining' = draining /\ notices' = notices /\ asked' = asked /\ spent' = spent
      /\ turn.pc = "claimed" /\ turn' = [turn EXCEPT !.pc = "model", !.item = NoItem] /\ Say(turn.item)
  BY Zenon DEF SteerInsert
<1>3. turn' \in RunViews /\ turn'.pc = "model" /\ turn'.item = NoItem
  BY <1>1, <1>2 DEF RunViews, QueueItems
<1>4. TheRun \in Claimants /\ Claims[TheRun] = turn.item /\ turn.item \in QueueRows /\ turn.item # NoItem
  BY <1>1, <1>2, ClaimsRead, ItemNames DEF Claimants, RunViews
<1>5. Claims' = [Claims EXCEPT ![TheRun] = NoItem]
  BY <1>2, <1>3, RunsHandMoves
<1>6. PICK p \in Nat \X Nat : said' = [said EXCEPT ![turn.item.msg] = said[turn.item.msg] \cup {p}]
  <2> DEFINE r == turn.item
  <2>1. r \in QueueRows /\ Say(r)
    BY <1>2, <1>4
  <2> HIDE DEF r
  <2>2. \E p \in Nat \X Nat : said' = [said EXCEPT ![r.msg] = said[r.msg] \cup {p}]
    BY <1>1, <2>1, SayAdds
  <2> QED
    BY <2>2 DEF r
<1>7. PlacesInv'
  <2>1. Claims[TheRun] # NoItem /\ said' = [said EXCEPT ![Claims[TheRun].msg] = said[Claims[TheRun].msg] \cup {p}]
    BY <1>4, <1>6
  <2> QED
    BY <1>1, <1>2, <1>4, <1>5, <2>1, ItemIsSaid
<1> QED
  BY <1>1, <1>2, <1>3, <1>7, RunsHand

LEMMA SteerRestoreKeeps == ASSUME QueueInv, SteerRestore PROVE QueueInv'
<1>1. /\ turn \in RunViews /\ (turn.pc \in {"claimed", "restore"} <=> turn.item # NoItem) /\ spent \in Spendings
      /\ PlacesInv /\ IsFiniteSet(queue) /\ drainer \in [Drainers -> Drains]
  BY QueueParts DEF QueueInv, QueueTypes, Drained
<1>2. /\ drainer' = drainer /\ draining' = draining /\ notices' = notices /\ said' = said
      /\ turn.pc \in {"claimed", "restore"} /\ turn' = [turn EXCEPT !.pc = "model", !.item = NoItem]
  <2>1. /\ drainer' = drainer /\ draining' = draining /\ notices' = notices /\ said' = said
        /\ (turn.pc = "restore" \/ turn.pc = "claimed") /\ turn' = [turn EXCEPT !.pc = "model", !.item = NoItem]
    BY Zenon DEF SteerRestore
  <2> QED
    BY <2>1
<1>3. turn' \in RunViews /\ turn'.pc = "model" /\ turn'.item = NoItem
  BY <1>1, <1>2 DEF RunViews, QueueItems
<1>4. TheRun \in Claimants /\ Claims[TheRun] = turn.item /\ turn.item \in QueueRows /\ turn.item # NoItem
  BY <1>1, <1>2, ClaimsRead, ItemNames DEF Claimants, RunViews
<1>5. Claims' = [Claims EXCEPT ![TheRun] = NoItem]
  BY <1>2, <1>3, RunsHandMoves
<1>6. CASE queue' = queue \cup {turn.item} /\ asked' = asked /\ spent' = spent
  <2>1. Claims[TheRun] # NoItem /\ queue' = queue \cup {Claims[TheRun]}
    BY <1>4, <1>6
  <2>2. PlacesInv'
    BY <1>1, <1>2, <1>4, <1>5, <1>6, <2>1, RowIsRestored
  <2>3. IsFiniteSet(queue')
    BY <1>1, <1>6, FS_AddElement
  <2> QED
    BY <1>1, <1>2, <1>3, <1>6, <2>2, <2>3, RunsHand
<1>7. CASE queue' = queue /\ asked' = [asked EXCEPT ![turn.item.msg].state = "lost"] /\ (spent' = spent \/ Fault(FALSE))
  <2>1. Claims[TheRun] # NoItem /\ asked' = [asked EXCEPT ![Claims[TheRun].msg].state = "lost"]
    BY <1>4, <1>7
  <2>2. PlacesInv'
    BY <1>1, <1>2, <1>4, <1>5, <1>7, <2>1, ItemIsLost
  <2>3. spent' \in Spendings /\ (spent.missed => spent'.missed)
    BY <1>1, <1>7, FaultIsBorne
  <2> QED
    BY <1>1, <1>2, <1>3, <1>7, <2>2, <2>3, RunsHand
<1> QED
  BY <1>6, <1>7, Zenon DEF SteerRestore, RestoreRow, Lose

\* The one goroutine that looks goes on to its next place.
LEMMA LookerMoves ==
    ASSUME QueueControl, NEW d \in Drainers, Looking(d), Looking(d)', drainer' \in [Drainers -> Drains],
           \A e \in Drainers : e # d => drainer'[e] = drainer[e],
           drainer'[d].pc \in {"send", "restore"} <=> drainer'[d].item # NoItem,
           turn' \in RunViews, turn'.pc \in {"claimed", "restore"} <=> turn'.item # NoItem,
           draining' = draining, notices' = notices, spent' \in Spendings, IsFiniteSet(queue'),
           drainer'[d].pc = "restore" => spent'.missed,
           \/ drainer'[d].pc \in {"look", "claim", "send", "restore"}
           \/ spent'.missed \/ queue' = {} \/ turn'.pc # "none"
    PROVE  QueueControl'
<1>1. Drained /\ draining \in BOOLEAN /\ notices \in Nat
  BY DEF QueueControl
<1>2. draining /\ \A e \in Drainers : e # d => ~Looking(e)
  BY <1>1 DEF Drained
<1>3. \A e \in Drainers : e # d => drainer[e].pc # "restore"
  BY <1>2 DEF Looking
<1>4. FollowUpAttended'
  BY DEF FollowUpAttended, Attended, Busy
<1>5. draining' <=> (Looking(d)' \/ \E e \in Drainers : e # d /\ Looking(e))
  BY <1>2
<1>6. draining' \in BOOLEAN /\ notices' \in Nat
  BY <1>1
<1>7. \A e \in Drainers : e # d /\ drainer[e].pc = "restore" => spent'.missed
  BY <1>3
<1> QED
  BY <1>2, <1>4, <1>5, <1>6, <1>7, DrainerMoves

LEMMA DrainFacts ==
    ASSUME QueueInv
    PROVE  /\ QueueControl /\ PlacesInv /\ turn \in RunViews /\ (turn.pc \in {"claimed", "restore"} <=> turn.item # NoItem)
           /\ drainer \in [Drainers -> Drains] /\ spent \in Spendings /\ IsFiniteSet(queue) /\ queue \in SUBSET QueueRows
           /\ draining \in BOOLEAN /\ notices \in Nat
           /\ \A d \in Drainers : drainer[d].pc \in {"send", "restore"} <=> drainer[d].item # NoItem
           /\ \A d \in Drainers : drainer[d].pc = "restore" => spent.missed
BY QueueParts DEF QueueInv, QueueTypes, Drained

\* A goroutine that changes its place and nothing else of itself.
LEMMA PlaceIsSet ==
    ASSUME drainer \in [Drainers -> Drains], NEW d \in Drainers, NEW at \in DrainPlaces,
           drainer' = [drainer EXCEPT ![d].pc = at]
    PROVE  /\ drainer' \in [Drainers -> Drains] /\ drainer'[d].pc = at /\ drainer'[d].item = drainer[d].item
           /\ \A e \in Drainers : e # d => drainer'[e] = drainer[e]
           /\ \A e \in Drainers : drainer'[e].item = drainer[e].item
<1>1. drainer[d] \in Drains
  OBVIOUS
<1> DEFINE r == [drainer[d] EXCEPT !.pc = at]
<1>2. r \in Drains /\ r.pc = at /\ r.item = drainer[d].item /\ drainer' = [drainer EXCEPT ![d] = r]
  BY <1>1 DEF Drains
<1> HIDE DEF r
<1> QED
  BY <1>2

LEMMA BeginKeeps == ASSUME QueueInv, NEW d \in Drainers, Begin(d) PROVE QueueInv'
<1>1. /\ queue' = queue /\ turn' = turn /\ notices' = notices /\ said' = said /\ asked' = asked /\ spent' = spent
      /\ ~draining /\ drainer[d].pc = "begin" /\ drainer' = [drainer EXCEPT ![d].pc = "look"]
  BY Zenon DEF Begin, Step
<1>2. draining' = TRUE
  BY Zenon DEF Begin
<1>3. /\ QueueControl /\ PlacesInv /\ turn \in RunViews /\ (turn.pc \in {"claimed", "restore"} <=> turn.item # NoItem)
      /\ drainer \in [Drainers -> Drains] /\ spent \in Spendings /\ IsFiniteSet(queue) /\ notices \in Nat
      /\ \A e \in Drainers : drainer[e].pc \in {"send", "restore"} <=> drainer[e].item # NoItem
  BY DrainFacts
<1>4. /\ drainer' \in [Drainers -> Drains] /\ drainer'[d].pc = "look" /\ drainer'[d].item = drainer[d].item
      /\ \A e \in Drainers : e # d => drainer'[e] = drainer[e]
      /\ \A e \in Drainers : drainer'[e].item = drainer[e].item
  <2>1. "look" \in DrainPlaces
    BY DEF DrainPlaces
  <2> QED
    BY <1>1, <1>3, <2>1, PlaceIsSet
<1>5. \A e \in Drainers : ~Looking(e)
  BY <1>1, <1>3 DEF QueueControl, Drained
<1>6. \A e \in Drainers : drainer[e].pc # "restore"
  BY <1>5 DEF Looking
<1>7. FollowUpAttended' /\ Looking(d)'
  BY <1>4 DEF FollowUpAttended, Attended, Looking
<1>8. drainer'[d].pc \in {"send", "restore"} <=> drainer'[d].item # NoItem
  BY <1>1, <1>3, <1>4
<1>9. draining' \in BOOLEAN /\ (draining' <=> (Looking(d)' \/ \E e \in Drainers : e # d /\ Looking(e)))
  BY <1>2, <1>7, Zenon
<1>10. QueueControl'
  BY <1>1, <1>3, <1>4, <1>5, <1>6, <1>7, <1>8, <1>9, DrainerMoves
<1>11. PlacesInv'
  BY <1>1, <1>3, <1>4, PlacesStay
<1> QED
  BY <1>10, <1>11, QueuePartsAfter

LEMMA RefuseKeeps == ASSUME QueueInv, NEW d \in Drainers, Refuse(d) PROVE QueueInv'
<1>1. /\ queue' = queue /\ turn' = turn /\ notices' = notices /\ said' = said /\ asked' = asked /\ draining' = draining
      /\ draining /\ drainer[d].pc = "begin" /\ drainer' = [drainer EXCEPT ![d].pc = "none"]
      /\ spent' = [spent EXCEPT !.missed = spent.missed \/ \E e \in Drainers : drainer[e].pc = "end"]
  BY Zenon DEF Refuse, Step
<1>2. /\ QueueControl /\ PlacesInv /\ turn \in RunViews /\ (turn.pc \in {"claimed", "restore"} <=> turn.item # NoItem)
      /\ drainer \in [Drainers -> Drains] /\ spent \in Spendings /\ IsFiniteSet(queue) /\ notices \in Nat
      /\ \A e \in Drainers : drainer[e].pc \in {"send", "restore"} <=> drainer[e].item # NoItem
      /\ \A e \in Drainers : drainer[e].pc = "restore" => spent.missed
      /\ draining \in BOOLEAN
  BY DrainFacts
<1>3. /\ drainer' \in [Drainers -> Drains] /\ drainer'[d].pc = "none" /\ drainer'[d].item = drainer[d].item
      /\ \A e \in Drainers : e # d => drainer'[e] = drainer[e]
      /\ \A e \in Drainers : drainer'[e].item = drainer[e].item
  <2>1. "none" \in DrainPlaces
    BY DEF DrainPlaces
  <2> QED
    BY <1>1, <1>2, <2>1, PlaceIsSet
<1>4. spent' \in Spendings /\ (spent.missed => spent'.missed) /\ ((\E e \in Drainers : drainer[e].pc = "end") => spent'.missed)
  <2>1. PICK b \in BOOLEAN : b = (spent.missed \/ \E e \in Drainers : drainer[e].pc = "end")
    OBVIOUS
  <2>2. spent' = [spent EXCEPT !.missed = b]
    BY <1>1, <2>1, Zenon
  <2>3. spent' \in Spendings /\ (spent'.missed <=> b)
    BY <1>2, <2>2, MissedIsSet
  <2> QED
    BY <2>1, <2>3, Zenon
<1>5. PICK e \in Drainers : Looking(e)
  BY <1>1, <1>2 DEF QueueControl, Drained
<1>6. e # d /\ ~Looking(d) /\ ~Looking(d)'
  BY <1>1, <1>3, <1>5 DEF Looking
<1>7. FollowUpAttended'
  <2>1. CASE drainer[e].pc = "end"
    BY <1>4, <2>1 DEF FollowUpAttended
  <2>2. CASE drainer[e].pc # "end"
    <3>1. drainer'[e].pc \in {"look", "claim", "send", "restore"}
      BY <1>3, <1>5, <1>6, <2>2 DEF Looking
    <3> QED
      BY <3>1 DEF FollowUpAttended, Attended
  <2> QED
    BY <2>1, <2>2
<1>8. drainer'[d].pc \in {"send", "restore"} <=> drainer'[d].item # NoItem
  BY <1>1, <1>2, <1>3
<1>9. draining' <=> (Looking(d)' \/ \E f \in Drainers : f # d /\ Looking(f))
  BY <1>1, <1>5, <1>6
<1>10. QueueControl'
  BY <1>1, <1>2, <1>3, <1>4, <1>6, <1>7, <1>8, <1>9, DrainerMoves
<1>11. PlacesInv'
  BY <1>1, <1>2, <1>3, PlacesStay
<1> QED
  BY <1>10, <1>11, QueuePartsAfter

LEMMA EndKeeps == ASSUME QueueInv, NEW d \in Drainers, End(d) PROVE QueueInv'
<1>1. /\ queue' = queue /\ turn' = turn /\ notices' = notices /\ said' = said /\ asked' = asked /\ spent' = spent
      /\ drainer[d].pc = "end" /\ drainer' = [drainer EXCEPT ![d].pc = "none"]
  BY Zenon DEF End, Step
<1>2. draining' = FALSE
  BY Zenon DEF End
<1>3. /\ QueueControl /\ PlacesInv /\ turn \in RunViews /\ (turn.pc \in {"claimed", "restore"} <=> turn.item # NoItem)
      /\ drainer \in [Drainers -> Drains] /\ spent \in Spendings /\ IsFiniteSet(queue) /\ notices \in Nat
      /\ \A e \in Drainers : drainer[e].pc \in {"send", "restore"} <=> drainer[e].item # NoItem
      /\ \A e \in Drainers : drainer[e].pc = "restore" => spent.missed
  BY DrainFacts
<1>4. /\ drainer' \in [Drainers -> Drains] /\ drainer'[d].pc = "none" /\ drainer'[d].item = drainer[d].item
      /\ \A e \in Drainers : e # d => drainer'[e] = drainer[e]
      /\ \A e \in Drainers : drainer'[e].item = drainer[e].item
  <2>1. "none" \in DrainPlaces
    BY DEF DrainPlaces
  <2> QED
    BY <1>1, <1>3, <2>1, PlaceIsSet
<1>5. Looking(d) /\ ~Looking(d)'
  BY <1>1, <1>4 DEF Looking
<1>6. \A e \in Drainers : e # d => ~Looking(e)
  BY <1>3, <1>5 DEF QueueControl, Drained
<1>7. FollowUpAttended'
  <2>1. Attended => Attended'
    BY <1>1, <1>4 DEF Attended
  <2> QED
    BY <1>1, <1>3, <2>1 DEF FollowUpAttended, Busy, QueueControl, Drained
<1>8. drainer'[d].pc \in {"send", "restore"} <=> drainer'[d].item # NoItem
  BY <1>1, <1>3, <1>4
<1>9. draining' \in BOOLEAN /\ (draining' <=> (Looking(d)' \/ \E e \in Drainers : e # d /\ Looking(e)))
  BY <1>2, <1>5, <1>6, Zenon
<1>10. QueueControl'
  BY <1>1, <1>3, <1>4, <1>5, <1>6, <1>7, <1>8, <1>9, DrainerMoves
<1>11. PlacesInv'
  BY <1>1, <1>3, <1>4, PlacesStay
<1> QED
  BY <1>10, <1>11, QueuePartsAfter

LEMMA LookKeeps == ASSUME QueueInv, NEW d \in Drainers, Look(d) PROVE QueueInv'
<1>1. /\ queue' = queue /\ turn' = turn /\ notices' = notices /\ said' = said /\ asked' = asked /\ draining' = draining
      /\ drainer[d].pc = "look" /\ drainer' = [drainer EXCEPT ![d].pc = IF Busy THEN "end" ELSE "claim"]
      /\ spent' = [spent EXCEPT !.missed = FALSE]
  BY Zenon DEF Look, Step
<1>2. /\ QueueControl /\ PlacesInv /\ turn \in RunViews /\ (turn.pc \in {"claimed", "restore"} <=> turn.item # NoItem)
      /\ drainer \in [Drainers -> Drains] /\ spent \in Spendings /\ IsFiniteSet(queue) /\ notices \in Nat
      /\ \A e \in Drainers : drainer[e].pc \in {"send", "restore"} <=> drainer[e].item # NoItem
  BY DrainFacts
<1>3. PICK at \in {"end", "claim"} : at = (IF Busy THEN "end" ELSE "claim")
  OBVIOUS
<1>4. /\ drainer' \in [Drainers -> Drains] /\ drainer'[d].pc = at /\ drainer'[d].item = drainer[d].item
      /\ \A e \in Drainers : e # d => drainer'[e] = drainer[e]
      /\ \A e \in Drainers : drainer'[e].item = drainer[e].item
  <2>1. at \in DrainPlaces
    BY DEF DrainPlaces
  <2>2. drainer' = [drainer EXCEPT ![d].pc = at]
    BY <1>1, <1>3, Zenon
  <2> QED
    BY <1>2, <2>1, <2>2, PlaceIsSet
<1>5. spent' \in Spendings
  <2>1. PICK b \in BOOLEAN : b = FALSE
    OBVIOUS
  <2>2. spent' = [spent EXCEPT !.missed = b]
    BY <1>1, <2>1, Zenon
  <2> QED
    BY <1>2, <2>2, MissedIsSet
<1>6. Looking(d) /\ Looking(d)' /\ drainer'[d].pc # "restore"
  BY <1>1, <1>4 DEF Looking
<1>7. drainer'[d].pc \in {"send", "restore"} <=> drainer'[d].item # NoItem
  BY <1>1, <1>2, <1>4
<1>8. drainer'[d].pc \in {"look", "claim", "send", "restore"} \/ turn'.pc # "none"
  BY <1>1, <1>3, <1>4 DEF Busy
<1>9. QueueControl'
  BY <1>1, <1>2, <1>4, <1>5, <1>6, <1>7, <1>8, LookerMoves
<1>10. PlacesInv'
  BY <1>1, <1>2, <1>4, PlacesStay
<1> QED
  BY <1>9, <1>10, QueuePartsAfter

\* A goroutine that changes its place and what it has in hand.
LEMMA PlaceAndHand ==
    ASSUME drainer \in [Drainers -> Drains], NEW d \in Drainers, NEW at \in DrainPlaces, NEW r \in QueueItems,
           drainer' = [drainer EXCEPT ![d] = [pc |-> at, item |-> r]]
    PROVE  /\ drainer' \in [Drainers -> Drains] /\ drainer'[d].pc = at /\ drainer'[d].item = r
           /\ \A e \in Drainers : e # d => drainer'[e] = drainer[e]
<1> DEFINE n == [pc |-> at, item |-> r]
<1>1. n \in Drains /\ n.pc = at /\ n.item = r /\ drainer' = [drainer EXCEPT ![d] = n]
  BY DEF Drains
<1> HIDE DEF n
<1> QED
  BY <1>1

LEMMA DrainClaimKeeps == ASSUME QueueInv, NEW d \in Drainers, DrainClaim(d) PROVE QueueInv'
<1>1. /\ turn' = turn /\ notices' = notices /\ said' = said /\ asked' = asked /\ draining' = draining /\ spent' = spent
      /\ drainer[d].pc = "claim"
      /\ \/ queue = {} /\ drainer' = [drainer EXCEPT ![d].pc = "end"] /\ queue' = queue
         \/ \E r \in queue : queue' = queue \ {r} /\ drainer' = [drainer EXCEPT ![d] = [pc |-> "send", item |-> r]]
  BY Zenon DEF DrainClaim, ClaimNext
<1>2. /\ QueueControl /\ PlacesInv /\ turn \in RunViews /\ (turn.pc \in {"claimed", "restore"} <=> turn.item # NoItem)
      /\ drainer \in [Drainers -> Drains] /\ spent \in Spendings /\ IsFiniteSet(queue) /\ notices \in Nat
      /\ \A e \in Drainers : drainer[e].pc \in {"send", "restore"} <=> drainer[e].item # NoItem
      /\ queue \in SUBSET QueueRows
  BY DrainFacts
<1>3. Looking(d) /\ drainer[d].item = NoItem
  BY <1>1, <1>2 DEF Looking
<1>4. CASE queue = {} /\ drainer' = [drainer EXCEPT ![d].pc = "end"] /\ queue' = queue
  <2>1. /\ drainer' \in [Drainers -> Drains] /\ drainer'[d].pc = "end" /\ drainer'[d].item = drainer[d].item
        /\ \A e \in Drainers : e # d => drainer'[e] = drainer[e]
        /\ \A e \in Drainers : drainer'[e].item = drainer[e].item
    <3>1. "end" \in DrainPlaces
      BY DEF DrainPlaces
    <3> QED
      BY <1>2, <1>4, <3>1, PlaceIsSet
  <2>2. Looking(d)' /\ drainer'[d].pc # "restore" /\ queue' = {} /\ IsFiniteSet(queue')
    BY <1>2, <1>4, <2>1 DEF Looking
  <2>3. drainer'[d].pc \in {"send", "restore"} <=> drainer'[d].item # NoItem
    BY <1>3, <2>1
  <2>4. QueueControl'
    BY <1>1, <1>2, <1>3, <2>1, <2>2, <2>3, LookerMoves
  <2>5. PlacesInv'
    BY <1>1, <1>2, <1>4, <2>1, PlacesStay
  <2> QED
    BY <2>4, <2>5, QueuePartsAfter
<1>5. ASSUME NEW r \in queue, queue' = queue \ {r}, drainer' = [drainer EXCEPT ![d] = [pc |-> "send", item |-> r]]
      PROVE  QueueInv'
  <2>1. "send" \in DrainPlaces /\ r \in QueueItems /\ r # NoItem
    BY <1>2, ItemNames DEF DrainPlaces, QueueItems
  <2>2. /\ drainer' \in [Drainers -> Drains] /\ drainer'[d].pc = "send" /\ drainer'[d].item = r
        /\ \A e \in Drainers : e # d => drainer'[e] = drainer[e]
    BY <1>2, <1>5, <2>1, PlaceAndHand
  <2>3. Looking(d)' /\ IsFiniteSet(queue')
    BY <1>2, <1>5, <2>2, FS_RemoveElement DEF Looking
  <2>4. drainer'[d].pc \in {"send", "restore"} <=> drainer'[d].item # NoItem
    BY <2>1, <2>2
  <2>5. QueueControl'
    BY <1>1, <1>2, <1>3, <2>2, <2>3, <2>4, LookerMoves
  <2>6. d \in Claimants /\ Claims[d] = NoItem
    BY <1>2, <1>3, ClaimsRead DEF Claimants
  <2>7. Claims' = [Claims EXCEPT ![d] = r]
    <3>1. \A e \in Drainers : e # d => drainer'[e].item = drainer[e].item
      BY <2>2
    <3>2. Claims' = [Claims EXCEPT ![d] = drainer'[d].item]
      BY <1>1, <3>1, DrainersHandMoves
    <3> QED
      BY <2>2, <3>2
  <2>8. PlacesInv'
    BY <1>1, <1>2, <1>5, <2>6, <2>7, RowIsClaimed
  <2> QED
    BY <2>5, <2>8, QueuePartsAfter
<1> QED
  BY <1>1, <1>4, <1>5, Zenon

LEMMA SendKeeps == ASSUME QueueInv, NEW d \in Drainers, Send(d) PROVE QueueInv'
<1>1. /\ queue' = queue /\ notices' = notices /\ asked' = asked /\ draining' = draining /\ spent' = spent
      /\ drainer[d].pc = "send" /\ drainer' = [drainer EXCEPT ![d] = [pc |-> "look", item |-> NoItem]]
      /\ Say(drainer[d].item)
      /\ \E mode \in IF drainer[d].item.mode = "any" THEN RunModes \cup {"any"} ELSE {drainer[d].item.mode} : Submitted(mode)
  BY Zenon DEF Send
<1>2. /\ QueueControl /\ PlacesInv /\ turn \in RunViews /\ (turn.pc \in {"claimed", "restore"} <=> turn.item # NoItem)
      /\ drainer \in [Drainers -> Drains] /\ spent \in Spendings /\ IsFiniteSet(queue) /\ notices \in Nat
      /\ \A e \in Drainers : drainer[e].pc \in {"send", "restore"} <=> drainer[e].item # NoItem
  BY DrainFacts
<1>3. d \in Claimants /\ Claims[d] = drainer[d].item /\ drainer[d].item \in QueueRows /\ drainer[d].item # NoItem
  <2>1. drainer[d].item # NoItem /\ drainer[d].item \in QueueItems
    BY <1>1, <1>2 DEF Drains
  <2> QED
    BY <1>2, <2>1, ClaimsRead, ItemNames DEF Claimants
<1>4. /\ turn' \in RunViews /\ turn'.item = turn.item /\ turn'.pc # "none"
      /\ turn'.pc \in {"claimed", "restore"} <=> turn'.item # NoItem
  <2>1. PICK mode \in IF drainer[d].item.mode = "any" THEN RunModes \cup {"any"} ELSE {drainer[d].item.mode} : Submitted(mode)
    BY <1>1, Zenon
  <2>2. mode \in RunModes \cup {"any"}
    BY <1>3, <2>1 DEF QueueRows
  <2> QED
    BY <1>2, <2>1, <2>2, SubmittedStarts
<1>5. /\ drainer' \in [Drainers -> Drains] /\ drainer'[d].pc = "look" /\ drainer'[d].item = NoItem
      /\ \A e \in Drainers : e # d => drainer'[e] = drainer[e]
  <2>1. "look" \in DrainPlaces /\ NoItem \in QueueItems
    BY DEF DrainPlaces, QueueItems
  <2> QED
    BY <1>1, <1>2, <2>1, PlaceAndHand
<1>6. Looking(d) /\ Looking(d)' /\ IsFiniteSet(queue') /\ drainer'[d].pc # "restore"
  BY <1>1, <1>2, <1>5 DEF Looking
<1>7. QueueControl'
  <2>1. drainer'[d].pc \in {"send", "restore"} <=> drainer'[d].item # NoItem
    BY <1>5
  <2> QED
    BY <1>1, <1>2, <1>4, <1>5, <1>6, <2>1, LookerMoves
<1>8. Claims' = [Claims EXCEPT ![d] = NoItem]
  <2>1. \A e \in Drainers : e # d => drainer'[e].item = drainer[e].item
    BY <1>5
  <2>2. Claims' = [Claims EXCEPT ![d] = drainer'[d].item]
    BY <1>4, <2>1, DrainersHandMoves
  <2> QED
    BY <1>5, <2>2
<1>9. PICK p \in Nat \X Nat : said' = [said EXCEPT ![drainer[d].item.msg] = said[drainer[d].item.msg] \cup {p}]
  <2> DEFINE r == drainer[d].item
  <2>1. r \in QueueRows /\ Say(r)
    BY <1>1, <1>3
  <2> HIDE DEF r
  <2>2. \E p \in Nat \X Nat : said' = [said EXCEPT ![r.msg] = said[r.msg] \cup {p}]
    BY <1>2, <2>1, SayAdds
  <2> QED
    BY <2>2 DEF r
<1>10. PlacesInv'
  <2>1. Claims[d] # NoItem /\ said' = [said EXCEPT ![Claims[d].msg] = said[Claims[d].msg] \cup {p}]
    BY <1>3, <1>9
  <2> QED
    BY <1>1, <1>2, <1>3, <1>8, <2>1, ItemIsSaid
<1> QED
  BY <1>7, <1>10, QueuePartsAfter

LEMMA SendFailsKeeps == ASSUME QueueInv, NEW d \in Drainers, SendFails(d) PROVE QueueInv'
<1>1. /\ queue' = queue /\ turn' = turn /\ notices' = notices /\ draining' = draining /\ Fault(TRUE)
      /\ drainer[d].pc = "send" /\ drainer' = [drainer EXCEPT ![d].pc = "restore"]
      /\ \/ said' = said /\ asked' = asked
         \/ Say(drainer[d].item)
            /\ asked' = [asked EXCEPT ![drainer[d].item.msg].late = asked[drainer[d].item.msg].late + 1]
  BY Zenon DEF SendFails, Step
<1>2. /\ QueueControl /\ PlacesInv /\ turn \in RunViews /\ (turn.pc \in {"claimed", "restore"} <=> turn.item # NoItem)
      /\ drainer \in [Drainers -> Drains] /\ spent \in Spendings /\ IsFiniteSet(queue) /\ notices \in Nat
      /\ \A e \in Drainers : drainer[e].pc \in {"send", "restore"} <=> drainer[e].item # NoItem
  BY DrainFacts
<1>3. /\ drainer' \in [Drainers -> Drains] /\ drainer'[d].pc = "restore" /\ drainer'[d].item = drainer[d].item
      /\ \A e \in Drainers : e # d => drainer'[e] = drainer[e]
      /\ \A e \in Drainers : drainer'[e].item = drainer[e].item
  <2>1. "restore" \in DrainPlaces
    BY DEF DrainPlaces
  <2> QED
    BY <1>1, <1>2, <2>1, PlaceIsSet
<1>4. spent' \in Spendings /\ spent'.missed
  BY <1>1, <1>2, FaultIsNoted
<1>5. Looking(d) /\ Looking(d)' /\ IsFiniteSet(queue') /\ (drainer'[d].pc \in {"send", "restore"} <=> drainer'[d].item # NoItem)
  BY <1>1, <1>2, <1>3 DEF Looking
<1>6. QueueControl'
  BY <1>1, <1>2, <1>3, <1>4, <1>5, LookerMoves
<1>7. CASE said' = said /\ asked' = asked
  <2>1. PlacesInv'
    BY <1>1, <1>2, <1>3, <1>7, PlacesStay
  <2> QED
    BY <1>6, <2>1, QueuePartsAfter
<1>8. CASE /\ Say(drainer[d].item)
           /\ asked' = [asked EXCEPT ![drainer[d].item.msg].late = asked[drainer[d].item.msg].late + 1]
  <2>1. d \in Claimants /\ Claims[d] = drainer[d].item /\ drainer[d].item \in QueueRows /\ drainer[d].item # NoItem
    <3>1. drainer[d].item # NoItem /\ drainer[d].item \in QueueItems
      BY <1>1, <1>2 DEF Drains
    <3> QED
      BY <1>2, <3>1, ClaimsRead, ItemNames DEF Claimants
  <2>2. Claims' = Claims
    BY <1>1, <1>3, HandsStay
  <2>3. PICK p \in Nat \X Nat : said' = [said EXCEPT ![drainer[d].item.msg] = said[drainer[d].item.msg] \cup {p}]
    <3> DEFINE r == drainer[d].item
    <3>1. r \in QueueRows /\ Say(r)
      BY <1>8, <2>1
    <3> HIDE DEF r
    <3>2. \E p \in Nat \X Nat : said' = [said EXCEPT ![r.msg] = said[r.msg] \cup {p}]
      BY <1>2, <3>1, SayAdds
    <3> QED
      BY <3>2 DEF r
  <2>4. /\ Claims[d] # NoItem /\ said' = [said EXCEPT ![Claims[d].msg] = said[Claims[d].msg] \cup {p}]
        /\ asked' = [asked EXCEPT ![Claims[d].msg].late = asked[Claims[d].msg].late + 1]
    BY <1>8, <2>1, <2>3
  <2>5. PlacesInv'
    BY <1>1, <1>2, <2>1, <2>2, <2>4, ItemIsSaidLate
  <2> QED
    BY <1>6, <2>5, QueuePartsAfter
<1> QED
  BY <1>1, <1>7, <1>8, Zenon

LEMMA DrainRestoreKeeps == ASSUME QueueInv, NEW d \in Drainers, DrainRestore(d) PROVE QueueInv'
<1>1. /\ turn' = turn /\ notices' = notices /\ draining' = draining /\ said' = said
      /\ drainer[d].pc = "restore" /\ drainer' = [drainer EXCEPT ![d] = [pc |-> "end", item |-> NoItem]]
      /\ \/ queue' = queue \cup {drainer[d].item} /\ asked' = asked /\ spent' = spent
         \/ Fault(TRUE) /\ asked' = [asked EXCEPT ![drainer[d].item.msg].state = "lost"] /\ queue' = queue
  BY Zenon DEF DrainRestore, RestoreRow, Lose
<1>2. /\ QueueControl /\ PlacesInv /\ turn \in RunViews /\ (turn.pc \in {"claimed", "restore"} <=> turn.item # NoItem)
      /\ drainer \in [Drainers -> Drains] /\ spent \in Spendings /\ IsFiniteSet(queue) /\ notices \in Nat
      /\ \A e \in Drainers : drainer[e].pc \in {"send", "restore"} <=> drainer[e].item # NoItem
      /\ \A e \in Drainers : drainer[e].pc = "restore" => spent.missed
  BY DrainFacts
<1>3. d \in Claimants /\ Claims[d] = drainer[d].item /\ drainer[d].item \in QueueRows /\ drainer[d].item # NoItem
  <2>1. drainer[d].item # NoItem /\ drainer[d].item \in QueueItems
    BY <1>1, <1>2 DEF Drains
  <2> QED
    BY <1>2, <2>1, ClaimsRead, ItemNames DEF Claimants
<1>4. /\ drainer' \in [Drainers -> Drains] /\ drainer'[d].pc = "end" /\ drainer'[d].item = NoItem
      /\ \A e \in Drainers : e # d => drainer'[e] = drainer[e]
  <2>1. "end" \in DrainPlaces /\ NoItem \in QueueItems
    BY DEF DrainPlaces, QueueItems
  <2> QED
    BY <1>1, <1>2, <2>1, PlaceAndHand
<1>5. spent' \in Spendings /\ spent'.missed
  BY <1>1, <1>2, FaultIsNoted
<1>6. IsFiniteSet(queue')
  BY <1>1, <1>2, FS_AddElement
<1>7. Looking(d) /\ Looking(d)' /\ drainer'[d].pc # "restore" /\ (drainer'[d].pc \in {"send", "restore"} <=> drainer'[d].item # NoItem)
  BY <1>1, <1>4 DEF Looking
<1>8. QueueControl'
  BY <1>1, <1>2, <1>4, <1>5, <1>6, <1>7, LookerMoves
<1>9. Claims' = [Claims EXCEPT ![d] = NoItem]
  <2>1. \A e \in Drainers : e # d => drainer'[e].item = drainer[e].item
    BY <1>4
  <2>2. Claims' = [Claims EXCEPT ![d] = drainer'[d].item]
    BY <1>1, <2>1, DrainersHandMoves
  <2> QED
    BY <1>4, <2>2
<1>10. Claims[d] # NoItem
  BY <1>3
<1>11. CASE queue' = queue \cup {drainer[d].item} /\ asked' = asked
  <2>1. queue' = queue \cup {Claims[d]}
    BY <1>3, <1>11
  <2> QED
    BY <1>1, <1>2, <1>3, <1>8, <1>9, <1>10, <1>11, <2>1, RowIsRestored, QueuePartsAfter
<1>12. CASE asked' = [asked EXCEPT ![drainer[d].item.msg].state = "lost"] /\ queue' = queue
  <2>1. asked' = [asked EXCEPT ![Claims[d].msg].state = "lost"]
    BY <1>3, <1>12
  <2> QED
    BY <1>1, <1>2, <1>3, <1>8, <1>9, <1>10, <1>12, <2>1, ItemIsLost, QueuePartsAfter
<1> QED
  BY <1>1, <1>11, <1>12, Zenon

LEMMA DrainFailsKeeps == ASSUME QueueInv, NEW d \in Drainers, DrainFails(d) PROVE QueueInv'
<1>1. /\ queue' = queue /\ turn' = turn /\ notices' = notices /\ draining' = draining /\ said' = said /\ asked' = asked
      /\ Fault(TRUE) /\ (drainer[d].pc = "look" \/ drainer[d].pc = "claim") /\ drainer' = [drainer EXCEPT ![d].pc = "end"]
  BY Zenon DEF DrainFails, Step
<1>2. /\ QueueControl /\ PlacesInv /\ turn \in RunViews /\ (turn.pc \in {"claimed", "restore"} <=> turn.item # NoItem)
      /\ drainer \in [Drainers -> Drains] /\ spent \in Spendings /\ IsFiniteSet(queue) /\ notices \in Nat
      /\ \A e \in Drainers : drainer[e].pc \in {"send", "restore"} <=> drainer[e].item # NoItem
  BY DrainFacts
<1>3. /\ drainer' \in [Drainers -> Drains] /\ drainer'[d].pc = "end" /\ drainer'[d].item = drainer[d].item
      /\ \A e \in Drainers : e # d => drainer'[e] = drainer[e]
      /\ \A e \in Drainers : drainer'[e].item = drainer[e].item
  <2>1. "end" \in DrainPlaces
    BY DEF DrainPlaces
  <2> QED
    BY <1>1, <1>2, <2>1, PlaceIsSet
<1>4. spent' \in Spendings /\ spent'.missed
  BY <1>1, <1>2, FaultIsNoted
<1>5. Looking(d) /\ Looking(d)' /\ IsFiniteSet(queue') /\ (drainer'[d].pc \in {"send", "restore"} <=> drainer'[d].item # NoItem)
  BY <1>1, <1>2, <1>3 DEF Looking
<1>6. QueueControl'
  BY <1>1, <1>2, <1>3, <1>4, <1>5, LookerMoves
<1>7. PlacesInv'
  BY <1>1, <1>2, <1>3, PlacesStay
<1> QED
  BY <1>6, <1>7, QueuePartsAfter

\* The follow-ups in hand, as the claimants hold them.
LEMMA HandsAreClaims ==
    ASSUME turn \in RunViews, drainer \in [Drainers -> Drains]
    PROVE  \A r : r \in InHand <=> r # NoItem /\ \E c \in Claimants : r = Claims[c]
BY ClaimsRead DEF InHand, Claimants

LEMMA MessageInHand ==
    ASSUME turn \in RunViews, drainer \in [Drainers -> Drains], NEW m \in Messages
    PROVE  (\E r \in InHand : r.msg = m) <=> \E c \in Claimants : Claims[c].msg = m
<1>1. \A c \in Claimants : Claims[c].msg = m => Claims[c] # NoItem
  BY ItemNames, QueueAssumption DEF QueueAssumption
<1> QED
  BY <1>1, HandsAreClaims

LEMMA QueueCrashKeeps == ASSUME QueueInv, Crash PROVE QueueInv'
<1>1. /\ queue' = queue /\ said' = said /\ turn' = NoTurn /\ drainer' = [d \in Drainers |-> AtRest]
      /\ notices' = 0 /\ Fault(TRUE)
      /\ asked' = [m \in Messages |-> IF \E r \in InHand : r.msg = m /\ said[m] = {}
                                      THEN [asked[m] EXCEPT !.state = "lost"] ELSE asked[m]]
  BY Zenon DEF Crash
<1>2. draining' = FALSE
  BY Zenon DEF Crash
<1>3. QueueControl /\ PlacesInv /\ turn \in RunViews /\ drainer \in [Drainers -> Drains] /\ spent \in Spendings /\ IsFiniteSet(queue)
  BY DrainFacts
<1>4. spent' \in Spendings /\ spent'.missed
  BY <1>1, <1>3, FaultIsNoted
<1>5. turn' \in RunViews /\ turn'.pc = "none" /\ turn'.item = NoItem
  BY <1>1 DEF RunViews, NoTurn, QueueItems
<1>6. drainer' \in [Drainers -> Drains] /\ \A d \in Drainers : drainer'[d].pc = "none" /\ drainer'[d].item = NoItem
  <2>1. AtRest \in Drains /\ AtRest.pc = "none" /\ AtRest.item = NoItem
    BY DEF AtRest, Drains, DrainPlaces, QueueItems
  <2> QED
    BY <1>1, <2>1
<1>7. QueueControl'
  <2>1. \A d \in Drainers : ~Looking(d)'
    BY <1>6 DEF Looking
  <2>2. FollowUpAttended'
    BY <1>4 DEF FollowUpAttended
  <2>3. Drained'
    BY <1>2, <1>4, <1>5, <1>6, <2>1, <2>2 DEF Drained
  <2>4. draining' \in BOOLEAN
    BY <1>2, Zenon
  <2>5. notices' \in Nat /\ IsFiniteSet(queue')
    BY <1>1, <1>3
  <2> QED
    BY <1>4, <1>5, <1>6, <2>3, <2>4, <2>5 DEF QueueControl
<1>8. Claims' = [c \in Claimants |-> NoItem]
  <2>1. \A c \in Claimants : (IF c = TheRun THEN turn'.item ELSE drainer'[c].item) = NoItem
    BY <1>5, <1>6, RunIsNoDrainer DEF Claimants
  <2> QED
    BY <2>1 DEF Claims
<1>9. ASSUME NEW m \in Messages
      PROVE  /\ asked'[m] \in Told /\ asked'[m].text = asked[m].text /\ asked'[m].late = asked[m].late
             /\ IF (\E c \in Claimants : Claims[c].msg = m) /\ said[m] = {}
                THEN asked'[m].state = "lost" ELSE asked'[m].state = asked[m].state
  <2>1. asked[m] \in Told
    BY <1>3 DEF PlacesInv, PlacesTyped
  <2>2. (\E r \in InHand : r.msg = m /\ said[m] = {}) <=> (\E c \in Claimants : Claims[c].msg = m) /\ said[m] = {}
    BY <1>3, MessageInHand
  <2>3. CASE (\E c \in Claimants : Claims[c].msg = m) /\ said[m] = {}
    <3>1. asked'[m] = [asked[m] EXCEPT !.state = "lost"]
      BY <1>1, <2>2, <2>3, Zenon
    <3> QED
      BY <2>1, <2>3, <3>1 DEF Told
  <2>4. CASE ~((\E c \in Claimants : Claims[c].msg = m) /\ said[m] = {})
    <3>1. asked'[m] = asked[m]
      BY <1>1, <2>2, <2>4, Zenon
    <3> QED
      BY <2>1, <2>4, <3>1
  <2> QED
    BY <2>3, <2>4
<1>10. asked' \in [Messages -> Told]
  <2>1. DOMAIN asked' = Messages /\ asked' = [m \in Messages |-> asked'[m]]
    BY <1>1, Zenon
  <2> QED
    BY <1>9, <2>1
<1>11. PlacesInv'
  BY <1>1, <1>3, <1>8, <1>9, <1>10, HandsAreEmptied
<1> QED
  BY <1>7, <1>11, QueuePartsAfter

LEMMA QueueInitHolds == QueueInit => QueueInv
<1> SUFFICES ASSUME QueueInit PROVE QueueInv
  OBVIOUS
<1>1. /\ queue = {} /\ turn = NoTurn /\ drainer = [d \in Drainers |-> AtRest] /\ notices = 0
      /\ said = [m \in Messages |-> {}] /\ asked = [m \in Messages |-> [state |-> "new", text |-> 0, late |-> 0]]
      /\ spent = [submits |-> 0, stops |-> 0, faults |-> 0, missed |-> FALSE]
  BY Zenon DEF QueueInit
<1>2. draining = FALSE
  BY Zenon DEF QueueInit
<1>3. turn \in RunViews /\ turn.pc = "none" /\ turn.item = NoItem
  BY <1>1 DEF RunViews, NoTurn, QueueItems
<1>4. drainer \in [Drainers -> Drains] /\ \A d \in Drainers : drainer[d].pc = "none" /\ drainer[d].item = NoItem
  <2>1. AtRest \in Drains /\ AtRest.pc = "none" /\ AtRest.item = NoItem
    BY DEF AtRest, Drains, DrainPlaces, QueueItems
  <2> QED
    BY <1>1, <2>1
<1>5. spent \in Spendings
  <2>1. PICK b \in BOOLEAN : b = FALSE
    OBVIOUS
  <2>2. spent = [submits |-> 0, stops |-> 0, faults |-> 0, missed |-> b]
    BY <1>1, <2>1, Zenon
  <2> QED
    BY <2>2 DEF Spendings
<1>6. draining \in BOOLEAN
  BY <1>2, Zenon
<1>7. IsFiniteSet(queue) /\ queue \subseteq QueueRows /\ notices \in Nat
  BY <1>1, FS_EmptySet
<1>8. QueueControl
  <2>1. \A d \in Drainers : ~Looking(d) /\ drainer[d].pc # "restore"
    BY <1>4 DEF Looking
  <2>2. FollowUpAttended
    BY <1>1 DEF FollowUpAttended
  <2>3. Drained
    BY <1>2, <1>3, <1>4, <2>1, <2>2 DEF Drained
  <2> QED
    BY <1>3, <1>4, <1>5, <1>6, <1>7, <2>3 DEF QueueControl
<1>9. Claims \in [Claimants -> QueueItems] /\ \A c \in Claimants : Claims[c] = NoItem
  BY <1>3, <1>4, ClaimsRead DEF Claimants
<1>10. \A m \in Messages : said[m] = {} /\ asked[m] \in Told /\ asked[m].state = "new" /\ asked[m].text = 0 /\ asked[m].late = 0
  BY <1>1 DEF Told
<1>11. PlacesTyped
  <2>1. said \in [Messages -> SUBSET (Nat \X Nat)]
    BY <1>1
  <2>2. asked \in [Messages -> Told]
    BY <1>1 DEF Told
  <2> QED
    BY <1>7, <1>9, <2>1, <2>2 DEF PlacesTyped
<1>12. Sole
  BY <1>1, <1>9 DEF Sole
<1>13. ASSUME NEW m \in Messages PROVE Kept(m)
  <2>1. ~Held(m)
    BY <1>1, <1>9, ItemNames, QueueAssumption DEF Held, QueueAssumption
  <2>2. IsFiniteSet(said[m]) /\ Cardinality(said[m]) = 0
    BY <1>10, FS_EmptySet
  <2> QED
    BY <1>10, <2>1, <2>2 DEF Kept
<1> QED
  BY <1>8, <1>11, <1>12, <1>13, QueueParts DEF PlacesInv

LEMMA QueueStepKeeps == ASSUME QueueInv, [QueueNext]_queueVars PROVE QueueInv'
<1>1. ASSUME NEW m \in Messages,
             (\E mode \in RunModes \cup {"any"} : EnqueueMessage(m, mode)) \/ UpdateQueuedMessage(m) \/ DeleteQueuedMessage(m)
      PROVE  QueueInv'
  BY <1>1, EnqueueKeeps, UpdateKeeps, DeleteKeeps, Zenon
<1>2. CASE SubmitDirect \/ Interrupt \/ RunEnds \/ Notify \/ Crash
  BY <1>2, SubmitKeeps, InterruptKeeps, RunEndsKeeps, NotifyKeeps, QueueCrashKeeps, Zenon
<1>3. CASE Settled \/ Park \/ Wake \/ Shut \/ SteerSkip \/ SteerFails
  BY <1>3, TurnsKeep, Zenon
<1>4. CASE SteerClaim \/ SteerInsert \/ SteerRestore
  BY <1>4, SteerClaimKeeps, SteerInsertKeeps, SteerRestoreKeeps, Zenon
<1>5. ASSUME NEW d \in Drainers,
             \/ Begin(d) \/ Refuse(d) \/ Look(d) \/ DrainClaim(d) \/ Send(d)
             \/ SendFails(d) \/ DrainRestore(d) \/ DrainFails(d) \/ End(d)
      PROVE  QueueInv'
  BY <1>5, BeginKeeps, RefuseKeeps, LookKeeps, DrainClaimKeeps, SendKeeps, SendFailsKeeps, DrainRestoreKeeps,
     DrainFailsKeeps, EndKeeps, Zenon
<1>6. CASE UNCHANGED queueVars
  <2>1. /\ queue' = queue /\ turn' = turn /\ drainer' = drainer /\ draining' = draining /\ notices' = notices
        /\ said' = said /\ asked' = asked /\ spent' = spent
    BY <1>6 DEF queueVars
  <2>2. QueueControl /\ PlacesInv /\ spent \in Spendings /\ IsFiniteSet(queue)
    BY DrainFacts
  <2>3. QueueControl'
    BY <2>1, <2>2, RowMoves
  <2>4. PlacesInv'
    BY <2>1, <2>2, PlacesStay
  <2> QED
    BY <2>3, <2>4, QueuePartsAfter
<1> QED
  BY <1>1, <1>2, <1>3, <1>4, <1>5, <1>6, Zenon DEF QueueNext

LEMMA QueueHolds == QueueSpec => []QueueInv
<1>1. QueueInv /\ [QueueNext]_queueVars => QueueInv'
  BY QueueStepKeeps
<1> QED
  BY QueueInitHolds, <1>1, PTL DEF QueueSpec

\* A follow-up is in one place, whoever claims it: its row, the run's hand, a
\* drain's hand, or the conversation (ClaimNextQueuedMessage and
\* RestoreQueuedMessage of message_queue.go). It is said once but for the sends
\* that failed after storing it, and with the last text the user saved.
THEOREM FollowUpsAreHeldOnce == QueueSpec => []HeldOnce
<1>1. QueueInv => HeldOnce
  <2> SUFFICES ASSUME QueueInv PROVE HeldOnce
    OBVIOUS
  <2>1. /\ PlacesInv /\ Sole /\ turn \in RunViews /\ drainer \in [Drainers -> Drains]
    BY DrainFacts DEF PlacesInv
  <2>2. ASSUME NEW m \in Messages,
               NEW rows, rows = Row(m), NEW hands, hands = {r \in InHand : r.msg = m}
        PROVE  /\ Cardinality(rows) + Cardinality(hands) <= 1
               /\ Cardinality(said[m]) + Cardinality(rows \cup hands) <= 1 + asked[m].late
               /\ asked[m].state = "asked" => rows \cup hands # {} \/ said[m] # {}
               /\ asked[m].state = "deleted" => rows \cup hands = {} /\ Cardinality(said[m]) <= asked[m].late
               /\ \A r \in rows \cup hands : r.text = asked[m].text
    <3>1. /\ \A r : r \in rows <=> r \in queue /\ r.msg = m
          /\ \A r : r \in hands <=> r # NoItem /\ r.msg = m /\ \E c \in Claimants : r = Claims[c]
      BY <2>1, <2>2, HandsAreClaims DEF Row
    <3>2. /\ Kept(m) /\ Cardinality(said[m]) \in Nat /\ asked[m].late \in Nat
      BY <2>1, KeptCounts DEF PlacesInv
    <3>3. Held(m) <=> rows \cup hands # {}
      <4>1. \A c \in Claimants : Claims[c].msg = m => Claims[c] # NoItem
        BY ItemNames, QueueAssumption DEF QueueAssumption
      <4> QED
        BY <3>1, <4>1 DEF Held
    <3>4. \A r \in rows \cup hands : r.text = asked[m].text
      BY <2>1, <3>1 DEF Sole
    <3>5. CASE rows \cup hands = {}
      <4>1. rows = {} /\ hands = {} /\ Cardinality(rows) = 0 /\ Cardinality(hands) = 0 /\ Cardinality(rows \cup hands) = 0
        BY <3>5, FS_EmptySet
      <4> QED
        BY <3>2, <3>3, <3>5, <4>1 DEF Kept
    <3>6. CASE rows \cup hands # {}
      <4>1. Cardinality(rows) + Cardinality(hands) = 1 /\ Cardinality(rows \cup hands) = 1
        <5>1. PICK x : x \in rows \cup hands
          BY <3>6
        <5>2. CASE x \in rows
          <6>1. rows = {x} /\ hands = {} /\ rows \cup hands = {x}
            BY <2>1, <3>1, <5>2 DEF Sole
          <6>2. Cardinality({x}) = 1 /\ Cardinality({}) = 0
            BY FS_EmptySet, FS_Singleton
          <6> QED
            BY <6>1, <6>2
        <5>3. CASE x \in hands
          <6>1. \A r \in hands : r = x
            BY <2>1, <3>1, <5>3 DEF Sole
          <6>2. rows = {}
            BY <2>1, <3>1, <5>3 DEF Sole
          <6>3. hands = {x} /\ rows \cup hands = {x}
            BY <5>3, <6>1, <6>2
          <6>4. Cardinality({x}) = 1 /\ Cardinality({}) = 0
            BY FS_EmptySet, FS_Singleton
          <6> QED
            BY <6>2, <6>3, <6>4
        <5> QED
          BY <5>1, <5>2, <5>3
      <4>2. asked[m].state = "asked" /\ Cardinality(said[m]) <= asked[m].late
        BY <3>2, <3>3, <3>6 DEF Kept
      <4> QED
        BY <3>2, <3>4, <3>6, <4>1, <4>2
    <3> QED
      BY <3>5, <3>6
  <2>3. Cardinality({d \in Drainers : drainer[d].pc \in {"look", "claim", "send", "restore", "end"}}) <= 1
    <3> DEFINE L == {d \in Drainers : drainer[d].pc \in {"look", "claim", "send", "restore", "end"}}
    <3>1. \A d, e \in L : d = e
      BY DEF QueueInv, Drained, Looking
    <3>2. CASE L = {}
      BY <3>2, FS_EmptySet
    <3>3. CASE L # {}
      <4>1. PICK d \in L : L = {d}
        BY <3>1, <3>3
      <4>2. Cardinality({d}) = 1
        BY FS_Singleton
      <4> QED
        BY <4>1, <4>2
    <3> QED
      BY <3>2, <3>3
  <2> QED
    BY <2>2, <2>3 DEF HeldOnce
<1> QED
  BY QueueHolds, <1>1, PTL

\* While the agent is idle a follow-up waits only when something is about to
\* look at it (ScheduleMessageQueueDrain of message_queue_api.go), unless a
\* fault, a Stop of a parked run or a drain refused too early explains it.
THEOREM WaitingIsAttended == QueueSpec => []FollowUpAttended
<1>1. QueueInv => FollowUpAttended
  BY DEF QueueInv, Drained
<1> QED
  BY QueueHolds, <1>1, PTL
=============================================================================
