-------------------------- MODULE RunRegistryProofs --------------------------
(***************************************************************************)
(* Proofs about RunRegistry for every set of goroutines and every bound:   *)
(* one goroutine at a time holds the slot of the agent, a row that runs    *)
(* has a goroutine that answers for it, a final status is final, a wake    *)
(* honours its task, and a queued request is never dropped in silence.     *)
(* The inductive invariant says of each goroutine what it may rely on in   *)
(* the section it is about to enter (Sound).                               *)
(***************************************************************************)
EXTENDS RunRegistry, FiniteSetTheorems, TLAPS

USE DEF None, Parked

Statuses == {"none", "pending", "running", Parked} \cup Terminal
Quiet == {"idle", "preempt", "bind", "register", "complete", "supersede", "cancel", "check", "reserve",
          "compact", "compacting", "stopnext", "stoptasks", "stoplist", "stopparked", "reap", "abandon"}
Holding == Executing \cup Reserving \cup {"drop"}
WithRun == Holding \cup {"bind", "register", "complete", "supersede", "check", "reserve", "stopnext", "abandon"}
Results == {"none", "error", "canceled", "interrupted", "superseded"}

RowsOf == [status : Statuses, generation : Nat, count : Nat, waiting : BOOLEAN, old : BOOLEAN]
MaybeRuns == Runs \cup {None}
Registrations == [owner : Threads \cup {NoThread}, run : MaybeRuns, live : BOOLEAN, next : MaybeRuns,
                  interrupted : BOOLEAN]
Goroutines == [pc : Quiet \cup Holding, run : MaybeRuns, next : MaybeRuns, count : Nat, result : Results,
               ctx : BOOLEAN, wait : BOOLEAN, after : {"none", "finish", "cancel"},
               target : Threads \cup {NoThread}, list : SUBSET (Runs \X Nat), stop : SUBSET Runs]

Types ==
    /\ run \in [Runs -> RowsOf]
    /\ generation \in Nat
    /\ task \in [Runs -> [Parks -> {"none", "live", "untold", "told"}]]
    /\ slot \in Registrations
    /\ compacting \in BOOLEAN
    /\ thread \in [Threads -> Goroutines]

\* A goroutine that executes or reserves a run is the one the slot names.
Holds(h, t) ==
    h.pc \in Holding =>
        /\ slot.owner = t /\ slot.run = h.run
        /\ slot.live <=> h.pc \notin Reserving
        /\ h.pc = "drop" => slot.interrupted

\* What the holder of the slot relies on: the row is its own meanwhile.
Relies(h) ==
    /\ h.pc \in {"boundary", "mark"} => h.count + 1 \in Parks
    /\ h.pc = "leave" /\ h.result = "none" => run[h.run].status # "running"
    /\ h.pc \in {"revalidate", "resume"} => ~run[h.run].waiting

\* What a goroutine brings from the section it was in.
Brings(h) ==
    /\ h.pc \in WithRun => h.run \in Runs
    /\ h.pc = "complete" => h.result \in {"error", "interrupted", "superseded"}
    /\ h.pc \in {"reserve", "casresume"} /\ h.count \in Parks => Ended(h.run, h.count)

Sound(t) == Holds(thread[t], t) /\ Relies(thread[t]) /\ Brings(thread[t])

WaitsForTask == \A r \in Runs : run[r].waiting => run[r].count \in Parks

\* Rows are inserted in the order of their names, and every goroutine that is
\* to insert one has a name left.
Preempting == {t \in Threads : thread[t].pc = "preempt"}

Room ==
    /\ IsFiniteSet(Preempting)
    /\ Cardinality(Rows) + Cardinality(Preempting) <= MaxRuns
    /\ Rows = 1 .. Cardinality(Rows)

RegistryInv ==
    /\ Types /\ Room
    /\ \A t \in Threads : Sound(t)
    /\ slot # NoSlot => ~compacting
    /\ WaitsForTask
    /\ RunningIsOwned

-----------------------------------------------------------------------------
LEMMA IdleIsQuiet == Idle \in Goroutines /\ Idle.pc = "idle" /\ NoSlot \in Registrations
BY DEF Idle, NoSlot, Goroutines, Registrations, Quiet, Results, MaybeRuns

LEMMA InitSound == Init => RegistryInv
<1> SUFFICES ASSUME Init PROVE RegistryInv
  OBVIOUS
<1>1. NoRow \in RowsOf /\ NoRow.status = "none" /\ ~NoRow.waiting
  BY DEF NoRow, RowsOf, Statuses
<1>2. Types
  BY <1>1, IdleIsQuiet DEF Init, Types
<1>3. \A t \in Threads : thread[t].pc = "idle"
  BY IdleIsQuiet DEF Init
<1>4. \A t \in Threads : Sound(t)
  BY <1>3 DEF Sound, Holds, Relies, Brings, WithRun, Holding, Executing, Reserving
<1>5. WaitsForTask /\ RunningIsOwned
  BY <1>1 DEF Init, WaitsForTask, RunningIsOwned
<1>6. Room
  <2>1. Rows = {} /\ Preempting = {} /\ MaxRuns \in Nat
    BY <1>1, <1>3, BoundsAssumption DEF Rows, Preempting, Init, BoundsAssumption
  <2>2. IsFiniteSet({}) /\ Cardinality({}) = 0
    BY FS_EmptySet
  <2>3. {} = 1 .. 0
    OBVIOUS
  <2> QED
    BY <2>1, <2>2, <2>3 DEF Room
<1> QED
  BY <1>2, <1>4, <1>5, <1>6 DEF Init, RegistryInv

LEMMA ListsAreTyped ==
    ASSUME Types
    PROVE  Listed \in SUBSET (Runs \X Nat) /\ Stale \in SUBSET (Runs \X Nat) /\ ParkedRows \subseteq Runs
<1>1. \A r \in Runs : <<r, run[r].count>> \in Runs \X Nat
  BY DEF Types, RowsOf
<1>2. Listed \in SUBSET (Runs \X Nat)
  BY <1>1 DEF Listed, ParkedRows
<1>3. Stale \in SUBSET (Runs \X Nat)
  BY <1>1 DEF Stale
<1>4. ParkedRows \subseteq Runs
  BY DEF ParkedRows
<1> QED
  BY <1>2, <1>3, <1>4

LEMMA RunsFinite == IsFiniteSet(Runs) /\ Runs \subseteq Nat \ {0} /\ MaxRuns \in Nat
<1>1. MaxRuns \in Nat
  BY BoundsAssumption DEF BoundsAssumption
<1>2. IsFiniteSet(1 .. MaxRuns)
  BY <1>1, FS_Interval
<1> QED
  BY <1>1, <1>2 DEF Runs

\* The name a goroutine that may insert a row gives it is free.
LEMMA NewRowIsFree ==
    ASSUME Room, RowsLeft \/ \E t \in Threads : thread[t].pc = "preempt"
    PROVE  NewRow \in Runs /\ NewRow \notin Rows /\ run[NewRow].status = "none"
<1>1. Cardinality(Rows) \in Nat /\ Cardinality(Preempting) \in Nat
  BY RunsFinite, FS_Subset, FS_CardinalityType DEF Room, Rows
<1>2. Cardinality(Rows) < MaxRuns
  <2>1. CASE RowsLeft
    BY <1>1, <2>1, RunsFinite DEF RowsLeft, RowsMade, Preempting
  <2>2. CASE \E t \in Threads : thread[t].pc = "preempt"
    <3>1. Preempting # {}
      BY <2>2 DEF Preempting
    <3>2. Cardinality(Preempting) # 0
      BY <3>1, FS_EmptySet DEF Room
    <3> QED
      BY <1>1, <3>2, RunsFinite DEF Room
  <2> QED
    BY <2>1, <2>2
<1>3. NewRow \in Runs
  BY <1>1, <1>2, RunsFinite DEF NewRow, Runs
<1>4. NewRow \notin Rows
  BY <1>1 DEF Room, NewRow
<1> QED
  BY <1>3, <1>4 DEF Rows

\* Who is answerable for a row that runs.
Owns(t, r) == thread[t].run = r /\ thread[t].pc \in Executing \cup {"swap", "drop", "complete"}

Alike(t) == \A f \in {"pc", "run", "next", "count", "result"} : thread'[t][f] = thread[t][f]

SlotRests ==
    /\ slot'.owner = slot.owner /\ slot'.run = slot.run /\ slot'.live = slot.live
    /\ slot.interrupted => slot'.interrupted

RowsSettle ==
    \A r \in Runs : /\ run'[r].status = "running" => run[r].status = "running"
                    /\ run'[r].waiting => run[r].waiting /\ run'[r].count = run[r].count

TasksAge == \A r \in Runs, n \in Parks : Ended(r, n) => Ended(r, n)'

\* A step of t keeps the invariant of the others: it leaves the slot to its
\* holder, or it is the holder, or there is none.
LEMMA OthersSound ==
    ASSUME RegistryInv, NEW t \in Threads, NEW u \in Threads \ {t}, Alike(u), TasksAge,
           (SlotRests /\ RowsSettle) \/ slot.owner \in {t, NoThread}
    PROVE  Sound(u)'
<1>1. /\ thread'[u].pc = thread[u].pc /\ thread'[u].run = thread[u].run
      /\ thread'[u].count = thread[u].count /\ thread'[u].result = thread[u].result
  BY DEF Alike
<1>2. Sound(u)
  BY DEF RegistryInv
<1>3. Brings(thread[u])'
  BY <1>1, <1>2 DEF Sound, Brings, WithRun, Holding, Reserving, TasksAge
<1>4. CASE SlotRests /\ RowsSettle
  <2>1. Holds(thread[u], u)'
    BY <1>1, <1>2, <1>4 DEF Sound, Holds, SlotRests
  <2>2. Relies(thread[u])'
    BY <1>1, <1>2, <1>4 DEF Sound, Relies, Brings, WithRun, Holding, Executing, RowsSettle
  <2> QED
    BY <1>3, <2>1, <2>2 DEF Sound
<1>5. CASE slot.owner \in {t, NoThread}
  <2>1. thread[u].pc \notin Holding
    BY <1>2, <1>5, BoundsAssumption DEF Sound, Holds, BoundsAssumption
  <2> QED
    BY <1>1, <1>3, <2>1 DEF Sound, Holds, Relies, Holding, Executing
<1> QED
  BY <1>4, <1>5

LEMMA StepKeeps ==
    ASSUME RegistryInv, NEW t \in Threads, Types', Room', \A u \in Threads \ {t} : Alike(u), TasksAge,
           (SlotRests /\ RowsSettle) \/ slot.owner \in {t, NoThread},
           Sound(t)', (slot # NoSlot => ~compacting)', WaitsForTask',
           \A r \in Runs : run'[r].status = "running" =>
               Owns(t, r)' \/ (run[r].status = "running" /\ ~Owns(t, r))
    PROVE  RegistryInv'
<1>1. \A u \in Threads : Sound(u)'
  BY OthersSound
<1>2. RunningIsOwned'
  <2> SUFFICES ASSUME NEW r \in Runs, run'[r].status = "running", ~Owns(t, r)'
               PROVE  \E u \in Threads : Owns(u, r)'
    BY DEF RunningIsOwned, Owns
  <2>1. PICK u \in Threads : Owns(u, r)
    BY DEF RegistryInv, RunningIsOwned, Owns
  <2>2. u # t
    BY <2>1
  <2>3. Owns(u, r)'
    BY <2>1, <2>2 DEF Alike, Owns
  <2> QED
    BY <2>3
<1> QED
  BY <1>1, <1>2 DEF RegistryInv

-----------------------------------------------------------------------------
(* Rows stand: no step but an insertion makes one, and no step changes the *)
(* status of one that ended.                                               *)

EndsStand == \A r \in Runs : run[r].status \in Terminal => run'[r].status = run[r].status

RowsStand == EndsStand /\ \A r \in Runs : run'[r].status = "none" <=> run[r].status = "none"

NobodyEnters == \A u \in Threads : thread'[u].pc = "preempt" => thread[u].pc = "preempt"

LEMMA RoomStays ==
    ASSUME Room, RowsStand, NobodyEnters
    PROVE  Room' /\ EndsStand
<1>1. Rows' = Rows
  BY DEF Rows, RowsStand
<1>2. Preempting' \subseteq Preempting
  BY DEF Preempting, NobodyEnters
<1>3. /\ IsFiniteSet(Preempting') /\ Cardinality(Preempting') <= Cardinality(Preempting)
      /\ Cardinality(Preempting) \in Nat /\ Cardinality(Preempting') \in Nat
  BY <1>2, FS_Subset, FS_CardinalityType DEF Room
<1>4. Cardinality(Rows) \in Nat
  BY RunsFinite, FS_Subset, FS_CardinalityType DEF Rows
<1> QED
  BY <1>1, <1>3, <1>4, RunsFinite DEF Room, RowsStand

LEMMA RoomInserts ==
    ASSUME Types, Room, NEW g \in Nat, Insert(NewRow, g), NewRow \in Runs, NewRow \notin Rows,
           \/ RowsLeft /\ NobodyEnters
           \/ \E t \in Threads : thread[t].pc = "preempt" /\ Preempting' = Preempting \ {t}
    PROVE  Room' /\ EndsStand
<1>1. Cardinality(Rows) \in Nat /\ IsFiniteSet(Rows)
  BY RunsFinite, FS_Subset, FS_CardinalityType DEF Rows
<1>2. ASSUME NEW r \in Runs
      PROVE  run'[r].status = IF r = NewRow THEN "pending" ELSE run[r].status
  BY DEF Insert, Types, RowsOf
<1>3. Rows' = Rows \cup {NewRow}
  BY <1>2 DEF Rows
<1>4. Cardinality(Rows') = Cardinality(Rows) + 1
  BY <1>1, <1>3, FS_AddElement
<1>5. Rows' = 1 .. Cardinality(Rows')
  BY <1>1, <1>3, <1>4 DEF Room, NewRow
<1>6. EndsStand
  <2>1. run[NewRow].status = "none"
    BY DEF Rows
  <2> QED
    BY <1>2, <2>1 DEF EndsStand, Terminal
<1>7. CASE RowsLeft /\ NobodyEnters
  <2>1. Preempting' \subseteq Preempting
    BY <1>7 DEF Preempting, NobodyEnters
  <2>2. /\ IsFiniteSet(Preempting') /\ Cardinality(Preempting') <= Cardinality(Preempting)
        /\ Cardinality(Preempting) \in Nat /\ Cardinality(Preempting') \in Nat
    BY <2>1, FS_Subset, FS_CardinalityType DEF Room
  <2>3. Cardinality(Rows) + Cardinality(Preempting) < MaxRuns
    BY <1>7 DEF RowsLeft, RowsMade, Preempting
  <2> QED
    BY <1>1, <1>4, <1>5, <1>6, <2>2, <2>3, RunsFinite DEF Room
<1>8. CASE \E t \in Threads : thread[t].pc = "preempt" /\ Preempting' = Preempting \ {t}
  <2>1. PICK t \in Preempting : Preempting' = Preempting \ {t}
    BY <1>8 DEF Preempting
  <2>2. IsFiniteSet(Preempting') /\ Cardinality(Preempting') = Cardinality(Preempting) - 1
    BY <2>1, FS_RemoveElement DEF Room
  <2>3. Cardinality(Preempting) \in Nat
    BY FS_CardinalityType DEF Room
  <2> QED
    BY <1>1, <1>4, <1>5, <1>6, <2>2, <2>3, RunsFinite DEF Room
<1> QED
  BY <1>7, <1>8

-----------------------------------------------------------------------------
(* The records goroutines move by, and the updates of rows.                *)

LEMMA Moved ==
    ASSUME NEW h \in Goroutines, NEW p \in Quiet \cup Holding
    PROVE  LET g == [h EXCEPT !.pc = p] IN
           /\ g \in Goroutines /\ g.pc = p
           /\ \A f \in {"run", "next", "count", "result"} : g[f] = h[f]
BY DEF Goroutines

LEMMA FinishTyped ==
    ASSUME NEW h \in Goroutines, NEW t \in Threads, thread[t] = h
    PROVE  /\ Finish(t) \in Goroutines /\ Finish(t).pc \in {"idle", "register", "compact"}
           /\ Finish(t).pc = "register" => Finish(t).run \in Runs
<1>1. h.next \in MaybeRuns
  BY DEF Goroutines
<1>2. CASE h.next = None
  <2> DEFINE g == [Idle EXCEPT !.pc = "compact"]
  <2>1. g \in Goroutines /\ g.pc = "compact"
    BY IdleIsQuiet, Moved DEF Quiet
  <2>2. Finish(t) \in {g, Idle}
    BY <1>2 DEF Finish, Successor
  <2> HIDE DEF g
  <2> QED
    BY <2>1, <2>2, IdleIsQuiet
<1>3. CASE h.next # None
  <2> DEFINE g == [Idle EXCEPT !.pc = "register", !.run = h.next]
  <2>1. g \in Goroutines /\ g.pc = "register" /\ g.run = h.next
    BY <1>1, IdleIsQuiet DEF Goroutines, Quiet
  <2>2. Finish(t) = g
    BY <1>3 DEF Finish, Successor
  <2>3. h.next \in Runs
    BY <1>1, <1>3 DEF MaybeRuns
  <2> HIDE DEF g
  <2> QED
    BY <2>1, <2>2, <2>3
<1> QED
  BY <1>2, <1>3

LEMMA Settled ==
    ASSUME RegistryInv, NEW r, NEW n
    PROVE  /\ \A s \in {"error", "interrupted", "superseded"} : CompleteRun(r, s) =>
                 /\ run' \in [Runs -> RowsOf] /\ RowsSettle /\ RowsStand
                 /\ r \in Runs => run'[r].status # "running"
           /\ CancelContinuationRun(r, n) => run' \in [Runs -> RowsOf] /\ RowsSettle /\ RowsStand
           /\ UNCHANGED run => run' \in [Runs -> RowsOf] /\ RowsSettle /\ RowsStand
<1> USE DEF RegistryInv, Types, RowsOf, RowsSettle, RowsStand, EndsStand
<1>1. ASSUME NEW s \in {"error", "interrupted", "superseded"}, CompleteRun(r, s)
      PROVE  run' \in [Runs -> RowsOf] /\ RowsSettle /\ RowsStand /\ (r \in Runs => run'[r].status # "running")
  <2>1. /\ "running" \in Completable[s] /\ s \in Statuses /\ s \notin {"running", "none"}
        /\ "none" \notin Completable[s] /\ Completable[s] \cap Terminal = {}
    <3>1. Completable[s] \in {Recoverable, Recoverable \cup {Parked}}
      <4>1. CASE s = "error"
        BY <4>1 DEF Completable
      <4>2. CASE s = "interrupted"
        BY <4>2 DEF Completable
      <4>3. CASE s = "superseded"
        BY <4>3 DEF Completable
      <4> QED
        BY <4>1, <4>2, <4>3
    <3>2. s \in Statuses /\ s \notin {"running", "none"}
      BY DEF Statuses, Terminal
    <3> QED
      BY ONLY <3>1, <3>2 DEF Recoverable, Terminal
  <2>2. ASSUME NEW q \in Runs
        PROVE  /\ run'[q] \in RowsOf
               /\ run'[q].status = IF q = r /\ run[q].status \in Completable[s] THEN s ELSE run[q].status
               /\ run'[q].waiting = run[q].waiting /\ run'[q].count = run[q].count
    BY <1>1, <2>1 DEF CompleteRun
  <2>3. run' = [q \in Runs |-> run'[q]]
    BY <1>1 DEF CompleteRun
  <2> HIDE DEF RowsOf
  <2>4. run' \in [Runs -> RowsOf]
    BY <2>2, <2>3
  <2> QED
    BY <2>1, <2>2, <2>4
<1>2. ASSUME CancelContinuationRun(r, n)
      PROVE  run' \in [Runs -> RowsOf] /\ RowsSettle /\ RowsStand
  <2>1. CASE AwaitsAt(r, n)
    <3>1. ASSUME NEW q \in Runs
          PROVE  /\ run'[q] \in RowsOf
                 /\ run'[q].status = IF q = r THEN "interrupted" ELSE run[q].status
                 /\ run'[q].waiting \in {run[q].waiting, FALSE}
                 /\ run'[q].count = run[q].count
      BY <1>2, <2>1 DEF CancelContinuationRun, Statuses, Terminal
    <3>2. run' = [q \in Runs |-> run'[q]]
      BY <1>2, <2>1 DEF CancelContinuationRun
    <3> HIDE DEF RowsOf
    <3>3. run' \in [Runs -> RowsOf]
      BY <3>1, <3>2
    <3>4. r \in Runs => run[r].status \notin Terminal \cup {"none"}
      BY <2>1 DEF AwaitsAt, Terminal
    <3>5. \A q \in Runs : run[q].status \in Terminal \cup {"none"} => run'[q].status = run[q].status
      BY <3>1, <3>4
    <3>6. \A q \in Runs : run'[q].status = "none" => run[q].status = "none"
      BY <3>1
    <3>7. RowsStand
      BY <3>5, <3>6
    <3> QED
      BY <3>1, <3>3, <3>7
  <2>2. CASE ~AwaitsAt(r, n)
    BY <1>2, <2>2 DEF CancelContinuationRun
  <2> QED
    BY <2>1, <2>2
<1> QED
  BY <1>1, <1>2

LEMMA WaitsKept == ASSUME WaitsForTask, RowsSettle PROVE WaitsForTask'
BY DEF WaitsForTask, RowsSettle

\* A goroutine without the slot goes on without it.
LEMMA QuietKeeps ==
    ASSUME RegistryInv, Room', NEW t \in Threads, NEW h \in Goroutines,
           thread' = [thread EXCEPT ![t] = h], thread[t].pc \in Quiet, h.pc \in Quiet,
           run' \in [Runs -> RowsOf], RowsSettle, generation' \in Nat,
           task' \in [Runs -> [Parks -> {"none", "live", "untold", "told"}]], TasksAge,
           slot' \in Registrations, SlotRests, slot = NoSlot => slot' = NoSlot,
           compacting' \in BOOLEAN, compacting' => compacting \/ slot = NoSlot,
           Brings(thread[t])',
           thread[t].pc = "complete" => run'[thread[t].run].status # "running"
    PROVE  RegistryInv'
<1> USE DEF RegistryInv, Types
<1>1. thread'[t] = h /\ \A u \in Threads \ {t} : thread'[u] = thread[u]
  OBVIOUS
<1>2. Types'
  OBVIOUS
<1>3. \A u \in Threads \ {t} : Alike(u)
  BY <1>1 DEF Alike
<1>4. Sound(t)'
  BY <1>1 DEF Sound, Holds, Relies, Holding, Quiet, Executing, Reserving
<1>5. (slot # NoSlot => ~compacting)'
  BY Zenon
<1>6. \A r \in Runs : run'[r].status = "running" => run[r].status = "running" /\ ~Owns(t, r)
  BY DEF RowsSettle, Owns, Executing, Quiet
<1> QED
  BY <1>2, <1>3, <1>4, <1>5, <1>6, StepKeeps, WaitsKept

LEMMA StillKeeps ==
    ASSUME RegistryInv
    PROVE  /\ UNCHANGED slot => slot' \in Registrations /\ SlotRests
           /\ UNCHANGED task => TasksAge /\ task' \in [Runs -> [Parks -> {"none", "live", "untold", "told"}]]
           /\ UNCHANGED run => run' \in [Runs -> RowsOf] /\ RowsSettle /\ RowsStand
BY DEF RegistryInv, Types, SlotRests, TasksAge, RowsSettle, RowsStand, EndsStand, Ended

\* Most steps of such a goroutine touch rows only.
LEMMA CalmKeeps ==
    ASSUME RegistryInv, NEW t \in Threads, NEW h \in Goroutines,
           thread' = [thread EXCEPT ![t] = h], thread[t].pc \in Quiet, h.pc \in Quiet,
           h.pc = "preempt" => thread[t].pc = "preempt",
           run' \in [Runs -> RowsOf], RowsSettle, RowsStand, generation' \in Nat, UNCHANGED <<task, slot, compacting>>,
           Brings(thread[t])',
           thread[t].pc = "complete" => run'[thread[t].run].status # "running"
    PROVE  RegistryInv' /\ EndsStand
<1>2. compacting' \in BOOLEAN
  BY DEF RegistryInv, Types
<1>3. /\ slot' \in Registrations /\ SlotRests /\ TasksAge
      /\ task' \in [Runs -> [Parks -> {"none", "live", "untold", "told"}]]
  BY StillKeeps
<1>4. Room' /\ EndsStand
  <2>1. NobodyEnters
    BY DEF NobodyEnters, RegistryInv, Types
  <2> QED
    BY <2>1, RoomStays DEF RegistryInv
<1> QED
  BY <1>2, <1>3, <1>4, QuietKeeps

-----------------------------------------------------------------------------
(* Requests.                                                               *)

LEMMA Inserted ==
    ASSUME RegistryInv, NEW g \in Nat, Insert(NewRow, g)
    PROVE  run' \in [Runs -> RowsOf] /\ RowsSettle
<1>1. ASSUME NEW r \in Runs
      PROVE  /\ run'[r] \in RowsOf /\ run'[r].status \in {run[r].status, "pending"}
             /\ run'[r].waiting = run[r].waiting /\ run'[r].count = run[r].count
  BY DEF RegistryInv, Types, Insert, RowsOf, Statuses
<1>2. run' = [r \in Runs |-> run'[r]]
  BY DEF RegistryInv, Types, Insert
<1>3. run' \in [Runs -> RowsOf]
  BY <1>1, <1>2
<1> QED
  BY <1>1, <1>3 DEF RowsSettle

LEMMA SubmitMessageKeeps ==
    ASSUME RegistryInv, NEW t \in Threads, SubmitMessage(t)
    PROVE  RegistryInv' /\ EndsStand
<1> DEFINE h == [Idle EXCEPT !.pc = "preempt", !.list = Listed]
<1>1. /\ thread \in [Threads -> Goroutines] /\ generation \in Nat /\ Types /\ Room
      /\ compacting \in BOOLEAN
  BY DEF RegistryInv, Types
<1>2. h \in Goroutines /\ h.pc = "preempt"
  BY <1>1, ListsAreTyped, IdleIsQuiet DEF Goroutines, Quiet
<1>3. thread' = [thread EXCEPT ![t] = h] /\ thread[t].pc = "idle" /\ RowsLeft
  BY DEF SubmitMessage
<1>4. Brings(thread[t])'
  BY <1>1, <1>2, <1>3 DEF Brings, WithRun, Holding, Executing, Reserving
<1>5. Rows' = Rows /\ EndsStand
  BY DEF SubmitMessage, Rows, EndsStand
<1> HIDE DEF h
<1>6. Preempting' = Preempting \cup {t} /\ t \notin Preempting
  BY <1>1, <1>2, <1>3 DEF Preempting
<1>7. IsFiniteSet(Preempting') /\ Cardinality(Preempting') = Cardinality(Preempting) + 1
  BY <1>1, <1>6, FS_AddElement DEF Room
<1>8. Cardinality(Rows) \in Nat /\ Cardinality(Preempting) \in Nat
  BY <1>1, RunsFinite, FS_Subset, FS_CardinalityType DEF Rows, Room
<1>9. Room'
  BY <1>1, <1>3, <1>5, <1>7, <1>8, RunsFinite DEF Room, RowsLeft, RowsMade, Preempting
<1>10. UNCHANGED <<run, generation, task, slot, compacting>>
  BY DEF SubmitMessage
<1> QED
  BY <1>1, <1>2, <1>3, <1>4, <1>5, <1>9, <1>10, QuietKeeps, StillKeeps DEF Quiet

LEMMA PreemptKeeps ==
    ASSUME RegistryInv, NEW t \in Threads, Preempt(t)
    PROVE  RegistryInv' /\ EndsStand
<1>1. thread \in [Threads -> Goroutines] /\ thread[t] \in Goroutines /\ generation \in Nat
  BY DEF RegistryInv, Types
<1>2. PICK x \in thread[t].list :
        /\ CancelContinuationRun(x[1], x[2])
        /\ IF AwaitsAt(x[1], x[2]) THEN thread' = [thread EXCEPT ![t].list = @ \ {x}] ELSE Return(t)
  BY DEF Preempt
<1>3. run' \in [Runs -> RowsOf] /\ RowsSettle /\ RowsStand
  BY <1>2, Settled
<1> DEFINE h == [thread[t] EXCEPT !.list = @ \ {x}]
<1>4. h \in Goroutines /\ h.pc = "preempt" /\ thread[t].pc = "preempt"
  BY <1>1 DEF Goroutines, Preempt
<1>5. \E k \in {h, Idle} : thread' = [thread EXCEPT ![t] = k]
  BY <1>1, <1>2 DEF Return
<1>6. Brings(thread[t])'
  BY <1>1, <1>4, <1>5, IdleIsQuiet DEF Brings, WithRun, Holding, Executing, Reserving
<1>7. UNCHANGED <<generation, task, slot, compacting>>
  BY DEF Preempt
<1> HIDE DEF h
<1> QED
  BY <1>1, <1>3, <1>4, <1>5, <1>6, <1>7, IdleIsQuiet, CalmKeeps DEF Quiet

LEMMA CreateRunKeeps ==
    ASSUME RegistryInv, NEW t \in Threads, CreateRun(t)
    PROVE  RegistryInv' /\ EndsStand
<1> DEFINE h == [thread[t] EXCEPT !.pc = "register", !.run = NewRow]
<1>1. /\ thread \in [Threads -> Goroutines] /\ thread[t] \in Goroutines /\ generation \in Nat
      /\ generation + 1 \in Nat /\ Types /\ Room /\ compacting \in BOOLEAN
  BY DEF RegistryInv, Types
<1>2. thread[t].pc = "preempt" /\ NewRow \in Runs /\ NewRow \notin Rows
  BY <1>1, NewRowIsFree DEF CreateRun
<1>3. h \in Goroutines /\ h.pc = "register" /\ h.run = NewRow
  BY <1>1, <1>2 DEF Goroutines, Quiet, MaybeRuns
<1>4. thread' = [thread EXCEPT ![t] = h]
  BY <1>1 DEF CreateRun
<1>5. run' \in [Runs -> RowsOf] /\ RowsSettle /\ Insert(NewRow, generation + 1)
  BY <1>1, Inserted DEF CreateRun
<1>6. Brings(thread[t])'
  BY <1>1, <1>2, <1>3, <1>4 DEF Brings
<1> HIDE DEF h
<1>7. Preempting' = Preempting \ {t}
  BY <1>1, <1>2, <1>3, <1>4 DEF Preempting
<1>8. Room' /\ EndsStand
  BY <1>1, <1>2, <1>5, <1>7, RoomInserts
<1>9. generation' \in Nat /\ UNCHANGED <<task, slot, compacting>>
  BY <1>1 DEF CreateRun
<1> QED
  BY <1>1, <1>2, <1>3, <1>4, <1>5, <1>6, <1>8, <1>9, QuietKeeps, StillKeeps DEF Quiet

LEMMA SubmitCorrectionKeeps ==
    ASSUME RegistryInv, NEW t \in Threads, SubmitCorrection(t)
    PROVE  RegistryInv' /\ EndsStand
<1> DEFINE h == [Idle EXCEPT !.pc = "bind", !.run = NewRow]
<1>1. /\ thread \in [Threads -> Goroutines] /\ generation \in Nat /\ Types /\ Room
      /\ compacting \in BOOLEAN
  BY DEF RegistryInv, Types
<1>2. thread[t].pc = "idle" /\ RowsLeft /\ NewRow \in Runs /\ NewRow \notin Rows
  BY <1>1, NewRowIsFree DEF SubmitCorrection
<1>3. h \in Goroutines /\ h.pc = "bind" /\ h.run = NewRow
  BY <1>2, IdleIsQuiet DEF Goroutines, Quiet, MaybeRuns
<1>4. thread' = [thread EXCEPT ![t] = h] /\ UNCHANGED <<generation, task, slot, compacting>>
  BY DEF SubmitCorrection
<1>5. run' \in [Runs -> RowsOf] /\ RowsSettle /\ Insert(NewRow, 0)
  BY <1>1, Inserted DEF SubmitCorrection
<1>6. Brings(thread[t])'
  BY <1>1, <1>2, <1>3, <1>4 DEF Brings
<1> HIDE DEF h
<1>7. NobodyEnters
  BY <1>1, <1>3, <1>4 DEF NobodyEnters
<1>8. Room' /\ EndsStand
  BY <1>1, <1>2, <1>5, <1>7, RoomInserts
<1> QED
  BY <1>1, <1>2, <1>3, <1>4, <1>5, <1>6, <1>8, QuietKeeps, StillKeeps DEF Quiet

LEMMA BindKeeps ==
    ASSUME RegistryInv, NEW t \in Threads, BindPendingCorrectionRun(t)
    PROVE  RegistryInv' /\ EndsStand
<1> DEFINE h == [thread[t] EXCEPT !.pc = "register"]
<1>1. /\ thread \in [Threads -> Goroutines] /\ thread[t] \in Goroutines /\ generation + 1 \in Nat
      /\ Types /\ thread[t].run \in Runs
  BY DEF RegistryInv, Types, BindPendingCorrectionRun, Sound, Brings, WithRun
<1>2. h \in Goroutines /\ h.pc = "register" /\ h.run = thread[t].run /\ thread' = [thread EXCEPT ![t] = h]
  BY <1>1, Moved DEF BindPendingCorrectionRun, Become, Quiet
<1>3. ASSUME NEW r \in Runs
      PROVE  run'[r] \in RowsOf /\ \A f \in {"status", "waiting", "count"} : run'[r][f] = run[r][f]
  BY <1>1 DEF BindPendingCorrectionRun, Types, RowsOf
<1>4. run' = [r \in Runs |-> run'[r]]
  BY <1>1 DEF BindPendingCorrectionRun, Types
<1>5. run' \in [Runs -> RowsOf]
  BY <1>3, <1>4
<1>6. RowsSettle /\ RowsStand
  BY <1>3 DEF RowsSettle, RowsStand, EndsStand
<1>7. Brings(thread[t])'
  BY <1>1, <1>2 DEF Brings
<1>8. /\ thread[t].pc = "bind" /\ generation' \in Nat /\ UNCHANGED <<task, slot, compacting>>
  BY <1>1 DEF BindPendingCorrectionRun
<1> HIDE DEF h
<1> QED
  BY <1>2, <1>5, <1>6, <1>7, <1>8, CalmKeeps DEF Quiet

-----------------------------------------------------------------------------
(* Registration without the slot, and what ends it.                        *)

LEMMA FailedRegistration ==
    ASSUME RegistryInv, NEW t \in Threads, thread[t].pc = "register",
           thread' = [thread EXCEPT ![t].pc = "complete", ![t].result = "error"],
           UNCHANGED <<run, generation, task, slot, compacting>>
    PROVE  RegistryInv' /\ EndsStand
<1> DEFINE h == [thread[t] EXCEPT !.pc = "complete", !.result = "error"]
<1>1. /\ thread \in [Threads -> Goroutines] /\ thread[t] \in Goroutines /\ generation \in Nat
      /\ thread[t].run \in Runs
  BY DEF RegistryInv, Types, Sound, Brings, WithRun
<1>2. h \in Goroutines /\ h.pc = "complete" /\ h.result = "error" /\ h.run \in Runs
  BY <1>1 DEF Goroutines, Quiet, Results
<1>3. thread' = [thread EXCEPT ![t] = h]
  BY <1>1
<1>4. Brings(thread[t])'
  BY <1>1, <1>2, <1>3 DEF Brings
<1> HIDE DEF h
<1> QED
  BY <1>1, <1>2, <1>3, <1>4, CalmKeeps, StillKeeps DEF Quiet

LEMMA QueuedKeeps ==
    ASSUME RegistryInv, NEW t \in Threads, RegisterQueued(t)
    PROVE  RegistryInv' /\ EndsStand
<1> DEFINE replaced == IF slot.next = thread[t].run THEN None ELSE slot.next
           victim == IF slot.live THEN slot.owner ELSE NoThread
           g == [Idle EXCEPT !.pc = "supersede", !.run = replaced, !.target = victim]
           h == [Idle EXCEPT !.pc = "cancel", !.target = victim]
<1>1. /\ thread \in [Threads -> Goroutines] /\ thread[t] \in Goroutines /\ generation \in Nat
      /\ slot \in Registrations /\ compacting \in BOOLEAN
  BY DEF RegistryInv, Types
<1>2. replaced \in MaybeRuns /\ victim \in Threads \cup {NoThread} /\ thread[t].run \in MaybeRuns
  BY <1>1 DEF Registrations, Goroutines, MaybeRuns
<1> HIDE DEF replaced, victim
<1>3. g \in Goroutines /\ g.pc = "supersede" /\ g.run = replaced /\ h \in Goroutines /\ h.pc = "cancel"
  BY <1>2, IdleIsQuiet DEF Goroutines, Quiet
<1>4. slot' \in Registrations /\ SlotRests
  BY <1>1, <1>2 DEF RegisterQueued, Registrations, SlotRests
<1>5. \/ replaced # None /\ thread' = [thread EXCEPT ![t] = g]
      \/ thread' = [thread EXCEPT ![t] = h]
  BY DEF RegisterQueued, replaced, victim
<1>6. /\ thread[t].pc = "register" /\ slot # NoSlot
      /\ UNCHANGED <<run, generation, task, compacting>>
  BY DEF RegisterQueued
<1>7. Brings(thread[t])'
  BY <1>1, <1>2, <1>3, <1>5 DEF Brings, WithRun, Holding, Executing, Reserving, MaybeRuns
<1> HIDE DEF g, h
<1>8. NobodyEnters
  BY <1>1, <1>3, <1>5 DEF NobodyEnters
<1>9. Room' /\ EndsStand
  BY <1>6, <1>8, StillKeeps, RoomStays DEF RegistryInv
<1>10. SUFFICES ASSUME NEW k \in {g, h}, thread' = [thread EXCEPT ![t] = k]
                PROVE  RegistryInv' /\ EndsStand
  BY <1>5
<1> QED
  BY <1>1, <1>3, <1>4, <1>6, <1>7, <1>9, <1>10, QuietKeeps, StillKeeps DEF Quiet

LEMMA SupersedeKeeps ==
    ASSUME RegistryInv, NEW t \in Threads, Supersede(t)
    PROVE  RegistryInv' /\ EndsStand
<1> DEFINE h == [thread[t] EXCEPT !.pc = "cancel"]
<1>1. thread \in [Threads -> Goroutines] /\ thread[t] \in Goroutines /\ generation \in Nat
  BY DEF RegistryInv, Types
<1>2. h \in Goroutines /\ h.pc = "cancel" /\ thread' = [thread EXCEPT ![t] = h]
  BY <1>1, Moved DEF Supersede, Become, Quiet
<1>4. Brings(thread[t])'
  BY <1>1, <1>2 DEF Brings, WithRun, Holding, Executing, Reserving
<1> HIDE DEF h
<1>3. run' \in [Runs -> RowsOf] /\ RowsSettle /\ RowsStand
  BY Settled DEF Supersede
<1> QED
  BY <1>1, <1>2, <1>3, <1>4, CalmKeeps DEF Supersede, Quiet

LEMMA CompleteKeeps ==
    ASSUME RegistryInv, NEW t \in Threads, Complete(t)
    PROVE  RegistryInv' /\ EndsStand
<1>1. thread \in [Threads -> Goroutines] /\ thread[t] \in Goroutines /\ generation \in Nat
  BY DEF RegistryInv, Types
<1>2. Finish(t) \in Goroutines /\ Finish(t).pc \in {"idle", "register", "compact"} /\ Brings(thread[t])'
  BY <1>1, FinishTyped DEF Brings, WithRun, Holding, Executing, Reserving, Complete
<1>3. thread[t].result \in {"error", "interrupted", "superseded"} /\ thread[t].run \in Runs
  BY DEF Complete, RegistryInv, Sound, Brings, WithRun
<1>4. /\ run' \in [Runs -> RowsOf] /\ RowsSettle /\ RowsStand
      /\ run'[thread[t].run].status # "running"
  BY <1>3, Settled DEF Complete
<1> QED
  BY <1>1, <1>2, <1>4, CalmKeeps DEF Complete, Quiet

-----------------------------------------------------------------------------
(* Waking: a goroutine that is about to reserve the slot knows its task.   *)

LEMMA HookKeeps ==
    ASSUME RegistryInv, NEW t \in Threads, NEW r \in Runs, NEW n \in Parks, TerminalHook(t, r, n)
    PROVE  RegistryInv' /\ EndsStand
<1> DEFINE h == [Idle EXCEPT !.pc = "check", !.run = r, !.count = n]
<1>1. /\ thread \in [Threads -> Goroutines] /\ generation \in Nat /\ compacting \in BOOLEAN
      /\ task \in [Runs -> [Parks -> {"none", "live", "untold", "told"}]]
  BY DEF RegistryInv, Types
<1>2. r \in MaybeRuns /\ n \in Nat
  BY DEF MaybeRuns, Parks
<1>3. h \in Goroutines /\ h.pc = "check" /\ h.run = r
  BY <1>2, IdleIsQuiet DEF Goroutines, Quiet
<1>4. task' \in [Runs -> [Parks -> {"none", "live", "untold", "told"}]] /\ TasksAge
  BY <1>1 DEF TerminalHook, TasksAge, Ended
<1>6. /\ thread' = [thread EXCEPT ![t] = h] /\ thread[t].pc = "idle"
      /\ UNCHANGED <<run, generation, slot, compacting>>
  BY DEF TerminalHook
<1>5. Brings(thread[t])'
  BY <1>1, <1>3, <1>6 DEF Brings
<1> HIDE DEF h
<1>7. NobodyEnters
  BY <1>1, <1>3, <1>6 DEF NobodyEnters
<1>8. Room' /\ EndsStand
  BY <1>6, <1>7, StillKeeps, RoomStays DEF RegistryInv
<1> QED
  BY <1>1, <1>3, <1>4, <1>5, <1>6, <1>8, QuietKeeps, StillKeeps DEF Quiet

LEMMA CheckKeeps ==
    ASSUME RegistryInv, NEW t \in Threads, Check(t)
    PROVE  RegistryInv' /\ EndsStand
<1> DEFINE r == thread[t].run
           h == [thread[t] EXCEPT !.pc = "reserve", !.count = run[r].count]
<1>1. /\ thread \in [Threads -> Goroutines] /\ thread[t] \in Goroutines /\ generation \in Nat
      /\ r \in Runs /\ run[r].count \in Nat
  BY DEF RegistryInv, Types, Check, Sound, Brings, WithRun, RowsOf
<1>2. CASE /\ Ended(r, run[r].count)
           /\ thread' = [thread EXCEPT ![t].pc = "reserve", ![t].count = run[r].count]
           /\ UNCHANGED run
  <2>1. h \in Goroutines /\ h.pc = "reserve" /\ h.run = r /\ h.count = run[r].count
    BY <1>1 DEF Goroutines, Quiet
  <2>2. thread' = [thread EXCEPT ![t] = h]
    BY <1>1, <1>2
  <2>3. Brings(thread[t])'
    BY <1>1, <1>2, <2>1, <2>2 DEF Brings, Check, Ended
  <2> HIDE DEF h
  <2> QED
    BY <1>1, <1>2, <2>1, <2>2, <2>3, CalmKeeps, StillKeeps DEF Check, Quiet
<1>3. CASE /\ thread' = [thread EXCEPT ![t] = Finish(t)]
           /\ CancelContinuationRun(r, run[r].count) \/ UNCHANGED run
  <2>1. Finish(t) \in Goroutines /\ Finish(t).pc \in {"idle", "register", "compact"} /\ Brings(thread[t])'
    BY <1>1, <1>3, FinishTyped DEF Brings, WithRun, Holding, Executing, Reserving
  <2>2. run' \in [Runs -> RowsOf] /\ RowsSettle /\ RowsStand
    BY <1>3, Settled
  <2> QED
    BY <1>1, <1>3, <2>1, <2>2, CalmKeeps DEF Check, Quiet
<1> QED
  BY <1>2, <1>3 DEF Check

-----------------------------------------------------------------------------
(* Compaction, Interrupt and the reaper work beside the slot.              *)

\* A step to a record that brings nothing along and leaves every row settled.
LEMMA AsideKeeps ==
    ASSUME RegistryInv, NEW t \in Threads, NEW h \in Goroutines,
           thread' = [thread EXCEPT ![t] = h], thread[t].pc \in Quiet \ {"complete"},
           h.pc \in Quiet \ {"preempt", "complete", "reserve"}, h.pc \in WithRun => h.run \in Runs,
           run' \in [Runs -> RowsOf], RowsSettle, RowsStand, generation' = generation,
           task' \in [Runs -> [Parks -> {"none", "live", "untold", "told"}]], TasksAge,
           slot' \in Registrations, SlotRests, slot = NoSlot => slot' = NoSlot,
           compacting' \in BOOLEAN, compacting' => compacting \/ slot = NoSlot
    PROVE  RegistryInv' /\ EndsStand
<1>1. thread \in [Threads -> Goroutines] /\ generation \in Nat /\ Room
  BY DEF RegistryInv, Types
<1>2. NobodyEnters
  BY <1>1 DEF NobodyEnters
<1>3. Room' /\ EndsStand
  BY <1>1, <1>2, RoomStays
<1>4. Brings(thread[t])'
  BY <1>1 DEF Brings, Quiet
<1> QED
  BY <1>1, <1>3, <1>4, QuietKeeps

LEMMA CompactionKeeps ==
    ASSUME RegistryInv, NEW t \in Threads, CompactBackground(t) \/ CompactManual(t) \/ CompactEnd(t)
    PROVE  RegistryInv' /\ EndsStand
<1> DEFINE h == [thread[t] EXCEPT !.pc = "compacting"]
<1>1. thread \in [Threads -> Goroutines] /\ thread[t] \in Goroutines /\ compacting \in BOOLEAN
  BY DEF RegistryInv, Types
<1>2. h \in Goroutines /\ h.pc = "compacting"
  BY <1>1, Moved DEF Quiet
<1>3. \E k \in {h, Idle} : thread' = [thread EXCEPT ![t] = k]
  BY <1>1 DEF CompactBackground, CompactManual, CompactEnd, Become, Return
<1>4. /\ thread[t].pc \in {"compact", "idle", "compacting"}
      /\ compacting' \in BOOLEAN /\ (compacting' => compacting \/ slot = NoSlot)
      /\ UNCHANGED <<run, generation, task, slot>>
  BY <1>1 DEF CompactBackground, CompactManual, CompactEnd, Compactable
<1> HIDE DEF h
<1> QED
  BY <1>2, <1>3, <1>4, IdleIsQuiet, AsideKeeps, StillKeeps DEF Quiet, WithRun, Holding, Executing, Reserving

LEMMA InterruptKeeps ==
    ASSUME RegistryInv, NEW t \in Threads, Interrupt(t)
    PROVE  RegistryInv' /\ EndsStand
<1> DEFINE p == IF slot.next = None THEN "stoptasks" ELSE "stopnext"
           a == IF slot.live THEN "cancel" ELSE "none"
           victim == IF slot.live THEN slot.owner ELSE NoThread
           found == ParkedRows \cup ({slot.run} \ {None})
           h == [Idle EXCEPT !.pc = p, !.run = slot.next, !.after = a, !.target = victim, !.stop = found]
<1>1. slot \in Registrations /\ compacting \in BOOLEAN
  BY DEF RegistryInv, Types
<1>2. /\ slot.next \in MaybeRuns /\ slot.run \in MaybeRuns /\ victim \in Threads \cup {NoThread}
  BY <1>1 DEF Registrations
<1>3. found \subseteq Runs
  BY <1>2 DEF ParkedRows, MaybeRuns
<1>4. p \in {"stoptasks", "stopnext"} /\ (p = "stopnext" => slot.next \in Runs) /\ a \in {"none", "cancel"}
  BY <1>2 DEF MaybeRuns
<1>5. thread[t].pc = "idle" /\ thread' = [thread EXCEPT ![t] = h] /\ UNCHANGED <<run, generation, task, compacting>>
  BY DEF Interrupt
<1>6. slot' \in Registrations /\ SlotRests /\ (slot = NoSlot => slot' = NoSlot)
  <2>1. CASE slot = NoSlot
    BY <1>1, <2>1 DEF Interrupt, SlotRests
  <2>2. CASE slot # NoSlot
    BY <1>1, <2>2 DEF Interrupt, SlotRests, Registrations, MaybeRuns
  <2> QED
    BY <2>1, <2>2
<1> HIDE DEF p, a, victim, found
<1>7. h \in Goroutines /\ h.pc = p /\ h.run = slot.next
  BY <1>2, <1>3, <1>4, IdleIsQuiet DEF Goroutines, Quiet
<1> HIDE DEF h
<1>8. h.pc \in Quiet \ {"preempt", "complete", "reserve"} /\ (h.pc \in WithRun => h.run \in Runs)
  BY <1>4, <1>7 DEF Quiet, WithRun, Holding, Executing, Reserving
<1> QED
  BY <1>1, <1>5, <1>6, <1>7, <1>8, AsideKeeps, StillKeeps DEF Quiet

LEMMA StopKeeps ==
    ASSUME RegistryInv, NEW t \in Threads,
           \/ StopNext(t) \/ StopTasks(t) \/ StopList(t) \/ StopParked(t) \/ StopDone(t)
    PROVE  RegistryInv' /\ EndsStand
<1> USE DEF Quiet, WithRun, Holding, Executing, Reserving
<1>1. /\ thread \in [Threads -> Goroutines] /\ thread[t] \in Goroutines /\ compacting \in BOOLEAN /\ Types
      /\ task \in [Runs -> [Parks -> {"none", "live", "untold", "told"}]]
  BY DEF RegistryInv, Types
<1>2. CASE StopNext(t)
  <2> DEFINE h == [thread[t] EXCEPT !.pc = "stoptasks"]
  <2>1. h \in Goroutines /\ h.pc = "stoptasks" /\ thread' = [thread EXCEPT ![t] = h]
    BY <1>1, <1>2, Moved DEF StopNext, Become
  <2>2. run' \in [Runs -> RowsOf] /\ RowsSettle /\ RowsStand
    BY <1>2, Settled DEF StopNext
  <2> HIDE DEF h
  <2> QED
    BY <1>1, <1>2, <2>1, <2>2, AsideKeeps, StillKeeps DEF StopNext
<1>3. CASE StopTasks(t)
  <2> DEFINE p == IF thread[t].after = "cancel" THEN "cancel" ELSE "stoplist"
             h == [thread[t] EXCEPT !.pc = p]
  <2>1. p \in {"cancel", "stoplist"}
    OBVIOUS
  <2>2. thread' = [thread EXCEPT ![t] = h]
    BY <1>1, <1>3 DEF StopTasks, Become
  <2> HIDE DEF p
  <2>3. h \in Goroutines /\ h.pc = p
    BY <1>1, <2>1, Moved
  <2>4. task' \in [Runs -> [Parks -> {"none", "live", "untold", "told"}]] /\ TasksAge
    BY <1>1, <1>3 DEF StopTasks, TasksAge, Ended
  <2> HIDE DEF h
  <2> QED
    BY <1>1, <1>3, <2>1, <2>2, <2>3, <2>4, AsideKeeps, StillKeeps DEF StopTasks
<1>4. CASE StopList(t)
  <2> DEFINE h == [thread[t] EXCEPT !.pc = "stopparked", !.list = Listed]
  <2>1. h \in Goroutines /\ h.pc = "stopparked"
    BY <1>1, ListsAreTyped DEF Goroutines
  <2>2. thread' = [thread EXCEPT ![t] = h]
    BY <1>1, <1>4 DEF StopList
  <2> HIDE DEF h
  <2> QED
    BY <1>1, <1>4, <2>1, <2>2, AsideKeeps, StillKeeps DEF StopList
<1>5. CASE StopParked(t)
  <2>1. PICK x \in thread[t].list :
          /\ CancelContinuationRun(x[1], x[2])
          /\ IF AwaitsAt(x[1], x[2]) THEN thread' = [thread EXCEPT ![t].list = @ \ {x}] ELSE Return(t)
    BY <1>5 DEF StopParked
  <2> DEFINE h == [thread[t] EXCEPT !.list = @ \ {x}]
  <2>2. h \in Goroutines /\ h.pc = "stopparked"
    BY <1>1, <1>5 DEF Goroutines, StopParked
  <2>3. run' \in [Runs -> RowsOf] /\ RowsSettle /\ RowsStand
    BY <2>1, Settled
  <2>4. \E k \in {h, Idle} : thread' = [thread EXCEPT ![t] = k]
    BY <1>1, <2>1 DEF Return
  <2> HIDE DEF h
  <2> QED
    BY <1>1, <1>5, <2>2, <2>3, <2>4, IdleIsQuiet, AsideKeeps, StillKeeps DEF StopParked
<1>6. CASE StopDone(t)
  BY <1>1, <1>6, IdleIsQuiet, AsideKeeps, StillKeeps DEF StopDone, Return
<1> QED
  BY <1>2, <1>3, <1>4, <1>5, <1>6

LEMMA ReaperKeeps ==
    ASSUME RegistryInv, NEW t \in Threads,
           \/ Reap(t) \/ RunIsAbandoned(t) \/ AbandonStrandedRun(t) \/ Reaped(t)
    PROVE  RegistryInv' /\ EndsStand
<1> USE DEF Quiet, WithRun, Holding, Executing, Reserving
<1>1. /\ thread \in [Threads -> Goroutines] /\ thread[t] \in Goroutines /\ compacting \in BOOLEAN /\ Types
      /\ run \in [Runs -> RowsOf]
  BY DEF RegistryInv, Types
<1>2. CASE Reap(t)
  <2> DEFINE h == [Idle EXCEPT !.pc = "reap", !.list = Stale]
  <2>1. h \in Goroutines /\ h.pc = "reap"
    BY <1>1, ListsAreTyped, IdleIsQuiet DEF Goroutines
  <2> HIDE DEF h
  <2> QED
    BY <1>1, <1>2, <2>1, AsideKeeps, StillKeeps DEF Reap, h
<1>3. CASE RunIsAbandoned(t)
  <2>1. PICK x \in thread[t].list :
          \E k \in {[Idle EXCEPT !.pc = "reap", !.list = thread[t].list \ {x}],
                    [Idle EXCEPT !.pc = "abandon", !.run = x[1], !.list = thread[t].list \ {x}]} :
            thread' = [thread EXCEPT ![t] = k]
    BY <1>3 DEF RunIsAbandoned
  <2> DEFINE g == [Idle EXCEPT !.pc = "reap", !.list = thread[t].list \ {x}]
             h == [Idle EXCEPT !.pc = "abandon", !.run = x[1], !.list = thread[t].list \ {x}]
  <2>2. thread[t].list \in SUBSET (Runs \X Nat) /\ x[1] \in Runs
    BY <1>1 DEF Goroutines
  <2>3. /\ g \in Goroutines /\ g.pc = "reap"
        /\ h \in Goroutines /\ h.pc = "abandon" /\ h.run \in Runs
    BY <2>2, IdleIsQuiet DEF Goroutines, MaybeRuns
  <2>4. \E k \in {g, h} : thread' = [thread EXCEPT ![t] = k]
    BY <2>1
  <2> HIDE DEF g, h
  <2> QED
    BY <1>1, <1>3, <2>3, <2>4, AsideKeeps, StillKeeps DEF RunIsAbandoned
<1>4. CASE AbandonStrandedRun(t)
  <2> DEFINE h == [thread[t] EXCEPT !.pc = "reap", !.run = None]
             r == thread[t].run
  <2>1. h \in Goroutines /\ h.pc = "reap"
    BY <1>1 DEF Goroutines, MaybeRuns
  <2>2. thread' = [thread EXCEPT ![t] = h] /\ thread[t].pc = "abandon"
    BY <1>1, <1>4 DEF AbandonStrandedRun
  <2>3. r \in Runs
    BY <2>2 DEF RegistryInv, Sound, Brings
  <2>4. ASSUME NEW q \in Runs
        PROVE  /\ run'[q] \in RowsOf
               /\ run'[q].status =
                    IF q = r /\ run[q].status \in Recoverable THEN "interrupted" ELSE run[q].status
               /\ run'[q].waiting = run[q].waiting /\ run'[q].count = run[q].count
    BY <1>1, <1>4, <2>3 DEF AbandonStrandedRun, RowsOf, Statuses, Terminal
  <2>5. run' = [q \in Runs |-> run'[q]]
    BY <1>1, <1>4 DEF AbandonStrandedRun
  <2>6. run' \in [Runs -> RowsOf]
    BY <2>4, <2>5
  <2>7. RowsSettle /\ RowsStand
    BY <2>4 DEF RowsSettle, RowsStand, EndsStand, Recoverable, Terminal
  <2> HIDE DEF h
  <2> QED
    BY <1>1, <1>4, <2>1, <2>2, <2>6, <2>7, AsideKeeps, StillKeeps DEF AbandonStrandedRun
<1>5. CASE Reaped(t)
  BY <1>1, <1>5, IdleIsQuiet, AsideKeeps, StillKeeps DEF Reaped, Return
<1> QED
  BY <1>2, <1>3, <1>4, <1>5

\* A step that touches contexts and targets of others as well.
LEMMA CancelKeeps ==
    ASSUME RegistryInv, NEW t \in Threads, Cancel(t)
    PROVE  RegistryInv' /\ EndsStand
<1>1. /\ thread \in [Threads -> Goroutines] /\ Types /\ Room
  BY DEF RegistryInv, Types
<1>2. UNCHANGED <<run, generation, task, slot, compacting>> /\ thread[t].pc = "cancel"
  BY DEF Cancel
<1>3. ASSUME NEW u \in Threads \ {t}
      PROVE  thread'[u] \in Goroutines /\ Alike(u)
  <2>1. thread[u] \in Goroutines
    BY <1>1
  <2>2. thread'[u] = thread[u] \/ thread'[u] = [thread[u] EXCEPT !.ctx = TRUE]
    BY DEF Cancel
  <2> QED
    BY <2>1, <2>2 DEF Goroutines, Alike
<1>4. thread'[t] = Idle
  BY DEF Cancel
<1>5. thread' \in [Threads -> Goroutines]
  <2>1. thread' = [u \in Threads |-> thread'[u]]
    BY DEF Cancel
  <2> QED
    BY <1>3, <1>4, <2>1, IdleIsQuiet
<1>6. Types'
  BY <1>1, <1>2, <1>5 DEF Types
<1>7. NobodyEnters
  BY <1>3, <1>4, IdleIsQuiet DEF NobodyEnters, Alike
<1>8. Room' /\ EndsStand /\ SlotRests /\ RowsSettle /\ TasksAge
  BY <1>1, <1>2, <1>7, RoomStays, StillKeeps
<1>9. Sound(t)'
  BY <1>4, IdleIsQuiet DEF Sound, Holds, Relies, Brings, WithRun, Holding, Executing, Reserving
<1>10. (slot # NoSlot => ~compacting)' /\ WaitsForTask'
  BY <1>2 DEF RegistryInv, WaitsForTask
<1>11. \A r \in Runs : run'[r].status = "running" => run[r].status = "running" /\ ~Owns(t, r)
  BY <1>2 DEF Owns, Executing
<1> QED
  BY <1>3, <1>6, <1>8, <1>9, <1>10, <1>11, StepKeeps

-----------------------------------------------------------------------------
(* The holder of the slot.                                                 *)

\* The holder goes on: its own row is the only one that may start to run.
LEMMA HolderKeeps ==
    ASSUME RegistryInv, NEW t \in Threads, NEW h \in Goroutines,
           thread' = [thread EXCEPT ![t] = h], thread[t].pc \in Holding, h.pc \in Holding,
           h.run = thread[t].run, h.pc \in Reserving <=> thread[t].pc \in Reserving, h.pc # "drop",
           thread[t].pc # "casresume", h.pc # "casresume",
           run' \in [Runs -> RowsOf], RowsStand, WaitsForTask', UNCHANGED <<generation, slot, compacting>>,
           task' \in [Runs -> [Parks -> {"none", "live", "untold", "told"}]], TasksAge,
           \A r \in Runs : run'[r].status = "running" => run[r].status = "running" \/ r = h.run,
           Relies(thread[t])'
    PROVE  RegistryInv' /\ EndsStand
<1> USE DEF Holding, Executing, Reserving
<1>1. thread \in [Threads -> Goroutines] /\ Types /\ Room /\ Sound(t)
  BY DEF RegistryInv, Types
<1>2. thread'[t] = h /\ \A u \in Threads \ {t} : thread'[u] = thread[u]
  BY <1>1
<1>3. Types'
  BY <1>1 DEF Types
<1>4. NobodyEnters
  BY <1>2 DEF NobodyEnters
<1>5. Room' /\ EndsStand
  BY <1>1, <1>4, RoomStays
<1>6. Sound(t)'
  BY <1>1, <1>2 DEF Sound, Holds, Brings, WithRun
<1>7. slot.owner = t
  BY <1>1 DEF Sound, Holds
<1>8. (slot # NoSlot => ~compacting)'
  BY DEF RegistryInv
<1>9. \A u \in Threads \ {t} : Alike(u)
  BY <1>2 DEF Alike
<1>10. \A r \in Runs : Owns(t, r) => Owns(t, r)'
  BY <1>2 DEF Owns
<1>11. Owns(t, h.run)'
  BY <1>2 DEF Owns
<1>12. \A r \in Runs : run'[r].status = "running" =>
          Owns(t, r)' \/ (run[r].status = "running" /\ ~Owns(t, r))
  BY <1>10, <1>11
<1> QED
  BY <1>3, <1>5, <1>6, <1>7, <1>8, <1>9, <1>12, StepKeeps

\* Steps of the turn that leave the rows alone.
LEMMA TurnKeeps ==
    ASSUME RegistryInv, NEW t \in Threads, NEW h \in Goroutines,
           thread' = [thread EXCEPT ![t] = h], thread[t].pc \in Executing, h.pc \in Executing \ {"resume"},
           h.run = thread[t].run, UNCHANGED <<run, generation, task, slot, compacting>>,
           h.pc \in {"boundary", "mark"} => h.count + 1 \in Parks,
           h.pc = "leave" => h.result # "none", h.pc = "revalidate" => ~run[h.run].waiting
    PROVE  RegistryInv' /\ EndsStand
<1>1. thread \in [Threads -> Goroutines] /\ thread'[t] = h
  BY DEF RegistryInv, Types
<1>2. Relies(thread[t])'
  BY <1>1 DEF Relies
<1>3. WaitsForTask'
  BY DEF RegistryInv, WaitsForTask
<1>4. \A r \in Runs : run'[r].status = "running" => run[r].status = "running" \/ r = h.run
  OBVIOUS
<1> QED
  BY <1>1, <1>2, <1>3, <1>4, StillKeeps, HolderKeeps DEF Holding, Executing, Reserving

LEMMA FailKeeps ==
    ASSUME RegistryInv, NEW t \in Threads, NEW e \in {"error", "canceled"}, Fail(t, e),
           thread[t].pc \in Executing, UNCHANGED <<run, generation, task, slot, compacting>>
    PROVE  RegistryInv' /\ EndsStand
<1> DEFINE h == [thread[t] EXCEPT !.pc = "leave", !.result = e]
<1>1. thread \in [Threads -> Goroutines] /\ thread[t] \in Goroutines
  BY DEF RegistryInv, Types
<1>2. h \in Goroutines /\ h.pc = "leave" /\ h.result = e /\ h.run = thread[t].run
  BY <1>1 DEF Goroutines, Holding, Executing, Results
<1>3. thread' = [thread EXCEPT ![t] = h]
  BY <1>1 DEF Fail
<1> HIDE DEF h
<1> QED
  BY <1>2, <1>3, TurnKeeps DEF Executing

LEMMA SegmentKeeps ==
    ASSUME RegistryInv, NEW t \in Threads,
           \/ Canceled(t) \/ SegmentComplete(t) \/ SegmentError(t) \/ SegmentContinue(t) \/ Boundary(t)
    PROVE  RegistryInv' /\ EndsStand
<1>1. thread \in [Threads -> Goroutines] /\ thread[t] \in Goroutines /\ Sound(t)
  BY DEF RegistryInv, Types
<1>2. CASE Canceled(t)
  BY <1>2, FailKeeps DEF Canceled, Executing
<1>3. CASE SegmentComplete(t)
  <2> DEFINE h == [thread[t] EXCEPT !.pc = "done"]
  <2>1. h \in Goroutines /\ h.pc = "done" /\ h.run = thread[t].run
    BY <1>1 DEF Goroutines, Holding, Executing
  <2>2. thread' = [thread EXCEPT ![t] = h]
    BY <1>1, <1>3 DEF SegmentComplete, Become
  <2> HIDE DEF h
  <2> QED
    BY <1>3, <2>1, <2>2, TurnKeeps DEF SegmentComplete, Segment, Executing
<1>4. CASE SegmentError(t)
  BY <1>4, FailKeeps DEF SegmentError, Segment, Executing
<1>5. CASE SegmentContinue(t)
  <2> DEFINE w == task[thread[t].run][thread[t].count + 1] # "none"
             h == [thread[t] EXCEPT !.pc = "boundary", !.wait = w]
  <2>1. h \in Goroutines /\ h.pc = "boundary" /\ h.run = thread[t].run /\ h.count = thread[t].count
    BY <1>1 DEF Goroutines, Holding, Executing
  <2>2. thread' = [thread EXCEPT ![t] = h]
    BY <1>1, <1>5 DEF SegmentContinue
  <2> HIDE DEF h
  <2> QED
    BY <1>5, <2>1, <2>2, TurnKeeps DEF SegmentContinue, Segment, Executing
<1>6. CASE Boundary(t)
  <2> DEFINE h == [thread[t] EXCEPT !.pc = "mark"]
  <2>1. CASE Become(t, "mark")
    <3>1. h \in Goroutines /\ h.pc = "mark" /\ h.run = thread[t].run /\ h.count = thread[t].count
      BY <1>1 DEF Goroutines, Holding, Executing
    <3>2. thread' = [thread EXCEPT ![t] = h]
      BY <1>1, <2>1 DEF Become
    <3>3. h.count + 1 \in Parks
      BY <1>1, <1>6, <3>1 DEF Boundary, Sound, Relies
    <3> HIDE DEF h
    <3> QED
      BY <1>6, <3>1, <3>2, <3>3, TurnKeeps DEF Boundary, Executing
  <2>2. CASE Fail(t, "error")
    BY <1>6, <2>2, FailKeeps DEF Boundary, Executing
  <2> QED
    BY <1>6, <2>1, <2>2 DEF Boundary
<1> QED
  BY <1>2, <1>3, <1>4, <1>5, <1>6

LEMMA DispatchKeeps ==
    ASSUME RegistryInv, NEW t \in Threads, SegmentDispatch(t)
    PROVE  RegistryInv' /\ EndsStand
<1> DEFINE r == thread[t].run
           n == thread[t].count + 1
<1>1. /\ thread \in [Threads -> Goroutines] /\ thread[t] \in Goroutines
      /\ task \in [Runs -> [Parks -> {"none", "live", "untold", "told"}]]
  BY DEF RegistryInv, Types
<1>2. thread' = [thread EXCEPT ![t] = thread[t]]
  BY <1>1 DEF SegmentDispatch
<1>3. task' \in [Runs -> [Parks -> {"none", "live", "untold", "told"}]] /\ TasksAge
  BY <1>1 DEF SegmentDispatch, TasksAge, Ended
<1>4. Relies(thread[t])'
  BY DEF SegmentDispatch, Segment, Relies
<1>5. /\ UNCHANGED <<run, generation, slot, compacting>> /\ thread[t].pc = "segment" /\ WaitsForTask'
  BY DEF SegmentDispatch, Segment, RegistryInv, WaitsForTask
<1>6. \A q \in Runs : run'[q].status = "running" => run[q].status = "running" \/ q = r
  BY <1>5
<1> QED
  BY <1>1, <1>2, <1>3, <1>4, <1>5, <1>6, StillKeeps, HolderKeeps DEF Holding, Executing, Reserving

\* What the holder writes to the row r, its own.
Writes(r, R) ==
    /\ run[r].status \notin Terminal \cup {"none"}
    /\ run' = [q \in Runs |-> IF q = r THEN R ELSE run[q]]
    /\ R.status # "none" /\ (R.waiting => R.count \in Parks)

LEMMA WritingKeeps ==
    ASSUME RegistryInv, NEW t \in Threads, NEW h \in Goroutines, NEW R \in RowsOf,
           thread' = [thread EXCEPT ![t] = h], thread[t].pc \in Executing, h.pc \in Executing,
           h.run = thread[t].run, UNCHANGED <<generation, task, slot, compacting>>,
           Writes(h.run, R), h.pc \notin {"boundary", "mark"},
           h.pc = "leave" => h.result # "none" \/ R.status # "running",
           h.pc \in {"revalidate", "resume"} => ~R.waiting
    PROVE  RegistryInv' /\ EndsStand
<1>1. /\ thread \in [Threads -> Goroutines] /\ thread'[t] = h /\ run \in [Runs -> RowsOf] /\ Sound(t)
      /\ WaitsForTask
  BY DEF RegistryInv, Types
<1>2. h.run \in Runs
  BY <1>1 DEF Sound, Brings, WithRun, Holding, Executing
<1>3. run' \in [Runs -> RowsOf] /\ run'[h.run] = R /\ \A q \in Runs : q # h.run => run'[q] = run[q]
  BY <1>1, <1>2 DEF Writes
<1>4. Relies(thread[t])'
  BY <1>1, <1>3 DEF Relies
<1>5. WaitsForTask'
  BY <1>1, <1>2, <1>3 DEF WaitsForTask, Writes
<1>6. RowsStand
  BY <1>2, <1>3 DEF RowsStand, EndsStand, Writes
<1>7. \A r \in Runs : run'[r].status = "running" => run[r].status = "running" \/ r = h.run
  BY <1>3
<1> QED
  BY <1>1, <1>3, <1>4, <1>5, <1>6, <1>7, StillKeeps, HolderKeeps DEF Holding, Executing, Reserving

LEMMA LoadKeeps ==
    ASSUME RegistryInv, NEW t \in Threads, Load(t)
    PROVE  RegistryInv' /\ EndsStand
<1> DEFINE r == thread[t].run
           status == IF run[r].status = "pending" THEN "running" ELSE run[r].status
           R == [run[r] EXCEPT !.status = status, !.old = run[r].old /\ run[r].status # "pending"]
           g == [thread[t] EXCEPT !.pc = "segment", !.count = run[r].count]
           h == [thread[t] EXCEPT !.pc = "leave", !.result = "error"]
<1>1. /\ thread \in [Threads -> Goroutines] /\ thread[t] \in Goroutines /\ run \in [Runs -> RowsOf]
      /\ thread[t].pc = "load" /\ r \in Runs /\ WaitsForTask
  BY DEF RegistryInv, Types, Load, Sound, Brings, WithRun, Holding, Executing
<1>2. run[r] \in RowsOf /\ run[r].count \in Nat
  BY <1>1 DEF RowsOf
<1>3. R \in RowsOf /\ R.status = status /\ R.waiting = run[r].waiting /\ R.count = run[r].count
  BY <1>2 DEF RowsOf, Statuses
<1>4. /\ g \in Goroutines /\ g.pc = "segment" /\ g.run = r
      /\ h \in Goroutines /\ h.pc = "leave" /\ h.result = "error" /\ h.run = r
  BY <1>1, <1>2 DEF Goroutines, Holding, Executing, Results
<1>5. \E k \in {g, h} : thread' = [thread EXCEPT ![t] = k]
  BY <1>1 DEF Load, Fail
<1>6. run' = [q \in Runs |-> IF q = r THEN R ELSE run[q]]
  BY <1>1, <1>2 DEF Load, RowsOf
<1>7. UNCHANGED <<generation, task, slot, compacting>>
  BY DEF Load
<1> HIDE DEF g, h, R
<1>8. CASE run[r].status \in Terminal \cup {"none"}
  <2>1. run' = run
    <3>1. R = run[r]
      BY <1>2, <1>8 DEF R, RowsOf, Terminal
    <3> QED
      BY <1>1, <1>6, <3>1
  <2>2. thread' = [thread EXCEPT ![t] = h]
    BY <1>1, <1>8 DEF Load, Fail, Terminal, h
  <2> QED
    BY <1>1, <1>4, <1>7, <2>1, <2>2, TurnKeeps DEF Executing
<1>9. CASE run[r].status \notin Terminal \cup {"none"}
  <2>1. Writes(r, R)
    BY <1>1, <1>3, <1>6, <1>9 DEF Writes, WaitsForTask
  <2> QED
    <3>1. PICK k \in {g, h} : thread' = [thread EXCEPT ![t] = k]
      BY <1>5
    <3>2. k \in Goroutines /\ k.run = r /\ k.pc \in {"segment", "leave"} /\ (k.pc = "leave" => k.result # "none")
      BY <1>4
    <3> QED
      BY <1>1, <1>3, <1>7, <2>1, <3>1, <3>2, WritingKeeps DEF Executing
<1> QED
  BY <1>8, <1>9

LEMMA MarkKeeps ==
    ASSUME RegistryInv, NEW t \in Threads, Mark(t)
    PROVE  RegistryInv' /\ EndsStand
<1> DEFINE r == thread[t].run
           n == thread[t].count
           p == IF thread[t].wait THEN "leave" ELSE "revalidate"
           R == [run[r] EXCEPT !.status = Parked, !.count = n + 1, !.waiting = thread[t].wait, !.old = FALSE]
           h == [thread[t] EXCEPT !.count = n + 1, !.pc = p]
<1>1. /\ thread \in [Threads -> Goroutines] /\ thread[t] \in Goroutines /\ run \in [Runs -> RowsOf]
      /\ thread[t].pc = "mark" /\ r \in Runs /\ n + 1 \in Parks
  BY DEF RegistryInv, Types, Mark, Sound, Relies, Brings, WithRun, Holding, Executing
<1>2. run[r] \in RowsOf /\ n + 1 \in Nat /\ thread[t].wait \in BOOLEAN
  BY <1>1 DEF Goroutines
<1>3. R \in RowsOf /\ R.status = Parked /\ R.waiting = thread[t].wait /\ R.count = n + 1
  BY <1>2 DEF RowsOf, Statuses
<1>4. p \in {"leave", "revalidate"} /\ (p = "revalidate" <=> ~thread[t].wait)
  BY <1>2
<1> HIDE DEF p
<1>5. h \in Goroutines /\ h.pc = p /\ h.run = r
  BY <1>1, <1>2, <1>4 DEF Goroutines, Holding, Executing
<1>6. CASE run[r].status = "running" /\ run[r].count = n
  <2>1. thread' = [thread EXCEPT ![t] = h]
    BY <1>1, <1>6 DEF Mark, p
  <2>2. run' = [q \in Runs |-> IF q = r THEN R ELSE run[q]]
    BY <1>1, <1>2, <1>6 DEF Mark, RowsOf
  <2>3. UNCHANGED <<generation, task, slot, compacting>>
    BY DEF Mark
  <2> HIDE DEF R, h
  <2>4. Writes(r, R)
    BY <1>1, <1>3, <1>6, <2>2 DEF Writes, Terminal
  <2> QED
    BY <1>1, <1>3, <1>4, <1>5, <2>1, <2>3, <2>4, WritingKeeps DEF Executing
<1>7. CASE ~(run[r].status = "running" /\ run[r].count = n)
  BY <1>1, <1>7, FailKeeps DEF Mark, Executing
<1> QED
  BY <1>6, <1>7

LEMMA ResumedRow ==
    ASSUME RegistryInv, NEW r \in Runs, ResumeContinuationRun(r)
    PROVE  \E R \in RowsOf : /\ R.status = "running" /\ R.waiting = FALSE
                            /\ run' = [q \in Runs |-> IF q = r THEN R ELSE run[q]]
<1> DEFINE R == [run[r] EXCEPT !.status = "running", !.waiting = FALSE, !.old = FALSE]
<1>1. run \in [Runs -> RowsOf] /\ run[r] \in RowsOf
  BY DEF RegistryInv, Types
<1>2. /\ R \in RowsOf /\ R.status = "running" /\ R.waiting = FALSE
      /\ run' = [q \in Runs |-> IF q = r THEN R ELSE run[q]]
  BY <1>1 DEF ResumeContinuationRun, RowsOf, Statuses
<1> HIDE DEF R
<1> QED
  BY <1>2

LEMMA ResumeKeeps ==
    ASSUME RegistryInv, NEW t \in Threads, Resume(t)
    PROVE  RegistryInv' /\ EndsStand
<1> DEFINE r == thread[t].run
           h == [thread[t] EXCEPT !.pc = "segment"]
<1>1. /\ thread \in [Threads -> Goroutines] /\ thread[t] \in Goroutines
      /\ thread[t].pc = "resume" /\ r \in Runs
  BY DEF RegistryInv, Types, Resume, Sound, Brings, WithRun, Holding, Executing
<1>2. CASE AwaitsAt(r, thread[t].count)
  <2>1. h \in Goroutines /\ h.pc = "segment" /\ h.run = r
    BY <1>1 DEF Goroutines, Holding, Executing
  <2>2. thread' = [thread EXCEPT ![t] = h] /\ UNCHANGED <<generation, task, slot, compacting>>
    BY <1>1, <1>2 DEF Resume, Become
  <2>3. PICK R \in RowsOf : /\ R.status = "running" /\ R.waiting = FALSE
                           /\ run' = [q \in Runs |-> IF q = r THEN R ELSE run[q]]
    BY <1>1, <1>2, ResumedRow DEF Resume
  <2> HIDE DEF h
  <2>4. Writes(r, R)
    BY <1>2, <2>3 DEF Writes, AwaitsAt, Terminal
  <2> QED
    BY <1>1, <2>1, <2>2, <2>3, <2>4, WritingKeeps DEF Executing
<1>3. CASE ~AwaitsAt(r, thread[t].count)
  BY <1>1, <1>3, FailKeeps DEF Resume, Executing
<1> QED
  BY <1>2, <1>3

LEMMA RevalidateKeeps ==
    ASSUME RegistryInv, NEW t \in Threads, Revalidate(t)
    PROVE  RegistryInv' /\ EndsStand
<1> DEFINE r == thread[t].run
<1>1. /\ thread \in [Threads -> Goroutines] /\ thread[t] \in Goroutines /\ run \in [Runs -> RowsOf]
      /\ thread[t].pc = "revalidate" /\ r \in Runs /\ ~run[r].waiting /\ WaitsForTask
  BY DEF RegistryInv, Types, Revalidate, Sound, Relies, Brings, WithRun, Holding, Executing
<1>2. UNCHANGED <<generation, task, slot, compacting>>
  BY DEF Revalidate
<1>3. CASE Become(t, "resume") /\ UNCHANGED run
  <2> DEFINE h == [thread[t] EXCEPT !.pc = "resume"]
  <2>1. h \in Goroutines /\ h.pc = "resume" /\ h.run = r
    BY <1>1 DEF Goroutines, Holding, Executing
  <2>2. thread' = [thread EXCEPT ![t] = h]
    BY <1>1, <1>3 DEF Become
  <2>3. Relies(thread[t])'
    BY <1>1, <1>3, <2>1, <2>2 DEF Relies
  <2>4. WaitsForTask'
    BY <1>1, <1>3 DEF WaitsForTask
  <2>5. \A q \in Runs : run'[q].status = "running" => run[q].status = "running" \/ q = h.run
    BY <1>3
  <2> HIDE DEF h
  <2> QED
    BY <1>1, <1>2, <1>3, <2>1, <2>2, <2>3, <2>4, <2>5, StillKeeps, HolderKeeps DEF Holding, Executing, Reserving
<1>4. ASSUME NEW e \in {"error", "canceled"}, CancelContinuationRun(r, thread[t].count), Fail(t, e)
      PROVE  RegistryInv' /\ EndsStand
  <2>1. CASE ~AwaitsAt(r, thread[t].count)
    BY <1>1, <1>2, <1>4, <2>1, FailKeeps DEF CancelContinuationRun, Executing
  <2>2. CASE AwaitsAt(r, thread[t].count)
    <3> DEFINE R == [run[r] EXCEPT !.status = "interrupted", !.waiting = FALSE, !.old = FALSE]
               h == [thread[t] EXCEPT !.pc = "leave", !.result = e]
    <3>1. h \in Goroutines /\ h.pc = "leave" /\ h.result = e /\ h.run = r
      BY <1>1 DEF Goroutines, Holding, Executing, Results
    <3>2. thread' = [thread EXCEPT ![t] = h]
      BY <1>1, <1>4 DEF Fail
    <3>3. run[r] \in RowsOf
      BY <1>1
    <3>4. R \in RowsOf /\ R.status = "interrupted" /\ R.waiting = FALSE
      BY <3>3 DEF RowsOf, Statuses, Terminal
    <3>5. run' = [q \in Runs |-> IF q = r THEN R ELSE run[q]]
      BY <1>1, <1>4, <2>2, <3>3 DEF CancelContinuationRun, RowsOf
    <3> HIDE DEF R, h
    <3>6. Writes(r, R)
      BY <2>2, <3>4, <3>5 DEF Writes, AwaitsAt, Terminal
    <3> QED
      BY <1>1, <1>2, <3>1, <3>2, <3>4, <3>6, WritingKeeps DEF Executing
  <2> QED
    BY <2>1, <2>2
<1>5. CASE thread[t].ctx
  BY <1>4, <1>5 DEF Revalidate
<1>6. CASE ~thread[t].ctx
  BY <1>3, <1>4, <1>6 DEF Revalidate
<1> QED
  BY <1>5, <1>6

LEMMA DoneKeeps ==
    ASSUME RegistryInv, NEW t \in Threads, Done(t)
    PROVE  RegistryInv' /\ EndsStand
<1> DEFINE r == thread[t].run
           R == [run[r] EXCEPT !.status = "completed", !.old = FALSE]
           h == [thread[t] EXCEPT !.pc = "leave"]
<1>1. /\ thread \in [Threads -> Goroutines] /\ thread[t] \in Goroutines /\ run \in [Runs -> RowsOf]
      /\ thread[t].pc = "done" /\ r \in Runs /\ WaitsForTask
  BY DEF RegistryInv, Types, Done, Sound, Brings, WithRun, Holding, Executing
<1>2. UNCHANGED <<generation, task, slot, compacting>>
  BY DEF Done
<1>3. run' = IF run[r].status = "running" THEN [run EXCEPT ![r].status = "completed", ![r].old = FALSE] ELSE run
  BY DEF Done, CompleteRun, Completable
<1>4. CASE run[r].status = "running"
  <2>1. h \in Goroutines /\ h.pc = "leave" /\ h.run = r
    BY <1>1 DEF Goroutines, Holding, Executing
  <2>2. thread' = [thread EXCEPT ![t] = h]
    BY <1>1, <1>4 DEF Done, Become
  <2>3. run[r] \in RowsOf
    BY <1>1
  <2>4. R \in RowsOf /\ R.status = "completed" /\ R.waiting = run[r].waiting /\ R.count = run[r].count
    BY <2>3 DEF RowsOf, Statuses, Terminal
  <2>5. run' = [q \in Runs |-> IF q = r THEN R ELSE run[q]]
    BY <1>1, <1>3, <1>4, <2>3 DEF RowsOf
  <2> HIDE DEF R, h
  <2>6. Writes(r, R)
    BY <1>1, <1>4, <2>4, <2>5 DEF Writes, Terminal, WaitsForTask
  <2> QED
    BY <1>1, <1>2, <2>1, <2>2, <2>4, <2>6, WritingKeeps DEF Executing
<1>5. CASE run[r].status # "running"
  BY <1>1, <1>2, <1>3, <1>5, FailKeeps DEF Done, Executing
<1> QED
  BY <1>4, <1>5

-----------------------------------------------------------------------------
(* The slot is taken and given back.                                       *)

LEMMA TakeKeeps ==
    ASSUME RegistryInv, Room', NEW t \in Threads, NEW h \in Goroutines,
           thread' = [thread EXCEPT ![t] = h], thread[t].pc \in Quiet \ {"complete"}, h.pc \in {"load", "casresume"},
           slot = NoSlot, ~compacting, UNCHANGED <<task, compacting>>, generation' \in Nat,
           slot' \in Registrations, slot'.owner = t, slot'.run = h.run, slot'.live <=> h.pc = "load",
           run' \in [Runs -> RowsOf], WaitsForTask',
           \A r \in Runs : run'[r].status = "running" => run[r].status = "running" \/ (r = h.run /\ h.pc = "load"),
           Brings(thread[t])'
    PROVE  RegistryInv'
<1> USE DEF Holding, Executing, Reserving, Quiet
<1>1. thread \in [Threads -> Goroutines] /\ Types
  BY DEF RegistryInv, Types
<1>2. thread'[t] = h /\ \A u \in Threads \ {t} : thread'[u] = thread[u]
  BY <1>1
<1>3. Types' /\ TasksAge
  BY <1>1, StillKeeps DEF Types
<1>4. \A u \in Threads \ {t} : Alike(u)
  BY <1>2 DEF Alike
<1>5. slot.owner = NoThread
  BY DEF NoSlot
<1>6. Sound(t)'
  BY <1>2 DEF Sound, Holds, Relies
<1>7. \A r \in Runs : ~Owns(t, r)
  BY DEF Owns
<1>8. h.pc = "load" => Owns(t, h.run)'
  BY <1>2 DEF Owns
<1> QED
  BY <1>3, <1>4, <1>5, <1>6, <1>7, <1>8, StepKeeps

LEMMA SubmitSourceKeeps ==
    ASSUME RegistryInv, NEW t \in Threads, SubmitSource(t)
    PROVE  RegistryInv' /\ EndsStand
<1> DEFINE h == [Idle EXCEPT !.pc = "load", !.run = NewRow]
<1>1. /\ thread \in [Threads -> Goroutines] /\ Types /\ Room /\ WaitsForTask /\ generation + 1 \in Nat
  BY DEF RegistryInv, Types
<1>2. thread[t].pc = "idle" /\ RowsLeft /\ NewRow \in Runs /\ NewRow \notin Rows
  BY <1>1, NewRowIsFree DEF SubmitSource
<1>3. h \in Goroutines /\ h.pc = "load" /\ h.run = NewRow
  BY <1>2, IdleIsQuiet DEF Goroutines, Holding, Executing, MaybeRuns
<1>4. /\ thread' = [thread EXCEPT ![t] = h] /\ UNCHANGED <<task, compacting>> /\ slot = NoSlot /\ ~compacting
      /\ generation' \in Nat
  BY <1>1 DEF SubmitSource
<1>5. run' \in [Runs -> RowsOf] /\ RowsSettle /\ Insert(NewRow, generation + 1)
  BY <1>1, Inserted DEF SubmitSource
<1>6. slot' \in Registrations /\ slot'.owner = t /\ slot'.run = NewRow /\ slot'.live = TRUE
  BY <1>2, IdleIsQuiet DEF SubmitSource, Registrations, MaybeRuns
<1>7. Brings(thread[t])'
  BY <1>1, <1>2, <1>3, <1>4 DEF Brings
<1> HIDE DEF h
<1>8. NobodyEnters
  BY <1>1, <1>3, <1>4 DEF NobodyEnters
<1>9. Room' /\ EndsStand
  BY <1>1, <1>2, <1>5, <1>8, RoomInserts
<1>10. \A r \in Runs : run'[r].status = "running" => run[r].status = "running" \/ (r = h.run /\ h.pc = "load")
  BY <1>5 DEF RowsSettle
<1> QED
  BY <1>1, <1>2, <1>3, <1>4, <1>5, <1>6, <1>7, <1>9, <1>10, TakeKeeps, WaitsKept DEF Quiet

LEMMA StartKeeps ==
    ASSUME RegistryInv, NEW t \in Threads, RegisterStart(t)
    PROVE  RegistryInv' /\ EndsStand
<1> DEFINE r == thread[t].run
           R == [run[r] EXCEPT !.status = "running", !.old = FALSE]
           h == [thread[t] EXCEPT !.pc = "load"]
<1>1. /\ thread \in [Threads -> Goroutines] /\ thread[t] \in Goroutines /\ run \in [Runs -> RowsOf]
      /\ thread[t].pc = "register" /\ r \in Runs /\ WaitsForTask /\ Room /\ generation \in Nat
  BY DEF RegistryInv, Types, RegisterStart, Sound, Brings, WithRun
<1>2. CASE run[r].status # "pending"
  BY <1>1, <1>2, FailedRegistration DEF RegisterStart
<1>3. CASE run[r].status = "pending"
  <2>1. h \in Goroutines /\ h.pc = "load" /\ h.run = r
    BY <1>1 DEF Goroutines, Holding, Executing
  <2>2. thread' = [thread EXCEPT ![t] = h]
    BY <1>1, <1>3 DEF RegisterStart, Become
  <2>3. UNCHANGED <<generation, task, compacting>> /\ slot = NoSlot /\ ~compacting
    BY DEF RegisterStart
  <2>4. slot' \in Registrations /\ slot'.owner = t /\ slot'.run = r /\ slot'.live = TRUE
    BY <1>1, <1>3, IdleIsQuiet DEF RegisterStart, Registrations, MaybeRuns
  <2>5. ASSUME NEW q \in Runs
        PROVE  /\ run'[q] \in RowsOf /\ run'[q].status = IF q = r THEN "running" ELSE run[q].status
               /\ run'[q].waiting = run[q].waiting /\ run'[q].count = run[q].count
    BY <1>1, <1>3 DEF RegisterStart, RowsOf, Statuses
  <2>6. run' = [q \in Runs |-> run'[q]]
    BY <1>1, <1>3 DEF RegisterStart
  <2>7. run' \in [Runs -> RowsOf]
    BY <2>5, <2>6
  <2>8. WaitsForTask' /\ RowsStand
    BY <1>1, <1>3, <2>5 DEF WaitsForTask, RowsStand, EndsStand, Terminal
  <2>9. Brings(thread[t])'
    BY <1>1, <2>1, <2>2 DEF Brings
  <2> HIDE DEF h
  <2>10. NobodyEnters
    BY <1>1, <2>1, <2>2 DEF NobodyEnters
  <2>11. Room' /\ EndsStand
    BY <1>1, <2>8, <2>10, RoomStays
  <2>12. \A q \in Runs : run'[q].status = "running" => run[q].status = "running" \/ (q = h.run /\ h.pc = "load")
    BY <2>1, <2>5
  <2> QED
    BY <1>1, <2>1, <2>2, <2>3, <2>4, <2>7, <2>8, <2>9, <2>11, <2>12, TakeKeeps DEF Quiet
<1> QED
  BY <1>2, <1>3

LEMMA ReserveKeeps ==
    ASSUME RegistryInv, NEW t \in Threads, Reserve(t)
    PROVE  RegistryInv' /\ EndsStand
<1> DEFINE h == [thread[t] EXCEPT !.pc = "casresume"]
<1>1. /\ thread \in [Threads -> Goroutines] /\ thread[t] \in Goroutines /\ run \in [Runs -> RowsOf]
      /\ thread[t].pc = "reserve" /\ thread[t].run \in Runs /\ WaitsForTask /\ Room /\ generation \in Nat
  BY DEF RegistryInv, Types, Reserve, Sound, Brings, WithRun
<1>2. UNCHANGED <<run, generation, task, compacting>>
  BY DEF Reserve
<1>3. CASE ~compacting /\ slot = NoSlot
  <2>1. h \in Goroutines /\ h.pc = "casresume" /\ h.run = thread[t].run /\ h.count = thread[t].count
    BY <1>1 DEF Goroutines, Holding, Reserving
  <2>2. thread' = [thread EXCEPT ![t] = h]
    BY <1>1, <1>3 DEF Reserve, Become
  <2>3. slot' \in Registrations /\ slot'.owner = t /\ slot'.run = thread[t].run /\ slot'.live = FALSE
    BY <1>1, <1>3, IdleIsQuiet DEF Reserve, Registrations, MaybeRuns, NoSlot
  <2>4. Brings(thread[t])'
    BY <1>1, <1>2, <2>1, <2>2 DEF RegistryInv, Sound, Brings, Ended
  <2> HIDE DEF h
  <2>5. NobodyEnters
    BY <1>1, <2>1, <2>2 DEF NobodyEnters
  <2>6. Room' /\ EndsStand /\ run' \in [Runs -> RowsOf] /\ WaitsForTask'
    BY <1>1, <1>2, <2>5, StillKeeps, RoomStays, WaitsKept
  <2>7. \A q \in Runs : run'[q].status = "running" => run[q].status = "running" \/ (q = h.run /\ h.pc = "load")
    BY <1>2
  <2> QED
    BY <1>1, <1>2, <1>3, <2>1, <2>2, <2>3, <2>4, <2>6, <2>7, TakeKeeps DEF Quiet
<1>4. CASE ~(~compacting /\ slot = NoSlot)
  <2>1. /\ Finish(t) \in Goroutines /\ Finish(t).pc \in {"idle", "register", "compact"}
        /\ Finish(t).pc \in WithRun => Finish(t).run \in Runs
    BY <1>1, FinishTyped DEF WithRun, Holding, Executing, Reserving
  <2>2. thread' = [thread EXCEPT ![t] = Finish(t)] /\ UNCHANGED slot /\ compacting' \in BOOLEAN
    BY <1>4 DEF Reserve, RegistryInv, Types
  <2> QED
    BY <1>1, <1>2, <2>1, <2>2, AsideKeeps, StillKeeps DEF Quiet
<1> QED
  BY <1>3, <1>4

\* The slot is given back: the row goes along with the goroutine that ends it,
\* or does not run.
LEMMA ReleaseKeeps ==
    ASSUME RegistryInv, NEW t \in Threads, NEW h \in Goroutines,
           thread' \in [Threads -> Goroutines], thread'[t] = h, \A u \in Threads \ {t} : Alike(u),
           thread[t].pc \in Holding, h.pc \in Quiet \ {"preempt", "reserve"},
           slot' = NoSlot, UNCHANGED <<run, generation, task, compacting>>,
           h.pc \in WithRun => h.run \in Runs,
           h.pc = "complete" => h.result \in {"error", "interrupted", "superseded"},
           \/ h.pc = "complete" /\ h.run = thread[t].run
           \/ thread[t].pc = "casresume" \/ run[thread[t].run].status # "running"
    PROVE  RegistryInv' /\ EndsStand
<1> USE DEF Holding, Executing, Reserving, Quiet
<1>1. Types /\ Room /\ Sound(t)
  BY DEF RegistryInv
<1>2. Types' /\ TasksAge /\ RowsStand
  BY <1>1, IdleIsQuiet, StillKeeps DEF Types
<1>3. NobodyEnters
  BY DEF NobodyEnters, Alike
<1>4. Room' /\ EndsStand
  BY <1>1, <1>2, <1>3, RoomStays
<1>5. slot.owner = t
  BY <1>1 DEF Sound, Holds
<1>6. Sound(t)'
  BY DEF Sound, Holds, Relies, Brings
<1>7. (slot # NoSlot => ~compacting)' /\ WaitsForTask'
  BY DEF RegistryInv, WaitsForTask
<1>8. \A r \in Runs : run'[r].status = "running" =>
         Owns(t, r)' \/ (run[r].status = "running" /\ ~Owns(t, r))
  BY DEF Owns
<1> QED
  BY <1>2, <1>4, <1>5, <1>6, <1>7, <1>8, StepKeeps

LEMMA TargetsForgotten ==
    ASSUME Types, NEW t \in Threads
    PROVE  /\ WithoutTarget(t) \in [Threads -> Goroutines]
           /\ \A u \in Threads : \A f \in {"pc", "run", "next", "count", "result"} :
                WithoutTarget(t)[u][f] = thread[u][f]
<1>1. ASSUME NEW u \in Threads
      PROVE  /\ WithoutTarget(t)[u] \in Goroutines
             /\ \A f \in {"pc", "run", "next", "count", "result"} : WithoutTarget(t)[u][f] = thread[u][f]
  <2>1. thread[u] \in Goroutines
    BY DEF Types
  <2>2. \E v \in Threads \cup {NoThread} : WithoutTarget(t)[u] = [thread[u] EXCEPT !.target = v]
    BY <2>1 DEF WithoutTarget, Goroutines
  <2> QED
    BY <2>1, <2>2 DEF Goroutines
<1>2. WithoutTarget(t) = [u \in Threads |-> WithoutTarget(t)[u]]
  BY DEF WithoutTarget
<1> QED
  BY <1>1, <1>2

LEMMA LeaveKeeps ==
    ASSUME RegistryInv, NEW t \in Threads, Leave(t)
    PROVE  RegistryInv' /\ EndsStand
<1> DEFINE result == thread[t].result
           stopped == result = "canceled" /\ (slot.interrupted \/ slot.next = None)
           status == IF result = "error" THEN "error" ELSE IF stopped THEN "interrupted" ELSE "superseded"
           next == IF stopped THEN None ELSE slot.next
           g == [Idle EXCEPT !.pc = "check", !.run = thread[t].run, !.next = slot.next, !.after = "finish"]
           k == [Idle EXCEPT !.pc = "complete", !.run = thread[t].run, !.result = status, !.next = next]
           h == IF result = "none" THEN g ELSE k
<1>1. /\ thread \in [Threads -> Goroutines] /\ Types /\ thread[t].pc = "leave" /\ thread[t].run \in Runs
      /\ slot.next \in MaybeRuns /\ (result = "none" => run[thread[t].run].status # "running")
  BY DEF RegistryInv, Types, Registrations, Leave, Sound, Brings, Relies, WithRun, Holding, Executing
<1>2. thread' = [WithoutTarget(t) EXCEPT ![t] = h] /\ slot' = NoSlot /\ UNCHANGED <<run, generation, task, compacting>>
  BY DEF Leave
<1>3. status \in {"error", "interrupted", "superseded"} /\ next \in MaybeRuns
  BY <1>1 DEF MaybeRuns
<1> HIDE DEF status, next, result
<1>4. g \in Goroutines /\ g.pc = "check" /\ g.run = thread[t].run
  BY <1>1, IdleIsQuiet DEF Goroutines, Quiet, MaybeRuns
<1>5. k \in Goroutines /\ k.pc = "complete" /\ k.run = thread[t].run /\ k.result = status
  BY <1>1, <1>3, IdleIsQuiet DEF Goroutines, Quiet, MaybeRuns, Results
<1> HIDE DEF g, k
<1>6. h \in Goroutines
  BY <1>4, <1>5
<1>7. h.pc \in {"check", "complete"} /\ h.run = thread[t].run /\ (h.pc = "complete" => h.result = status)
      /\ (h.pc = "check" => result = "none")
  BY <1>4, <1>5
<1> HIDE DEF h
<1>8. /\ thread' \in [Threads -> Goroutines] /\ thread'[t] = h
      /\ \A u \in Threads \ {t} : thread'[u] = WithoutTarget(t)[u]
  BY <1>1, <1>2, <1>6, TargetsForgotten
<1>9. \A u \in Threads \ {t} : Alike(u)
  BY <1>1, <1>8, TargetsForgotten DEF Alike
<1>10. thread[t].pc \in Holding /\ h.pc \in Quiet \ {"preempt", "reserve"}
  BY <1>1, <1>7 DEF Holding, Executing, Quiet
<1>11. /\ h.pc \in WithRun => h.run \in Runs
       /\ h.pc = "complete" => h.result \in {"error", "interrupted", "superseded"}
       /\ (h.pc = "complete" /\ h.run = thread[t].run) \/ run[thread[t].run].status # "running"
  BY <1>1, <1>3, <1>7
<1> QED
  BY <1>2, <1>6, <1>8, <1>9, <1>10, <1>11, ReleaseKeeps

LEMMA DropKeeps ==
    ASSUME RegistryInv, NEW t \in Threads, Drop(t)
    PROVE  RegistryInv' /\ EndsStand
<1> DEFINE g == WithoutTarget(t)[t]
           h == [g EXCEPT !.pc = "complete", !.result = "interrupted"]
<1>1. thread \in [Threads -> Goroutines] /\ Types /\ thread[t].pc = "drop" /\ thread[t].run \in Runs
  BY DEF RegistryInv, Types, Drop, Sound, Brings, WithRun, Holding
<1>2. thread' = [WithoutTarget(t) EXCEPT ![t] = h] /\ slot' = NoSlot /\ UNCHANGED <<run, generation, task, compacting>>
  BY <1>1, TargetsForgotten DEF Drop
<1>3. g \in Goroutines /\ g.run = thread[t].run
  BY <1>1, TargetsForgotten
<1> HIDE DEF g
<1>4. h \in Goroutines /\ h.pc = "complete" /\ h.run = thread[t].run /\ h.result = "interrupted"
  BY <1>3 DEF Goroutines, Quiet, Results
<1> HIDE DEF h
<1>5. /\ thread' \in [Threads -> Goroutines] /\ thread'[t] = h
      /\ \A u \in Threads \ {t} : thread'[u] = WithoutTarget(t)[u]
  BY <1>1, <1>2, <1>4, TargetsForgotten
<1>6. \A u \in Threads \ {t} : Alike(u)
  BY <1>1, <1>5, TargetsForgotten DEF Alike
<1> QED
  BY <1>1, <1>2, <1>4, <1>5, <1>6, ReleaseKeeps DEF Holding, Quiet

LEMMA CasResumeKeeps ==
    ASSUME RegistryInv, NEW t \in Threads, CasResume(t)
    PROVE  RegistryInv' /\ EndsStand
<1> DEFINE r == thread[t].run
           h == [thread[t] EXCEPT !.pc = "swap"]
<1>1. /\ thread \in [Threads -> Goroutines] /\ thread[t] \in Goroutines /\ run \in [Runs -> RowsOf] /\ Room /\ Types
      /\ thread[t].pc = "casresume" /\ r \in Runs /\ Sound(t) /\ WaitsForTask
  BY DEF RegistryInv, Types, CasResume, Sound, Brings, WithRun, Holding, Reserving
<1>2. UNCHANGED <<generation, task, compacting>>
  BY DEF CasResume
<1>3. CASE AwaitsAt(r, thread[t].count)
  <2>1. h \in Goroutines /\ h.pc = "swap" /\ h.run = r
    BY <1>1 DEF Goroutines, Holding, Reserving
  <2>2. thread' = [thread EXCEPT ![t] = h] /\ UNCHANGED slot
    BY <1>1, <1>3 DEF CasResume, Become
  <2>3. PICK R \in RowsOf : /\ R.status = "running" /\ R.waiting = FALSE
                           /\ run' = [q \in Runs |-> IF q = r THEN R ELSE run[q]]
    BY <1>1, <1>3, ResumedRow DEF CasResume
  <2> HIDE DEF h
  <2>4. run' \in [Runs -> RowsOf] /\ WaitsForTask' /\ RowsStand
    BY <1>1, <1>3, <2>3 DEF WaitsForTask, RowsStand, EndsStand, AwaitsAt, Terminal
  <2>5. thread'[t] = h /\ \A u \in Threads \ {t} : thread'[u] = thread[u]
    BY <1>1, <2>2
  <2>6. Types' /\ TasksAge
    BY <1>1, <1>2, <2>1, <2>2, <2>4, StillKeeps DEF Types
  <2>7. NobodyEnters
    BY <2>1, <2>5 DEF NobodyEnters
  <2>8. Room' /\ EndsStand
    BY <1>1, <2>4, <2>7, RoomStays
  <2>9. slot.owner = t /\ Sound(t)'
    BY <1>1, <2>1, <2>2, <2>5 DEF Sound, Holds, Relies, Brings, Holding, Reserving
  <2>10. (slot # NoSlot => ~compacting)'
    BY <1>2, <2>2 DEF RegistryInv
  <2>11. \A u \in Threads \ {t} : Alike(u)
    BY <2>5 DEF Alike
  <2>12. \A q \in Runs : run'[q].status = "running" => Owns(t, q)' \/ (run[q].status = "running" /\ ~Owns(t, q))
    BY <1>1, <2>1, <2>3, <2>5 DEF Owns, Executing
  <2> QED
    BY <2>4, <2>6, <2>8, <2>9, <2>10, <2>11, <2>12, StepKeeps
<1>4. CASE ~AwaitsAt(r, thread[t].count)
  <2>1. /\ Finish(t) \in Goroutines /\ Finish(t).pc \in {"idle", "register", "compact"}
        /\ Finish(t).pc \in WithRun => Finish(t).run \in Runs
    BY <1>1, FinishTyped DEF WithRun, Holding, Executing, Reserving
  <2>2. thread' = [thread EXCEPT ![t] = Finish(t)] /\ slot' = NoSlot /\ UNCHANGED run
    BY <1>4 DEF CasResume
  <2>3. /\ thread' \in [Threads -> Goroutines] /\ thread'[t] = Finish(t)
        /\ \A u \in Threads \ {t} : thread'[u] = thread[u]
    BY <1>1, <2>1, <2>2
  <2>4. \A u \in Threads \ {t} : Alike(u)
    BY <2>3 DEF Alike
  <2> QED
    BY <1>1, <1>2, <2>1, <2>2, <2>3, <2>4, ReleaseKeeps DEF Holding, Reserving, Quiet
<1> QED
  BY <1>3, <1>4

\* The one step that moves two goroutines: the reservation passes from t to the
\* goroutine u that executes the run.
LEMMA HandOverKeeps ==
    ASSUME RegistryInv, NEW t \in Threads, NEW u \in Threads, NEW g \in Goroutines, NEW h \in Goroutines,
           thread[t].pc = "swap", u = t \/ thread[u].pc = "idle",
           thread' = [v \in Threads |-> IF v = u THEN h ELSE IF v = t THEN g ELSE thread[v]],
           g.pc \in {"idle", "register", "compact"}, g.pc = "register" => g.run \in Runs,
           h.pc = "load", h.run = thread[t].run, slot' \in Registrations, slot'.owner = u,
           slot'.live, slot'.run = slot.run, UNCHANGED <<run, generation, task, compacting>>
    PROVE  RegistryInv' /\ EndsStand
<1> USE DEF Holding, Executing, Reserving
<1>1. /\ thread \in [Threads -> Goroutines] /\ slot \in Registrations /\ Types /\ Room /\ Sound(t)
      /\ WaitsForTask
  BY DEF RegistryInv, Types
<1>2. /\ thread' \in [Threads -> Goroutines] /\ thread'[u] = h /\ (u # t => thread'[t] = g)
      /\ \A v \in Threads \ {t, u} : thread'[v] = thread[v]
  BY <1>1
<1>3. slot.owner = t /\ slot.run = thread[t].run /\ thread[t].run \in Runs
  BY <1>1 DEF Registrations, Sound, Holds, Brings, WithRun
<1>4. Types' /\ TasksAge /\ RowsStand /\ WaitsForTask'
  BY <1>1, <1>2, <1>3, StillKeeps, WaitsKept DEF Types
<1>5. NobodyEnters
  BY <1>2 DEF NobodyEnters
<1>6. Room' /\ EndsStand
  BY <1>1, <1>4, <1>5, RoomStays
<1>7. Sound(u)'
  BY <1>2, <1>3 DEF Sound, Holds, Relies, Brings
<1>8. u # t => Sound(t)'
  BY <1>2, <1>3 DEF Sound, Holds, Relies, Brings, WithRun
<1>9. ASSUME NEW v \in Threads \ {t, u} PROVE Sound(v)'
  <2>1. Alike(v)
    BY <1>2 DEF Alike
  <2> QED
    BY <1>3, <1>4, <2>1, OthersSound
<1>10. ASSUME NEW r \in Runs, run'[r].status = "running"
       PROVE  \E v \in Threads : Owns(v, r)'
  <2>1. PICK v \in Threads : Owns(v, r)
    BY <1>10 DEF RegistryInv, RunningIsOwned, Owns
  <2>2. CASE v = t
    BY <1>2, <2>1, <2>2 DEF Owns
  <2>3. CASE v # t
    <3>1. v # u
      BY <2>1, <2>3 DEF Owns
    <3> QED
      BY <1>2, <2>1, <2>3, <3>1 DEF Owns
  <2> QED
    BY <2>2, <2>3
<1>11. RunningIsOwned'
  BY <1>10 DEF RunningIsOwned, Owns
<1>12. slot # NoSlot
  BY <1>3, BoundsAssumption DEF NoSlot, BoundsAssumption
<1> QED
  BY <1>4, <1>6, <1>7, <1>8, <1>9, <1>11, <1>12 DEF RegistryInv

LEMMA SwapKeeps ==
    ASSUME RegistryInv, NEW t \in Threads, Swap(t)
    PROVE  RegistryInv' /\ EndsStand
<1>2. thread[t].pc = "swap" /\ UNCHANGED <<run, generation, task, compacting>>
  BY Zenon DEF Swap
<1>1. /\ thread \in [Threads -> Goroutines] /\ thread[t] \in Goroutines /\ slot \in Registrations /\ Types /\ Room
      /\ thread[t].pc = "swap" /\ thread[t].run \in Runs /\ Sound(t) /\ slot.owner = t /\ WaitsForTask
  BY <1>2 DEF RegistryInv, Types, Sound, Holds, Brings, WithRun, Holding, Reserving
<1>3. CASE slot.interrupted
  <2> DEFINE h == [thread[t] EXCEPT !.pc = "drop"]
  <2>1. h \in Goroutines /\ h.pc = "drop" /\ h.run = thread[t].run
    BY <1>1 DEF Goroutines, Holding
  <2>2. thread' = [thread EXCEPT ![t] = h] /\ slot' = [slot EXCEPT !.live = TRUE]
    BY <1>1, <1>3, Zenon DEF Swap, Become
  <2> HIDE DEF h
  <2>3. thread'[t] = h /\ \A u \in Threads \ {t} : thread'[u] = thread[u]
    BY <1>1, <2>2
  <2>4. /\ slot' \in Registrations /\ slot'.owner = t /\ slot'.run = slot.run /\ slot'.live = TRUE
        /\ slot'.interrupted
    BY <1>1, <1>3, <2>2 DEF Registrations
  <2>5. Types' /\ TasksAge /\ RowsStand /\ WaitsForTask'
    BY <1>1, <1>2, <2>1, <2>2, <2>4, StillKeeps, WaitsKept DEF Types
  <2>6. NobodyEnters
    BY <2>1, <2>3 DEF NobodyEnters
  <2>7. Room' /\ EndsStand
    BY <1>1, <2>5, <2>6, RoomStays
  <2>8. Sound(t)'
    BY <1>1, <2>1, <2>3, <2>4 DEF Sound, Holds, Relies, Brings, Holding, Reserving
  <2>9. slot # NoSlot
    BY <1>1, BoundsAssumption DEF NoSlot, BoundsAssumption
  <2>10. (slot # NoSlot => ~compacting)'
    BY <1>2, <2>9 DEF RegistryInv
  <2>11. \A u \in Threads \ {t} : Alike(u)
    BY <2>3 DEF Alike
  <2>12. \A r \in Runs : run'[r].status = "running" => Owns(t, r)' \/ (run[r].status = "running" /\ ~Owns(t, r))
    BY <1>2, <2>1, <2>3 DEF Owns
  <2> QED
    BY <1>1, <2>5, <2>7, <2>8, <2>10, <2>11, <2>12, StepKeeps
<1>4. CASE ~slot.interrupted
  <2> DEFINE h == [Idle EXCEPT !.pc = "load", !.run = thread[t].run]
  <2>1. PICK u \in Threads :
          /\ u = t \/ thread[u].pc = "idle"
          /\ slot' = [slot EXCEPT !.owner = u, !.live = TRUE]
          /\ thread' = [thread EXCEPT ![t] = Finish(t), ![u] = h]
    BY <1>4, Zenon DEF Swap
  <2>2. h \in Goroutines /\ h.pc = "load" /\ h.run = thread[t].run
    BY <1>1, IdleIsQuiet DEF Goroutines, Holding, Executing, MaybeRuns
  <2>3. /\ Finish(t) \in Goroutines /\ Finish(t).pc \in {"idle", "register", "compact"}
        /\ Finish(t).pc = "register" => Finish(t).run \in Runs
    BY <1>1, FinishTyped
  <2>4. /\ slot' \in Registrations /\ slot'.owner = u /\ slot'.live = TRUE /\ slot'.run = slot.run
    BY <1>1, <2>1 DEF Registrations
  <2> HIDE DEF h
  <2>5. thread' = [v \in Threads |-> IF v = u THEN h ELSE IF v = t THEN Finish(t) ELSE thread[v]]
    BY <1>1, <2>1
  <2>6. u = t \/ thread[u].pc = "idle"
    BY <2>1
  <2> QED
    BY <1>1, <1>2, <2>2, <2>3, <2>4, <2>5, <2>6, HandOverKeeps
<1> QED
  BY <1>3, <1>4

-----------------------------------------------------------------------------
(* Steps without a goroutine.                                              *)

LEMMA WorldKeeps ==
    ASSUME RegistryInv, UNCHANGED <<generation, slot, compacting, thread>>, run' \in [Runs -> RowsOf],
           RowsSettle, RowsStand, task' \in [Runs -> [Parks -> {"none", "live", "untold", "told"}]], TasksAge
    PROVE  RegistryInv' /\ EndsStand
<1>1. Types /\ Room
  BY DEF RegistryInv
<1>2. Types'
  BY <1>1 DEF Types
<1>3. NobodyEnters
  BY DEF NobodyEnters
<1>4. Room' /\ EndsStand
  BY <1>1, <1>3, RoomStays
<1>5. ASSUME NEW t \in Threads PROVE Sound(t)'
  <2>1. Sound(t)
    BY DEF RegistryInv
  <2> QED
    BY <2>1 DEF Sound, Holds, Relies, Brings, RowsSettle, TasksAge, WithRun, Holding, Executing, Reserving
<1>6. WaitsForTask' /\ RunningIsOwned' /\ (slot # NoSlot => ~compacting)'
  BY WaitsKept DEF RegistryInv, RunningIsOwned, RowsSettle
<1> QED
  BY <1>2, <1>4, <1>5, <1>6 DEF RegistryInv

LEMMA TaskEndKeeps ==
    ASSUME RegistryInv, NEW r \in Runs, NEW n \in Parks, TaskEnd(r, n)
    PROVE  RegistryInv' /\ EndsStand
<1>1. task \in [Runs -> [Parks -> {"none", "live", "untold", "told"}]]
  BY DEF RegistryInv, Types
<1>2. task' \in [Runs -> [Parks -> {"none", "live", "untold", "told"}]] /\ TasksAge
  BY <1>1 DEF TaskEnd, TasksAge, Ended
<1> QED
  BY <1>2, WorldKeeps, StillKeeps DEF TaskEnd

LEMMA AgeKeeps ==
    ASSUME RegistryInv, NEW r \in Runs, Age(r)
    PROVE  RegistryInv' /\ EndsStand
<1>1. run \in [Runs -> RowsOf]
  BY DEF RegistryInv, Types
<1>2. ASSUME NEW q \in Runs
      PROVE  /\ run'[q] \in RowsOf /\ run'[q].status = run[q].status
             /\ run'[q].waiting = run[q].waiting /\ run'[q].count = run[q].count
  BY <1>1 DEF Age, RowsOf
<1>3. run' = [q \in Runs |-> run'[q]]
  BY <1>1 DEF Age
<1>4. run' \in [Runs -> RowsOf]
  BY <1>2, <1>3
<1>5. RowsSettle /\ RowsStand
  BY <1>2 DEF RowsSettle, RowsStand, EndsStand
<1> QED
  BY <1>4, <1>5, WorldKeeps, StillKeeps DEF Age

LEMMA StutterKeeps == ASSUME RegistryInv, UNCHANGED vars PROVE RegistryInv' /\ EndsStand
BY WorldKeeps, StillKeeps DEF vars

-----------------------------------------------------------------------------
(* Every step.                                                             *)

LEMMA RequestKeeps ==
    ASSUME RegistryInv, NEW t \in Threads, Request(t)
    PROVE  RegistryInv' /\ EndsStand
BY SubmitMessageKeeps, SubmitCorrectionKeeps, SubmitSourceKeeps, CompactionKeeps, InterruptKeeps, Zenon DEF Request

LEMMA WorkKeeps ==
    ASSUME RegistryInv, NEW t \in Threads, Work(t)
    PROVE  RegistryInv' /\ EndsStand
<1>1. CASE RegisterBusy(t)
  BY <1>1, FailedRegistration DEF RegisterBusy
<1>2. CASE \/ Preempt(t) \/ CreateRun(t) \/ BindPendingCorrectionRun(t)
           \/ RegisterQueued(t) \/ RegisterStart(t) \/ Supersede(t) \/ Cancel(t)
  BY <1>2, PreemptKeeps, CreateRunKeeps, BindKeeps, QueuedKeeps, StartKeeps, SupersedeKeeps, CancelKeeps, Zenon
<1>3. CASE \/ Canceled(t) \/ SegmentComplete(t) \/ SegmentError(t) \/ SegmentContinue(t) \/ Boundary(t)
  BY <1>3, SegmentKeeps, Zenon
<1>4. CASE Load(t) \/ SegmentDispatch(t) \/ Mark(t) \/ Revalidate(t) \/ Resume(t) \/ Done(t)
  BY <1>4, LoadKeeps, DispatchKeeps, MarkKeeps, RevalidateKeeps, ResumeKeeps, DoneKeeps, Zenon
<1>5. CASE Leave(t) \/ Complete(t) \/ Check(t) \/ Reserve(t) \/ CasResume(t) \/ Swap(t) \/ Drop(t)
  BY <1>5, LeaveKeeps, CompleteKeeps, CheckKeeps, ReserveKeeps, CasResumeKeeps, SwapKeeps, DropKeeps, Zenon
<1>6. CASE CompactBackground(t) \/ CompactEnd(t)
  BY <1>6, CompactionKeeps, Zenon
<1>7. CASE StopNext(t) \/ StopTasks(t) \/ StopList(t) \/ StopParked(t) \/ StopDone(t)
  BY <1>7, StopKeeps, Zenon
<1>8. CASE RunIsAbandoned(t) \/ AbandonStrandedRun(t) \/ Reaped(t)
  BY <1>8, ReaperKeeps, Zenon
<1> QED
  BY <1>1, <1>2, <1>3, <1>4, <1>5, <1>6, <1>7, <1>8, Zenon DEF Work

LEMMA NextKeeps ==
    ASSUME RegistryInv, [Next]_vars
    PROVE  RegistryInv' /\ EndsStand
<1>1. ASSUME NEW t \in Threads, Request(t) \/ Hook(t) \/ Work(t) \/ Reap(t)
      PROVE  RegistryInv' /\ EndsStand
  <2>1. CASE Hook(t)
    BY <2>1, HookKeeps, Zenon DEF Hook
  <2>2. CASE Reap(t)
    BY <2>2, ReaperKeeps, Zenon
  <2> QED
    BY <1>1, <2>1, <2>2, RequestKeeps, WorkKeeps, Zenon
<1>2. CASE TaskEnds
  BY <1>2, TaskEndKeeps, Zenon DEF TaskEnds
<1>3. CASE Ages
  BY <1>3, AgeKeeps, Zenon DEF Ages
<1>4. CASE UNCHANGED vars
  BY <1>4, StutterKeeps
<1> QED
  BY <1>1, <1>2, <1>3, <1>4, Zenon DEF Next

LEMMA Invariance == Spec => []RegistryInv
<1>1. RegistryInv /\ [Next]_vars => RegistryInv'
  BY NextKeeps
<1> QED
  BY <1>1, InitSound, PTL DEF Spec

\* registerRun, schedulePendingContinuation, SubmitSource and the compactions
\* (runner_lifecycle.go, continuation_background.go, context_compaction.go) take
\* the slot of an agent from one another only when it is free: for any number of
\* goroutines, at most one executes or reserves a run, the slot names it and its
\* run, has its cancel function unless the reservation is a placeholder, and no
\* compaction holds the context meanwhile.
THEOREM OneHolderOfTheSlot == Spec => []SlotExclusive
<1>1. RegistryInv => SlotExclusive
  <2> SUFFICES ASSUME RegistryInv PROVE SlotExclusive
    OBVIOUS
  <2>1. ASSUME NEW t \in Threads, thread[t].pc \in Executing \cup Reserving \cup {"drop"}
        PROVE  /\ slot.owner = t /\ slot.run = thread[t].run
               /\ slot.live <=> thread[t].pc \notin Reserving
    BY <2>1 DEF RegistryInv, Sound, Holds, Holding
  <2> QED
    BY <2>1 DEF RegistryInv, SlotExclusive
<1> QED
  BY <1>1, Invariance, PTL

\* Every path out of a turn, a registration, a wake or a Stop writes the row
\* before its goroutine returns or leaves it to one that will: a row says
\* "running" only while a goroutine answers for it, whatever the interleaving.
THEOREM NoRunIsOrphaned == Spec => []RunningIsOwned
<1>1. RegistryInv => RunningIsOwned
  BY DEF RegistryInv
<1> QED
  BY <1>1, Invariance, PTL

\* The compare-and-swap updates of CompleteRun, CancelContinuationRun,
\* ResumeContinuationRun, MarkRunContinuationPending and the reaper
\* (runs_checkpoints.go): no step rewrites the terminal status of a run.
THEOREM FinalStatusIsFinal == Spec => FirstEndStands
<1>1. RegistryInv /\ [Next]_vars =>
        [\A r \in Runs : run[r].status \in Terminal => run'[r].status = run[r].status]_vars
  <2> SUFFICES ASSUME RegistryInv, [Next]_vars
               PROVE  \A r \in Runs : run[r].status \in Terminal => run'[r].status = run[r].status
    OBVIOUS
  <2> QED
    BY NextKeeps DEF EndsStand
<1> QED
  BY <1>1, Invariance, PTL DEF Spec, FirstEndStands

-----------------------------------------------------------------------------
(* What a step does to a run that waits and to a request that is queued.   *)

\* No parked run goes on.
NobodyWakes == \A r \in Runs : run'[r].status = "running" => run[r].status # Parked

WokenInTime ==
    \A r \in Runs :
        run[r].status = Parked /\ run[r].waiting /\ run'[r].status = "running" => Ended(r, run[r].count)

LEMMA Asleep == NobodyWakes => WokenInTime
BY DEF NobodyWakes, WokenInTime

LEMMA RequestsWakeNobody ==
    ASSUME RegistryInv, NEW t \in Threads, Request(t) \/ Hook(t) \/ Reap(t)
    PROVE  NobodyWakes
<1>1. generation + 1 \in Nat /\ 0 \in Nat
  BY DEF RegistryInv, Types
<1>2. CASE SubmitCorrection(t) \/ SubmitSource(t)
  BY <1>1, <1>2, Inserted DEF SubmitCorrection, SubmitSource, NobodyWakes, RowsSettle
<1>3. CASE SubmitMessage(t) \/ CompactManual(t) \/ Interrupt(t) \/ Hook(t) \/ Reap(t)
  <2>1. UNCHANGED run
    BY <1>3, Zenon DEF SubmitMessage, CompactManual, Interrupt, Hook, TerminalHook, Reap
  <2> QED
    BY <2>1 DEF NobodyWakes
<1> QED
  BY <1>2, <1>3, Zenon DEF Request

\* The rows change, but for none to go on.
LEMMA WritesWakeNobody ==
    ASSUME RegistryInv, NEW t \in Threads,
           \/ Preempt(t) \/ CreateRun(t) \/ BindPendingCorrectionRun(t) \/ RegisterStart(t) \/ Supersede(t)
           \/ Load(t) \/ Mark(t) \/ Revalidate(t) \/ Done(t) \/ Complete(t) \/ Check(t) \/ StopNext(t)
           \/ StopParked(t) \/ AbandonStrandedRun(t)
    PROVE  NobodyWakes
<1>1. run \in [Runs -> RowsOf] /\ generation + 1 \in Nat /\ Sound(t)
  BY DEF RegistryInv, Types
<1> USE DEF NobodyWakes
<1>2. CASE CreateRun(t)
  BY <1>1, <1>2, Inserted DEF CreateRun, RowsSettle
<1>3. CASE Preempt(t) \/ Supersede(t) \/ Revalidate(t) \/ Check(t) \/ StopNext(t) \/ StopParked(t)
  <2>1. CASE UNCHANGED run
    BY <2>1
  <2>2. CASE \E r, n : CancelContinuationRun(r, n)
    BY <2>2, Settled DEF RowsSettle
  <2>3. CASE \E r : CompleteRun(r, "superseded") \/ CompleteRun(r, "interrupted")
    BY <2>3, Settled DEF RowsSettle
  <2> QED
    BY <1>3, <2>1, <2>2, <2>3, Zenon DEF Preempt, Supersede, Revalidate, Check, StopNext, StopParked
<1>4. CASE BindPendingCorrectionRun(t)
  BY <1>1, <1>4 DEF BindPendingCorrectionRun, RowsOf
<1>5. CASE RegisterStart(t)
  BY <1>1, <1>5 DEF RegisterStart, RowsOf
<1>6. CASE Load(t)
  BY <1>1, <1>6 DEF Load, RowsOf
<1>7. CASE Mark(t)
  BY <1>1, <1>7 DEF Mark, RowsOf
<1>8. CASE Done(t)
  BY <1>1, <1>8 DEF Done, CompleteRun, RowsOf
<1>9. CASE Complete(t)
  <2>1. thread[t].result \in {"error", "interrupted", "superseded"}
    BY <1>1, <1>9 DEF Complete, Sound, Brings
  <2> QED
    BY <1>9, <2>1, Settled DEF Complete, RowsSettle
<1>10. CASE AbandonStrandedRun(t)
  BY <1>1, <1>10 DEF AbandonStrandedRun, RowsOf
<1> QED
  BY <1>2, <1>3, <1>4, <1>5, <1>6, <1>7, <1>8, <1>9, <1>10, Zenon

\* A turn that goes on at once does not wait; a wake brought its task along.
LEMMA ResumesHonour ==
    ASSUME RegistryInv, NEW t \in Threads, Resume(t) \/ CasResume(t)
    PROVE  WokenInTime
<1> DEFINE r == thread[t].run
<1>1. Sound(t) /\ WaitsForTask /\ run \in [Runs -> RowsOf] /\ thread[t].pc \in {"resume", "casresume"}
  BY DEF RegistryInv, Types, Resume, CasResume
<1>2. CASE UNCHANGED run
  BY <1>2 DEF WokenInTime
<1>3. CASE AwaitsAt(r, thread[t].count) /\ ResumeContinuationRun(r)
  <2>1. \A q \in Runs \ {r} : run'[q] = run[q]
    BY <1>1, <1>3 DEF ResumeContinuationRun
  <2>2. ASSUME r \in Runs, run[r].waiting PROVE Ended(r, run[r].count)
    <3>1. thread[t].pc = "casresume" /\ run[r].count = thread[t].count /\ thread[t].count \in Parks
      BY <1>1, <1>3, <2>2 DEF Sound, Relies, WaitsForTask, AwaitsAt
    <3> QED
      BY <1>1, <3>1 DEF Sound, Brings
  <2> QED
    BY <2>1, <2>2 DEF WokenInTime
<1> QED
  BY <1>2, <1>3, Zenon DEF Resume, CasResume

LEMMA StepWakesInTime == ASSUME RegistryInv, [Next]_vars PROVE WokenInTime
<1>1. CASE UNCHANGED run
  BY <1>1 DEF WokenInTime
<1>2. ASSUME NEW t \in Threads, Request(t) \/ Hook(t) \/ Reap(t) PROVE WokenInTime
  BY <1>2, RequestsWakeNobody, Asleep
<1>3. ASSUME NEW t \in Threads, Work(t) PROVE WokenInTime
  <2>1. CASE \/ Preempt(t) \/ CreateRun(t) \/ BindPendingCorrectionRun(t) \/ RegisterStart(t) \/ Supersede(t)
             \/ Load(t) \/ Mark(t) \/ Revalidate(t) \/ Done(t) \/ Complete(t) \/ Check(t) \/ StopNext(t)
             \/ StopParked(t) \/ AbandonStrandedRun(t)
    BY <2>1, WritesWakeNobody, Asleep
  <2>2. CASE Resume(t) \/ CasResume(t)
    BY <2>2, ResumesHonour
  <2>3. CASE \/ RegisterBusy(t) \/ RegisterQueued(t) \/ Cancel(t) \/ Canceled(t) \/ SegmentDispatch(t)
             \/ SegmentComplete(t) \/ SegmentError(t) \/ SegmentContinue(t) \/ Boundary(t)
    BY <1>1, <2>3, Zenon DEF RegisterBusy, RegisterQueued, Cancel, Canceled, SegmentDispatch, SegmentComplete,
                             SegmentError, SegmentContinue, Boundary
  <2>4. CASE \/ Leave(t) \/ Reserve(t) \/ Swap(t) \/ Drop(t) \/ CompactBackground(t) \/ CompactEnd(t)
             \/ StopTasks(t) \/ StopList(t) \/ StopDone(t) \/ RunIsAbandoned(t) \/ Reaped(t)
    BY <1>1, <2>4, Zenon DEF Leave, Reserve, Swap, Drop, CompactBackground, CompactEnd, StopTasks, StopList,
                             StopDone, RunIsAbandoned, Reaped
  <2> QED
    BY <1>3, <2>1, <2>2, <2>3, <2>4, Zenon DEF Work
<1>4. CASE TaskEnds
  BY <1>1, <1>4, Zenon DEF TaskEnds, TaskEnd
<1>5. CASE Ages
  <2>1. run \in [Runs -> RowsOf]
    BY DEF RegistryInv, Types
  <2>2. NobodyWakes
    BY <1>5, <2>1 DEF Ages, Age, NobodyWakes, RowsOf
  <2> QED
    BY <2>2, Asleep
<1>6. CASE UNCHANGED vars
  BY <1>1, <1>6 DEF vars
<1> QED
  BY <1>2, <1>3, <1>4, <1>5, <1>6, Zenon DEF Next

\* WakeBackgroundContinuation and the turn that looks again after it parked
\* (continuation_background.go) read the task before they reserve the slot, and
\* ResumeContinuationRun compares the count: whatever wake of an earlier wait is
\* still on its way, a run that waits goes on only after its own task ended.
THEOREM NoWakeBeforeTheTask == Spec => WakeHonoursTask
<1>1. RegistryInv /\ [Next]_vars =>
        [\A r \in Runs : run[r].status = Parked /\ run[r].waiting /\ run'[r].status = "running"
                            => Ended(r, run[r].count)]_vars
  BY StepWakesInTime DEF WokenInTime
<1> QED
  BY <1>1, Invariance, PTL DEF Spec, WakeHonoursTask

TakenAlong ==
    \A r \in Runs :
        slot.next = r /\ slot'.next # r /\ run'[r].status = "pending"
          => \/ \E t \in Threads : r \in {thread'[t].run, thread'[t].next}
             \/ slot.interrupted \/ ~slot.live

LEMMA NothingQueued == slot.next = None \/ slot'.next = slot.next => TakenAlong
BY RunsFinite DEF TakenAlong

LEMMA QueuedTakesAlong ==
    ASSUME RegistryInv, NEW t \in Threads, RegisterQueued(t) \/ Interrupt(t)
    PROVE  TakenAlong
<1>1. /\ thread \in [Threads -> Goroutines] /\ slot \in Registrations
  BY DEF RegistryInv, Types
<1>2. CASE RegisterQueued(t)
  <2> DEFINE replaced == IF slot.next = thread[t].run THEN None ELSE slot.next
             victim == IF slot.live THEN slot.owner ELSE NoThread
  <2>1. slot'.next = thread[t].run
    BY <1>1, <1>2 DEF RegisterQueued, Registrations
  <2>2. thread' = [thread EXCEPT ![t] =
                     IF replaced # None
                     THEN [Idle EXCEPT !.pc = "supersede", !.run = replaced, !.target = victim]
                     ELSE [Idle EXCEPT !.pc = "cancel", !.target = victim]]
    BY <1>2 DEF RegisterQueued
  <2>3. slot.next = None \/ slot'.next = slot.next \/ slot.next = replaced
    BY <2>1
  <2> HIDE DEF replaced, victim
  <2>4. replaced # None => thread'[t].run = replaced
    BY <1>1, <2>2 DEF Idle
  <2> QED
    BY <2>3, <2>4, RunsFinite DEF TakenAlong
<1>3. CASE Interrupt(t)
  <2> DEFINE p == IF slot.next = None THEN "stoptasks" ELSE "stopnext"
             a == IF slot.live THEN "cancel" ELSE "none"
             victim == IF slot.live THEN slot.owner ELSE NoThread
             found == ParkedRows \cup ({slot.run} \ {None})
  <2>1. thread' = [thread EXCEPT ![t] = [Idle EXCEPT !.pc = p, !.run = slot.next, !.after = a,
                                                     !.target = victim, !.stop = found]]
    BY <1>3 DEF Interrupt
  <2> HIDE DEF p, a, victim, found
  <2>2. thread'[t].run = slot.next
    BY <1>1, <2>1 DEF Idle
  <2> QED
    BY <2>2 DEF TakenAlong
<1> QED
  BY <1>2, <1>3

\* unregisterRun leaves a successor only behind a cancelled turn that was
\* stopped; a placeholder has no cancel function, or was interrupted.
LEMMA ReleaseTakesAlong ==
    ASSUME RegistryInv, NEW t \in Threads, Leave(t) \/ CasResume(t) \/ Swap(t) \/ Drop(t)
    PROVE  TakenAlong
<1>1. /\ thread \in [Threads -> Goroutines] /\ slot \in Registrations /\ Types /\ Sound(t)
  BY DEF RegistryInv, Types
<1>2. CASE Leave(t)
  <2> DEFINE result == thread[t].result
             stopped == result = "canceled" /\ (slot.interrupted \/ slot.next = None)
             status == IF result = "error" THEN "error" ELSE IF stopped THEN "interrupted" ELSE "superseded"
             next == IF stopped THEN None ELSE slot.next
             g == [Idle EXCEPT !.pc = "check", !.run = thread[t].run, !.next = slot.next, !.after = "finish"]
             k == [Idle EXCEPT !.pc = "complete", !.run = thread[t].run, !.result = status, !.next = next]
  <2>1. thread' = [WithoutTarget(t) EXCEPT ![t] = IF result = "none" THEN g ELSE k]
    BY <1>2 DEF Leave
  <2>2. slot.next = None \/ slot.interrupted \/ next = slot.next
    OBVIOUS
  <2>3. g.next = slot.next /\ k.next = next
    BY DEF Idle
  <2> HIDE DEF g, k, next, result
  <2>4. WithoutTarget(t) \in [Threads -> Goroutines]
    BY <1>1, TargetsForgotten
  <2>5. thread'[t].next \in {slot.next, next}
    BY <2>1, <2>3, <2>4
  <2> QED
    BY <2>2, <2>5, NothingQueued DEF TakenAlong
<1>3. CASE CasResume(t)
  <2>1. ~slot.live
    BY <1>1, <1>3 DEF CasResume, Sound, Holds, Holding, Reserving
  <2> QED
    BY <2>1 DEF TakenAlong
<1>4. CASE Swap(t)
  <2>1. \E v : slot' = [slot EXCEPT !.live = TRUE] \/ slot' = [slot EXCEPT !.owner = v, !.live = TRUE]
    BY <1>4, Zenon DEF Swap
  <2>2. slot'.next = slot.next
    BY <1>1, <2>1 DEF Registrations
  <2> QED
    BY <2>2, NothingQueued
<1>5. CASE Drop(t)
  <2>1. slot.interrupted
    BY <1>1, <1>5 DEF Drop, Sound, Holds, Holding
  <2> QED
    BY <2>1 DEF TakenAlong
<1> QED
  BY <1>2, <1>3, <1>4, <1>5

LEMMA StepTakesAlong == ASSUME RegistryInv, [Next]_vars PROVE TakenAlong
<1>1. CASE UNCHANGED slot
  BY <1>1, NothingQueued
<1>2. CASE slot = NoSlot
  BY <1>2, NothingQueued DEF NoSlot
<1>3. ASSUME NEW t \in Threads, Request(t) \/ Hook(t) \/ Reap(t) PROVE TakenAlong
  <2>1. CASE Interrupt(t)
    BY <2>1, QueuedTakesAlong
  <2>2. CASE SubmitSource(t)
    BY <1>2, <2>2, Zenon DEF SubmitSource
  <2>3. CASE SubmitMessage(t) \/ SubmitCorrection(t) \/ CompactManual(t) \/ Hook(t) \/ Reap(t)
    BY <1>1, <2>3, Zenon DEF SubmitMessage, SubmitCorrection, CompactManual, Hook, TerminalHook, Reap
  <2> QED
    BY <1>3, <2>1, <2>2, <2>3, Zenon DEF Request
<1>4. ASSUME NEW t \in Threads, Work(t) PROVE TakenAlong
  <2>1. CASE RegisterQueued(t) \/ Leave(t) \/ CasResume(t) \/ Swap(t) \/ Drop(t)
    BY <2>1, QueuedTakesAlong, ReleaseTakesAlong, Zenon
  <2>2. CASE RegisterStart(t) \/ Reserve(t)
    BY <1>1, <1>2, <2>2, Zenon DEF RegisterStart, Reserve
  <2>3. CASE \/ Preempt(t) \/ CreateRun(t) \/ BindPendingCorrectionRun(t) \/ RegisterBusy(t) \/ Supersede(t)
             \/ Cancel(t) \/ Canceled(t) \/ Load(t) \/ SegmentDispatch(t) \/ SegmentComplete(t)
             \/ SegmentError(t) \/ SegmentContinue(t) \/ Boundary(t) \/ Mark(t) \/ Revalidate(t)
    BY <1>1, <2>3, Zenon DEF Preempt, CreateRun, BindPendingCorrectionRun, RegisterBusy, Supersede, Cancel, Canceled,
                             Load, SegmentDispatch, SegmentComplete, SegmentError, SegmentContinue, Boundary,
                             Mark, Revalidate
  <2>4. CASE \/ Resume(t) \/ Done(t) \/ Complete(t) \/ Check(t) \/ CompactBackground(t) \/ CompactEnd(t)
             \/ StopNext(t) \/ StopTasks(t) \/ StopList(t) \/ StopParked(t) \/ StopDone(t)
             \/ RunIsAbandoned(t) \/ AbandonStrandedRun(t) \/ Reaped(t)
    BY <1>1, <2>4, Zenon DEF Resume, Done, Complete, Check, CompactBackground, CompactEnd, StopNext, StopTasks,
                             StopList, StopParked, StopDone, RunIsAbandoned, AbandonStrandedRun, Reaped
  <2> QED
    BY <1>4, <2>1, <2>2, <2>3, <2>4, Zenon DEF Work
<1>5. CASE TaskEnds \/ Ages
  BY <1>1, <1>5, Zenon DEF TaskEnds, TaskEnd, Ages, Age
<1>6. CASE UNCHANGED vars
  BY <1>1, <1>6 DEF vars
<1> QED
  BY <1>3, <1>4, <1>5, <1>6, Zenon DEF Next

\* registerRun, unregisterRun and Interrupt (runner_lifecycle.go): a queued
\* request that leaves the slot is in the hands of the goroutine that removed
\* it, which starts it or ends its row, unless the slot was stopped or a
\* placeholder was cleared.
THEOREM QueuedRequestsAreTakenAlong == Spec => ForgottenOnlyWhenStopped
<1>1. RegistryInv /\ [Next]_vars =>
        [\A r \in Runs :
           slot.next = r /\ slot'.next # r /\ run'[r].status = "pending"
             => \/ \E t \in Threads : r \in {thread'[t].run, thread'[t].next}
                \/ slot.interrupted \/ ~slot.live]_vars
  BY StepTakesAlong DEF TakenAlong
<1> QED
  BY <1>1, Invariance, PTL DEF Spec, ForgottenOnlyWhenStopped
=============================================================================
