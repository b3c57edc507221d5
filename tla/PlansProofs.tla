----------------------------- MODULE PlansProofs -----------------------------
(***************************************************************************)
(* ApprovedRuns holds of every plan, for every set of requests, runs and   *)
(* file states. It speaks of approvals and runs only where there are some; *)
(* that an earlier plan has neither (Early), and that its author has not   *)
(* stored it yet while it is still to be drafted (Undrafted), and that a   *)
(* run is over before its plan is reset (Parting), make it inductive.      *)
(***************************************************************************)
EXTENDS Plans, TLAPS

Statuses == {"none", "draft", "in_review", "approved", "executing", "executed", "stale", "cancelled"}
Steps == {"begin", "draft", "trigger", "review", "reflect", "done"}
RunStatuses == {"none", "pending", "running", "working", "parked", "completed", "interrupted"}

Snapshots == [gen : Nat, files : Files \cup {"none"}]

\* Types of what the invariant speaks of.
PlansTypes ==
    /\ plan \in [status : Statuses, snap : Snapshots]
    /\ author \in [pc : Steps, snap : Snapshots]
    /\ inputs \in Snapshots
    /\ approvals \subseteq Requests
    /\ planRun \in [PlanRuns -> [status : RunStatuses, snap : Snapshots, reset : BOOLEAN]]
    /\ torn \in BOOLEAN

Undrafted == author.pc \in {"begin", "draft"} => plan.status = "none"

Early ==
    /\ plan.status \in {"none", "draft", "in_review"} => approvals = {}
    /\ plan.status = "none" => \A n \in PlanRuns : planRun[n].status = "none" /\ ~planRun[n].reset

\* A run whose plan is still to be reset has ended already.
Parting == \A n \in PlanRuns : planRun[n].reset => planRun[n].status = "interrupted"

PlansInv == PlansTypes /\ Undrafted /\ Early /\ Parting /\ ApprovedRuns

\* Before anything happens there is neither a plan nor a run.

LEMMA InitHolds == PlansInit => PlansInv
<1> SUFFICES ASSUME NEW f \in Files, PlansBegin(f)
             PROVE  PlansInv
  BY DEF PlansInit
<1> DEFINE Runs == [status : RunStatuses, snap : Snapshots, reset : BOOLEAN]
<1>1. NoRun \in Runs
  BY DEF NoRun, RunStatuses, Snapshots
<1>2. PlansTypes
  <2>1. NoRun.snap \in Snapshots
    BY DEF NoRun, Snapshots
  <2>2. inputs \in Snapshots
    BY DEF PlansBegin, Snapshots
  <2>3. plan \in [status : Statuses, snap : Snapshots]
    BY <2>1 DEF PlansBegin, Statuses
  <2>4. author \in [pc : Steps, snap : Snapshots]
    BY <2>1 DEF PlansBegin, Steps
  <2>5. planRun \in [PlanRuns -> Runs]
    BY <1>1 DEF PlansBegin
  <2> QED
    BY <2>2, <2>3, <2>4, <2>5 DEF PlansBegin, PlansTypes
<1>3. \A n \in PlanRuns : planRun[n].status = "none" /\ ~planRun[n].reset
  BY DEF PlansBegin, NoRun
<1>4. Undrafted /\ Early /\ Parting
  BY <1>3 DEF PlansBegin, Undrafted, Early, Parting
<1>5. ApprovedRuns
  BY <1>3 DEF PlansBegin, ApprovedRuns, Holds, Active
<1> QED
  BY <1>2, <1>4, <1>5 DEF PlansInv

\* What neither the plan nor its runs nor its approvals move keeps the invariant.
LEMMA Elsewhere ==
    ASSUME PlansInv, UNCHANGED <<plan, approvals, planRun, torn>>,
           author' \in [pc : Steps, snap : Snapshots], inputs' \in Snapshots,
           author'.pc \in {"begin", "draft"} => author.pc \in {"begin", "draft"}
    PROVE  PlansInv'
BY DEF PlansInv, PlansTypes, Undrafted, Early, Parting, ApprovedRuns, Holds, Active

\* A plan that no run holds may take a status that gives nobody leave.
LEMMA Shelved ==
    ASSUME PlansInv, plan.status \notin {"none", "executing", "executed"},
           UNCHANGED <<inputs, approvals, planRun, torn>>,
           author' \in [pc : Steps, snap : Snapshots], author'.pc \notin {"begin", "draft"},
           NEW s \in {"cancelled", "stale"}, Becomes(s)
    PROVE  PlansInv'
BY DEF PlansInv, PlansTypes, Undrafted, Early, Parting, ApprovedRuns, Holds, Active, Becomes, Statuses

\* A plan that waits for a decision becomes another that no run may execute.
LEMMA AuthorKeeps ==
    ASSUME PlansInv, \/ TakeSnapshot \/ PersistPlanDraft \/ TriggerPlanReview \/ PersistPlanReview \/ Reflect
    PROVE  PlansInv'
<1>1. CASE TakeSnapshot
  BY <1>1, Elsewhere DEF TakeSnapshot, PlansInv, PlansTypes, Steps
<1>2. CASE PersistPlanDraft
  <2>1. plan.status = "none" /\ plan' = [status |-> "draft", snap |-> author.snap]
    BY <1>2 DEF PersistPlanDraft, AuthorGoes, PlansInv, Undrafted
  <2>2. \A n \in PlanRuns : planRun[n].status = "none" /\ ~planRun[n].reset
    BY <2>1 DEF PlansInv, Early
  <2>3. PlansTypes'
    BY <1>2, <2>1 DEF PersistPlanDraft, AuthorGoes, PlansInv, PlansTypes, Statuses, Steps
  <2>4. Undrafted' /\ Early' /\ Parting'
    BY <1>2, <2>1 DEF PersistPlanDraft, AuthorGoes, PlansInv, PlansTypes, Undrafted, Early, Parting
  <2>5. ApprovedRuns'
    BY <1>2, <2>1, <2>2 DEF PersistPlanDraft, PlansInv, ApprovedRuns, Holds, Active
  <2> QED
    BY <2>3, <2>4, <2>5 DEF PlansInv
<1>3. CASE TriggerPlanReview
  <2>1. CASE AuthorGoes("trigger", "review") /\ plan.status = "draft" /\ Becomes("in_review")
    BY <1>3, <2>1 DEF TriggerPlanReview, AuthorGoes, Becomes, PlansInv, PlansTypes, Undrafted, Early, Parting,
       ApprovedRuns, Holds, Active, Statuses, Steps
  <2>2. CASE AuthorGoes("trigger", "done") /\ UNCHANGED plan
    BY <1>3, <2>2, Elsewhere DEF TriggerPlanReview, AuthorGoes, PlansInv, PlansTypes, Steps
  <2> QED
    BY <1>3, <2>1, <2>2 DEF TriggerPlanReview
<1>4. CASE PersistPlanReview
  BY <1>4, Elsewhere DEF PersistPlanReview, AuthorGoes, PlansInv, PlansTypes, Steps
<1>5. CASE Reflect
  <2>1. author' \in [pc : Steps, snap : Snapshots] /\ author'.pc = "done"
    BY <1>5 DEF Reflect, AuthorGoes, PlansInv, PlansTypes, Steps
  <2>2. CASE plan.status = "in_review"
    BY <1>5, <2>1, <2>2, Shelved DEF Reflect
  <2>3. CASE plan.status # "in_review"
    BY <1>5, <2>1, <2>3, Elsewhere DEF Reflect, PlansInv, PlansTypes
  <2> QED
    BY <2>2, <2>3
<1> QED
  BY <1>1, <1>2, <1>3, <1>4, <1>5

\* What requests do to the plan, but for the run they create.
LEMMA RequestsKeep ==
    ASSUME PlansInv, NEW r \in Requests,
           \/ MarkPlanStale(r) \/ CreatePlanApproval(r) \/ CancelPlan(r)
    PROVE  PlansInv'
<1> USE DEF PlansInv
<1>1. CASE MarkPlanStale(r)
  <2>1. CASE MayGoStale /\ Undrafted' /\ plan.status # "none"
    BY <1>1, <2>1, Shelved DEF MarkPlanStale, MayGoStale, PlansTypes, Undrafted, Becomes
  <2>2. CASE ~MayGoStale
    BY <1>1, <2>2, Elsewhere DEF MarkPlanStale, PlansTypes
  <2> QED
    BY <1>1, <2>1, <2>2 DEF MarkPlanStale, MayGoStale, Undrafted
<1>2. CASE CreatePlanApproval(r)
  <2>1. CASE plan.status = "in_review"
    BY <1>2, <2>1 DEF CreatePlanApproval, Becomes, PlansTypes, Undrafted, Early, Parting, ApprovedRuns, Holds,
       Active, Statuses
  <2>2. CASE plan.status # "in_review"
    BY <1>2, <2>2, Elsewhere DEF CreatePlanApproval, PlansTypes
  <2> QED
    BY <2>1, <2>2
<1>3. CASE CancelPlan(r)
  BY <1>3, Shelved DEF CancelPlan, Cancellable, PlansTypes, Undrafted
<1> QED
  BY <1>1, <1>2, <1>3

\* A new run takes a plan that no run holds, with the plan's own snapshot.
LEMMA CreateRunKeeps ==
    ASSUME PlansInv, NEW r \in Requests, CreateRun(r)
    PROVE  PlansInv'
<1> DEFINE Runs == [status : RunStatuses, snap : Snapshots, reset : BOOLEAN]
           fresh == [status |-> "pending", snap |-> plan.snap, reset |-> FALSE]
<1>1. PICK n \in PlanRuns : planRun' = [planRun EXCEPT ![n] = fresh]
  BY DEF CreateRun, Started
<1>2. plan.status = "approved" /\ plan' = [plan EXCEPT !.status = "executing"]
      /\ UNCHANGED <<author, inputs, approvals, torn>>
  BY DEF CreateRun, Becomes
<1>3. ~torn /\ \A m \in PlanRuns : ~Holds(m) /\ planRun[m].status # "completed"
  BY <1>2 DEF PlansInv, ApprovedRuns
<1>4. fresh \in Runs
  BY DEF PlansInv, PlansTypes, RunStatuses
<1>5. planRun'[n] = fresh /\ \A m \in PlanRuns : m # n => planRun'[m] = planRun[m]
  BY <1>1 DEF PlansInv, PlansTypes
<1>6. \A m \in PlanRuns : Holds(m)' <=> m = n
  BY <1>3, <1>5 DEF Holds, Active
<1>7. PlansTypes'
  <2>1. planRun' \in [PlanRuns -> Runs]
    BY <1>1, <1>4 DEF PlansInv, PlansTypes
  <2>2. plan' \in [status : Statuses, snap : Snapshots]
    BY <1>2 DEF PlansInv, PlansTypes, Statuses
  <2> QED
    BY <1>2, <2>1, <2>2 DEF PlansInv, PlansTypes
<1>8. Undrafted' /\ Early' /\ Parting'
  BY <1>2, <1>5 DEF PlansInv, PlansTypes, Undrafted, Early, Parting
<1>9. ApprovedRuns'
  <2>1. plan'.status = "executing" /\ plan'.snap = plan.snap
    BY <1>2 DEF PlansInv, PlansTypes
  <2>2. \A m \in PlanRuns : planRun'[m].status # "completed"
    BY <1>3, <1>5
  <2>3. \E q \in Requests : approvals' = {q}
    BY <1>2 DEF PlansInv, ApprovedRuns
  <2>4. \A m \in PlanRuns : planRun'[m].status # "none" => planRun'[m].snap = plan'.snap /\ approvals' # {}
    BY <1>2, <1>5, <2>1, <2>3 DEF PlansInv, ApprovedRuns
  <2> QED
    BY <1>2, <1>3, <1>6, <2>1, <2>2, <2>3, <2>4 DEF ApprovedRuns
<1> QED
  BY <1>7, <1>8, <1>9 DEF PlansInv

\* While a run holds the plan, the plan is executing and no other run counts.
LEMMA HolderIsAlone ==
    ASSUME PlansInv, NEW n \in PlanRuns, Holds(n)
    PROVE  /\ plan.status = "executing" /\ ~torn
           /\ \A m \in PlanRuns : /\ Holds(m) <=> m = n
                                 /\ planRun[m].status # "completed"
           /\ author.pc \notin {"begin", "draft"}
BY DEF PlansInv, ApprovedRuns, Undrafted

\* What the run that holds the plan may do to both: keep it, free it, finish
\* it, or let it go without a word (CancelContinuationRun, LoseReset).
LEMMA HolderMoves ==
    ASSUME PlansInv, NEW n \in PlanRuns, Holds(n),
           NEW s \in RunStatuses \ {"none"}, NEW b \in BOOLEAN, b => s = "interrupted",
           planRun' = [planRun EXCEPT ![n].status = s, ![n].reset = b],
           UNCHANGED <<inputs, approvals>>,
           author' \in [pc : Steps, snap : Snapshots], author'.pc \notin {"begin", "draft"},
           \/ (b \/ s \in {"pending", "running", "working", "parked"}) /\ UNCHANGED <<plan, torn>>
           \/ s = "interrupted" /\ ~b /\ Becomes("approved") /\ UNCHANGED torn
           \/ s = "completed" /\ ~b /\ Becomes("executed") /\ UNCHANGED torn
           \/ s = "interrupted" /\ ~b /\ torn' = TRUE /\ UNCHANGED plan
    PROVE  PlansInv'
<1> DEFINE Runs == [status : RunStatuses, snap : Snapshots, reset : BOOLEAN]
           moved == [planRun[n] EXCEPT !.status = s, !.reset = b]
<1> USE DEF PlansInv
<1>1. /\ plan.status = "executing" /\ ~torn
      /\ \A m \in PlanRuns : Holds(m) <=> m = n
      /\ \A m \in PlanRuns : planRun[m].status # "completed"
  BY HolderIsAlone
<1>2. planRun[n] \in Runs /\ planRun[n].status # "none"
  BY <1>1 DEF PlansTypes, Parting, Holds, Active
<1>3. planRun' = [planRun EXCEPT ![n] = moved] /\ moved \in Runs
  BY <1>2 DEF PlansTypes
<1>4. /\ planRun'[n] = moved
      /\ moved.status = s /\ moved.reset = b /\ moved.snap = planRun[n].snap
      /\ \A m \in PlanRuns : m # n => planRun'[m] = planRun[m]
  BY <1>2, <1>3 DEF PlansTypes
<1>5. PlansTypes'
  <2>1. planRun' \in [PlanRuns -> Runs]
    BY <1>3 DEF PlansTypes
  <2>2. plan' \in [status : Statuses, snap : Snapshots] /\ plan'.snap = plan.snap /\ torn' \in BOOLEAN
    BY DEF PlansTypes, Becomes, Statuses
  <2> QED
    BY <2>1, <2>2 DEF PlansTypes
<1>6. plan'.snap = plan.snap /\ plan'.status \in {"executing", "approved", "executed"}
  BY <1>1 DEF PlansTypes, Becomes
<1>7. Undrafted' /\ Early' /\ Parting'
  BY <1>4, <1>6 DEF Undrafted, Early, Parting
<1>8. \A m \in PlanRuns : m # n => ~Holds(m)' /\ planRun'[m].status # "completed"
  BY <1>1, <1>4 DEF Holds, Active
<1>9. Holds(n)' <=> (b \/ s \in {"pending", "running", "working", "parked"})
  BY <1>4 DEF Holds, Active
<1>10. \A m \in PlanRuns : planRun'[m].status # "none" => planRun'[m].snap = plan'.snap /\ approvals' # {}
  BY <1>2, <1>4, <1>6 DEF ApprovedRuns
<1>11. \E r \in Requests : approvals' = {r}
  BY <1>1 DEF ApprovedRuns
<1>12. CASE (b \/ s \in {"pending", "running", "working", "parked"}) /\ UNCHANGED <<plan, torn>>
  BY <1>1, <1>4, <1>5, <1>7, <1>8, <1>9, <1>10, <1>11, <1>12 DEF ApprovedRuns
<1>13. CASE s = "interrupted" /\ ~b /\ Becomes("approved") /\ UNCHANGED torn
  <2>1. plan'.status = "approved"
    BY <1>13 DEF PlansTypes, Becomes
  <2> QED
    BY <2>1, <1>1, <1>4, <1>5, <1>7, <1>8, <1>9, <1>10, <1>11, <1>13 DEF ApprovedRuns
<1>14. CASE s = "completed" /\ ~b /\ Becomes("executed") /\ UNCHANGED torn
  <2>1. plan'.status = "executed"
    BY <1>14 DEF PlansTypes, Becomes
  <2> QED
    BY <2>1, <1>1, <1>4, <1>5, <1>7, <1>8, <1>9, <1>10, <1>11, <1>14 DEF ApprovedRuns
<1>15. CASE s = "interrupted" /\ ~b /\ torn' = TRUE /\ UNCHANGED plan
  BY <1>1, <1>4, <1>5, <1>7, <1>8, <1>9, <1>10, <1>11, <1>15 DEF ApprovedRuns
<1> QED
  BY <1>12, <1>13, <1>14, <1>15

\* Every step of a run is one of those moves.
LEMMA RunsKeep ==
    ASSUME PlansInv, NEW n \in PlanRuns,
           \/ Segment(n) \/ CompleteRun(n) \/ FailRun(n)
           \/ CancelContinuationRun(n) \/ ResetPlan(n) \/ LoseReset(n)
    PROVE  PlansInv'
<1> USE DEF PlansInv
<1>1. Holds(n)
  BY DEF Segment, CompleteRun, FailRun, CancelContinuationRun, ResetPlan, LoseReset, RunGoes, Holds, Active
<1>2. plan.status = "executing" /\ author.pc \notin {"begin", "draft"}
  BY <1>1, HolderIsAlone
<1>3. /\ UNCHANGED <<author, inputs, approvals>>
      /\ author' \in [pc : Steps, snap : Snapshots] /\ author'.pc \notin {"begin", "draft"}
  BY <1>2 DEF Segment, CompleteRun, FailRun, CancelContinuationRun, ResetPlan, LoseReset, PlansTypes
<1>4. \A s \in RunStatuses : planRun[n].status # "interrupted" =>
          [planRun EXCEPT ![n].status = s] = [planRun EXCEPT ![n].status = s, ![n].reset = FALSE]
  BY DEF PlansTypes, Parting
<1>5. \A b \in BOOLEAN : planRun[n].status = "interrupted" =>
          [planRun EXCEPT ![n].reset = b] = [planRun EXCEPT ![n].status = "interrupted", ![n].reset = b]
  BY DEF PlansTypes
<1>6. CASE Segment(n)
  <2>1. PICK s \in {"running", "working", "parked"} : planRun' = [planRun EXCEPT ![n].status = s]
    BY <1>6 DEF Segment, RunGoes
  <2>2. UNCHANGED <<plan, torn>> /\ planRun[n].status # "interrupted"
    BY <1>6 DEF Segment, RunGoes
  <2>3. s \in RunStatuses \ {"none"}
    BY DEF RunStatuses
  <2>4. planRun' = [planRun EXCEPT ![n].status = s, ![n].reset = FALSE]
    BY <1>4, <2>1, <2>2, <2>3
  <2> QED
    BY <1>1, <1>3, <2>2, <2>3, <2>4, HolderMoves
<1>7. CASE CompleteRun(n)
  <2>1. /\ planRun' = [planRun EXCEPT ![n].status = "completed"] /\ planRun[n].status # "interrupted"
        /\ Becomes("executed") /\ UNCHANGED torn
    BY <1>2, <1>7 DEF CompleteRun, RunGoes
  <2>2. "completed" \in RunStatuses \ {"none"}
    BY DEF RunStatuses
  <2>3. planRun' = [planRun EXCEPT ![n].status = "completed", ![n].reset = FALSE]
    BY <1>4, <2>1, <2>2
  <2> QED
    BY <1>1, <1>3, <2>1, <2>2, <2>3, HolderMoves
<1>8. CASE FailRun(n)
  <2>1. /\ planRun' = [planRun EXCEPT ![n].status = "interrupted"] /\ planRun[n].status # "interrupted"
        /\ Becomes("approved") /\ UNCHANGED torn
    BY <1>2, <1>8 DEF FailRun, RunGoes
  <2>2. "interrupted" \in RunStatuses \ {"none"}
    BY DEF RunStatuses
  <2>3. planRun' = [planRun EXCEPT ![n].status = "interrupted", ![n].reset = FALSE]
    BY <1>4, <2>1, <2>2
  <2> QED
    BY <1>1, <1>3, <2>1, <2>2, <2>3, HolderMoves
<1>9. CASE CancelContinuationRun(n)
  <2>1. /\ planRun' = [planRun EXCEPT ![n].status = "interrupted", ![n].reset = TRUE]
        /\ UNCHANGED <<plan, torn>>
    BY <1>9 DEF CancelContinuationRun
  <2>2. "interrupted" \in RunStatuses \ {"none"}
    BY DEF RunStatuses
  <2> QED
    BY <1>1, <1>3, <2>1, <2>2, HolderMoves
<1>10. CASE ResetPlan(n) \/ LoseReset(n)
  <2>1. planRun[n].status = "interrupted" /\ planRun' = [planRun EXCEPT ![n].reset = FALSE]
    BY <1>10 DEF ResetPlan, LoseReset, Parting
  <2>2. "interrupted" \in RunStatuses \ {"none"}
    BY DEF RunStatuses
  <2>3. planRun' = [planRun EXCEPT ![n].status = "interrupted", ![n].reset = FALSE]
    BY <1>5, <2>1
  <2>4. (Becomes("approved") /\ UNCHANGED torn) \/ (torn' = TRUE /\ UNCHANGED plan)
    BY <1>2, <1>10 DEF ResetPlan, LoseReset
  <2> QED
    BY <1>1, <1>3, <2>2, <2>3, <2>4, HolderMoves
<1> QED
  BY <1>6, <1>7, <1>8, <1>9, <1>10

\* A crash takes the run that holds the plan with it, unless it is parked.
LEMMA CrashKeeps ==
    ASSUME PlansInv, CrashAndRecover
    PROVE  PlansInv'
<1> DEFINE lost == {n \in Active : planRun[n].status # "parked"}
           Runs == [status : RunStatuses, snap : Snapshots, reset : BOOLEAN]
           left(n) == [planRun[n] EXCEPT !.reset = FALSE,
                                         !.status = IF n \in lost THEN "interrupted" ELSE planRun[n].status]
<1> USE DEF PlansInv
<1>1. /\ planRun' = [n \in PlanRuns |-> left(n)]
      /\ UNCHANGED <<inputs, approvals>>
      /\ torn' = (torn \/ \E n \in PlanRuns : planRun[n].reset)
      /\ author' = [author EXCEPT !.pc = "done"]
      /\ IF lost # {} /\ plan.status = "executing" THEN Becomes("approved") ELSE UNCHANGED plan
  BY DEF CrashAndRecover
<1>2. author' \in [pc : Steps, snap : Snapshots] /\ author'.pc \notin {"begin", "draft"}
  BY <1>1 DEF PlansTypes, Steps
<1>3. \A n \in PlanRuns : left(n) \in Runs
  BY DEF PlansTypes, RunStatuses
<1>4. planRun' \in [PlanRuns -> Runs]
  BY <1>1, <1>3
<1>5. CASE \A n \in PlanRuns : ~Holds(n)
  <2>1. lost = {} /\ \A n \in PlanRuns : ~planRun[n].reset
    BY <1>5 DEF Holds, Active
  <2>2. UNCHANGED <<plan, torn>>
    BY <1>1, <2>1 DEF PlansTypes
  <2>3. \A n \in PlanRuns : left(n) = planRun[n]
    BY <2>1 DEF PlansTypes
  <2>4. planRun' = planRun
    BY <1>1, <2>3 DEF PlansTypes
  <2> QED
    BY <1>1, <1>2, <2>2, <2>4, Elsewhere DEF PlansTypes
<1>6. CASE \E n \in PlanRuns : Holds(n)
  <2>1. PICK n \in PlanRuns : Holds(n)
    BY <1>6
  <2>2. plan.status = "executing" /\ ~torn /\ \A m \in PlanRuns : Holds(m) <=> m = n
    BY <2>1, HolderIsAlone
  <2>3. \A m \in PlanRuns : m # n => left(m) = planRun[m]
    BY <2>2 DEF PlansTypes, Holds, Active
  <2> DEFINE s == IF n \in lost THEN "interrupted" ELSE planRun[n].status
  <2>4. planRun' = [planRun EXCEPT ![n].status = s, ![n].reset = FALSE]
    BY <1>1, <2>3 DEF PlansTypes
  <2>5. planRun[n].status \in RunStatuses \ {"none"} /\ (planRun[n].reset <=> n \notin Active)
    BY <2>1 DEF PlansTypes, Parting, Holds, Active
  <2>6. /\ planRun[n].reset => torn' = TRUE
        /\ ~planRun[n].reset => UNCHANGED torn
    BY <1>1, <2>2 DEF Holds, PlansTypes
  <2>7. lost \subseteq {n}
    BY <2>2 DEF Holds, Active
  <2>8. s \in RunStatuses \ {"none"}
    BY <2>5 DEF RunStatuses
  <2>9. CASE planRun[n].reset
    <3>1. s = "interrupted" /\ UNCHANGED plan /\ torn' = TRUE
      BY <1>1, <2>5, <2>6, <2>7, <2>9 DEF Parting
    <3> HIDE DEF s
    <3> QED
      BY <1>1, <1>2, <2>1, <2>4, <2>8, <3>1, HolderMoves
  <2>10. CASE ~planRun[n].reset /\ n \in lost
    <3>1. s = "interrupted" /\ Becomes("approved") /\ UNCHANGED torn
      BY <1>1, <2>2, <2>6, <2>10
    <3> HIDE DEF s
    <3> QED
      BY <1>1, <1>2, <2>1, <2>4, <2>8, <3>1, HolderMoves
  <2>11. CASE ~planRun[n].reset /\ n \notin lost
    <3>1. s = "parked" /\ UNCHANGED <<plan, torn>>
      BY <1>1, <2>2, <2>5, <2>6, <2>7, <2>11 DEF Active
    <3> HIDE DEF s
    <3> QED
      BY <1>1, <1>2, <2>1, <2>4, <2>8, <3>1, HolderMoves
  <2> QED
    BY <2>9, <2>10, <2>11
<1> QED
  BY <1>5, <1>6

\* Every step of the plan, its requests and its runs keeps the invariant.
LEMMA StepHolds == PlansInv /\ [PlansNext]_plansVars => PlansInv'
<1> SUFFICES ASSUME PlansInv, [PlansNext]_plansVars PROVE PlansInv'
  OBVIOUS
<1> USE DEF PlansInv
<1>1. CASE InputsChange
  <2>1. inputs' \in Snapshots
    BY <1>1 DEF InputsChange, PlansTypes, Snapshots
  <2> QED
    BY <1>1, <2>1, Elsewhere DEF InputsChange, PlansTypes
<1>2. CASE TakeSnapshot \/ PersistPlanDraft \/ TriggerPlanReview \/ PersistPlanReview \/ Reflect
  BY <1>2, AuthorKeeps
<1>3. ASSUME NEW r \in Requests,
             \/ Ask(r, "approve") \/ Ask(r, "execute")
             \/ Passes(r, "approve", "decide") \/ FindStale(r, "approve")
             \/ Passes(r, "execute", "submit") \/ FindStale(r, "execute") \/ SubmitApprovedPlan(r)
             \/ Passes(r, "compare", "create") \/ FindStale(r, "compare") \/ RefuseRun(r)
      PROVE  PlansInv'
  <2>1. UNCHANGED <<plan, approvals, planRun, torn, author, inputs>>
    BY <1>3 DEF Ask, Passes, FindStale, SubmitApprovedPlan, RefuseRun
  <2> QED
    BY <2>1, Elsewhere DEF PlansTypes
<1>4. ASSUME NEW r \in Requests,
             \/ MarkPlanStale(r) \/ CreatePlanApproval(r) \/ CancelPlan(r) \/ CreateRun(r)
      PROVE  PlansInv'
  BY <1>4, RequestsKeep, CreateRunKeeps
<1>5. ASSUME NEW n \in PlanRuns,
             \/ Segment(n) \/ CompleteRun(n) \/ FailRun(n)
             \/ CancelContinuationRun(n) \/ ResetPlan(n) \/ LoseReset(n)
      PROVE  PlansInv'
  BY <1>5, RunsKeep
<1>6. CASE CrashAndRecover
  BY <1>6, CrashKeeps
<1>7. CASE UNCHANGED plansVars
  BY <1>7, Elsewhere DEF plansVars, PlansTypes
<1> QED
  BY <1>1, <1>2, <1>3, <1>4, <1>5, <1>6, <1>7 DEF PlansNext

\* Whatever requests, runs and crashes do, a plan is approved once, by one
\* request, before it runs; it is run by one run at a time with the inputs it
\* was approved with; and its status tells whether a run holds it.
THEOREM ApprovedRunsHolds == PlansSpec => []ApprovedRuns
<1>1. PlansInv => ApprovedRuns
  BY DEF PlansInv
<1> QED
  BY <1>1, InitHolds, StepHolds, PTL DEF PlansSpec
=============================================================================
