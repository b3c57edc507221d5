------------------------------- MODULE Plans -------------------------------
(***************************************************************************)
(* One durable plan of an agent (internal/db/plans.go), from its draft to  *)
(* the runs that execute it. A plan records the inputs it was drawn up     *)
(* against: generations kept in the database and fingerprints of tools,    *)
(* workspace and Git kept outside. The author, a plan-mode run or a manual *)
(* submission, has it reviewed; HTTP requests approve, execute or cancel   *)
(* it, each in several transactions; runs execute it, park, end, and may   *)
(* be lost in a crash.                                                     *)
(*                                                                         *)
(* No caller of the program changes a plan's revision once it is in        *)
(* review, so revisions are left out: every comparison of them succeeds.   *)
(***************************************************************************)
EXTENDS Integers, FiniteSets

CONSTANTS
    Requests,        \* HTTP requests about the plan
    PlanRuns,        \* execute-mode runs of the plan
    Files,           \* states of tools, workspace and Git
    MaxInputs,       \* bound: changes of a generation
    MaxPlanFaults    \* bound: crashes and failed writes, together

ASSUME PlansAssumption == MaxInputs \in Nat /\ MaxPlanFaults \in Nat /\ Files # {}

VARIABLES
    plan,       \* the row: status and input snapshot
    inputs,     \* generations and fingerprints as they are now
    author,     \* the plan-mode run or manual submission: [pc, snap]
    reviews,    \* rows of plan_reviews
    approvals,  \* requests whose approval is a row of plan_approvals
    request,    \* request -> [pc, sawApproved]
    planRun,    \* run -> [status, snap, reset]
    faults,     \* history: crashes and failed writes
    torn        \* history: a plan's reset was lost after its run had ended

plansVars == <<plan, inputs, author, reviews, approvals, request, planRun, faults, torn>>

NoRun == [status |-> "none", snap |-> [gen |-> 0, files |-> "none"], reset |-> FALSE]
Asleep == [pc |-> "idle", sawApproved |-> FALSE]

PlansBegin(files) ==
    /\ inputs = [gen |-> 1, files |-> files]
    /\ plan = [status |-> "none", snap |-> NoRun.snap]
    /\ author = [pc |-> "begin", snap |-> NoRun.snap]
    /\ reviews = 0
    /\ approvals = {}
    /\ request = [r \in Requests |-> Asleep]
    /\ planRun = [n \in PlanRuns |-> NoRun]
    /\ faults = 0
    /\ torn = FALSE

PlansInit == \E f \in Files : PlansBegin(f)

Active == {n \in PlanRuns : planRun[n].status \in {"pending", "running", "working", "parked"}}
Current == plan.snap = inputs

Becomes(status) == plan' = [plan EXCEPT !.status = status]

\* canTransitionPlanStatus, of the transitions the program asks for.
Cancellable == plan.status \in {"draft", "in_review", "approved", "stale"}

\* MarkPlanStale refuses a plan that runs, has run or was cancelled.
MayGoStale == plan.status \in {"draft", "in_review", "approved", "stale"}

InputsChange ==
    /\ \/ inputs.gen <= MaxInputs /\ inputs' = [inputs EXCEPT !.gen = @ + 1]
       \/ \E f \in Files \ {inputs.files} : inputs' = [inputs EXCEPT !.files = f]
    /\ UNCHANGED <<plan, author, reviews, approvals, request, planRun, faults, torn>>

-----------------------------------------------------------------------------
(* The author *)

AuthorGoes(from, to) ==
    /\ author.pc = from
    /\ author' = [author EXCEPT !.pc = to]

\* The snapshot is taken before the draft is stored.
TakeSnapshot ==
    /\ author.pc = "begin"
    /\ author' = [pc |-> "draft", snap |-> inputs]
    /\ UNCHANGED <<plan, inputs, reviews, approvals, request, planRun, faults, torn>>

PersistPlanDraft ==
    /\ AuthorGoes("draft", "trigger")
    /\ plan' = [status |-> "draft", snap |-> author.snap]
    /\ UNCHANGED <<inputs, reviews, approvals, request, planRun, faults, torn>>

TriggerPlanReview ==
    /\ \/ AuthorGoes("trigger", "review") /\ plan.status = "draft" /\ Becomes("in_review")
       \/ AuthorGoes("trigger", "done") /\ plan.status # "draft" /\ UNCHANGED plan
    /\ UNCHANGED <<inputs, reviews, approvals, request, planRun, faults, torn>>

\* The reviewer's verdict is stored only while the plan is still in review.
PersistPlanReview ==
    /\ \/ /\ plan.status = "in_review"
          /\ reviews' = reviews + 1
          /\ AuthorGoes("review", "reflect") \/ AuthorGoes("review", "done")
       \/ plan.status # "in_review" /\ AuthorGoes("review", "done") /\ UNCHANGED reviews
    /\ UNCHANGED <<plan, inputs, approvals, request, planRun, faults, torn>>

\* Reflection replaces a plan nobody decided on by a plan of its own.
Reflect ==
    /\ AuthorGoes("reflect", "done")
    /\ IF plan.status = "in_review" THEN Becomes("cancelled") ELSE UNCHANGED plan
    /\ UNCHANGED <<inputs, reviews, approvals, request, planRun, faults, torn>>

-----------------------------------------------------------------------------
(* Requests *)

Goes(r, from, to) ==
    /\ request[r].pc = from
    /\ request' = [request EXCEPT ![r].pc = to]

\* requireCurrentPlan reads the row, then takes a snapshot of the inputs.
Ask(r, purpose) ==
    /\ request[r].pc = "idle" /\ plan.status # "none"
    /\ request' = [request EXCEPT ![r] = 
          [pc |-> purpose, sawApproved |-> purpose = "execute" /\ plan.status = "approved"]]
    /\ UNCHANGED <<plan, inputs, author, reviews, approvals, planRun, faults, torn>>

Passes(r, from, to) ==
    /\ Current
    /\ Goes(r, from, to)
    /\ UNCHANGED <<plan, inputs, author, reviews, approvals, planRun, faults, torn>>

FindStale(r, from) ==
    /\ ~Current
    /\ Goes(r, from, "stale")
    /\ UNCHANGED <<plan, inputs, author, reviews, approvals, planRun, faults, torn>>

MarkPlanStale(r) ==
    /\ Goes(r, "stale", "idle")
    /\ IF MayGoStale THEN Becomes("stale") ELSE UNCHANGED plan
    /\ UNCHANGED <<inputs, author, reviews, approvals, planRun, faults, torn>>

CreatePlanApproval(r) ==
    /\ Goes(r, "decide", "idle")
    /\ IF plan.status = "in_review"
       THEN Becomes("approved") /\ approvals' = approvals \cup {r}
       ELSE UNCHANGED <<plan, approvals>>
    /\ UNCHANGED <<inputs, author, reviews, planRun, faults, torn>>

\* execute judges the status requireCurrentPlan read; SubmitApprovedPlan reads
\* and compares again.
SubmitApprovedPlan(r) ==
    /\ IF request[r].sawApproved /\ plan.status = "approved"
       THEN Goes(r, "submit", "compare") ELSE Goes(r, "submit", "idle")
    /\ UNCHANGED <<plan, inputs, author, reviews, approvals, planRun, faults, torn>>

\* The row of a run of the plan as it stands.
Started == [status |-> "pending", snap |-> plan.snap, reset |-> FALSE]

\* A slip: the status is not read again inside the transaction.
CreateRunUnchecked(r) ==
    /\ Goes(r, "create", "idle")
    /\ plan.snap.gen = inputs.gen
    /\ \E n \in PlanRuns :
          /\ planRun[n] = NoRun
          /\ n = CHOOSE m \in PlanRuns : planRun[m] = NoRun
          /\ planRun' = [planRun EXCEPT ![n] = Started]
    /\ Becomes("executing")
    /\ UNCHANGED <<inputs, author, reviews, approvals, faults, torn>>

\* CreateRun: the run and the plan's status change in one transaction, which
\* compares the generations but not the fingerprints.
CreateRun(r) ==
    /\ Goes(r, "create", "idle")
    /\ plan.status = "approved" /\ plan.snap.gen = inputs.gen
    /\ \E n \in PlanRuns :
          /\ planRun[n] = NoRun
          /\ n = CHOOSE m \in PlanRuns : planRun[m] = NoRun
          /\ planRun' = [planRun EXCEPT ![n] = Started]
    /\ Becomes("executing")
    /\ UNCHANGED <<inputs, author, reviews, approvals, faults, torn>>

RefuseRun(r) ==
    /\ Goes(r, "create", "idle")
    /\ plan.status # "approved" \/ plan.snap.gen # inputs.gen
    /\ UNCHANGED <<plan, inputs, author, reviews, approvals, planRun, faults, torn>>

\* cancel, and replan, which goes on to ask for another plan.
CancelPlan(r) ==
    /\ request[r].pc = "idle" /\ Cancellable
    /\ Becomes("cancelled")
    /\ UNCHANGED <<inputs, author, reviews, approvals, request, planRun, faults, torn>>

-----------------------------------------------------------------------------
(* Runs *)

RunGoes(n, from, to) ==
    /\ planRun[n].status \in from
    /\ planRun' = [planRun EXCEPT ![n].status = to]

\* validateContinuationBoundary: the inputs and the plan are those of the run.
BoundaryHolds(n) == planRun[n].snap = inputs /\ plan = [status |-> "executing", snap |-> planRun[n].snap]

\* A started run crosses the boundary before each segment.
Segment(n) ==
    /\ \/ RunGoes(n, {"pending"}, "running")
       \/ BoundaryHolds(n) /\ RunGoes(n, {"running"}, "working")
       \/ BoundaryHolds(n) /\ RunGoes(n, {"working"}, "parked")
       \/ BoundaryHolds(n) /\ RunGoes(n, {"parked"}, "running")
    /\ UNCHANGED <<plan, inputs, author, reviews, approvals, request, faults, torn>>

\* CompleteRun moves the run and its plan together.
CompleteRun(n) ==
    /\ RunGoes(n, {"working"}, "completed")
    /\ IF plan.status = "executing" THEN Becomes("executed") ELSE UNCHANGED plan
    /\ UNCHANGED <<inputs, author, reviews, approvals, request, faults, torn>>

\* An error, a Stop, a newer message, the reaper: the plan may be run again.
FailRun(n) ==
    /\ RunGoes(n, {"pending", "running", "working", "parked"}, "interrupted")
    /\ IF plan.status = "executing" THEN Becomes("approved") ELSE UNCHANGED plan
    /\ UNCHANGED <<inputs, author, reviews, approvals, request, faults, torn>>

\* CancelContinuationRun ends a parked run and resets its plan in two writes.
CancelContinuationRun(n) ==
    /\ planRun[n].status = "parked"
    /\ planRun' = [planRun EXCEPT ![n].status = "interrupted", ![n].reset = TRUE]
    /\ UNCHANGED <<plan, inputs, author, reviews, approvals, request, faults, torn>>

ResetPlan(n) ==
    /\ planRun[n].reset
    /\ planRun' = [planRun EXCEPT ![n].reset = FALSE]
    /\ IF plan.status = "executing" THEN Becomes("approved") ELSE UNCHANGED plan
    /\ UNCHANGED <<inputs, author, reviews, approvals, request, faults, torn>>

LoseReset(n) ==
    /\ planRun[n].reset /\ faults < MaxPlanFaults
    /\ planRun' = [planRun EXCEPT ![n].reset = FALSE]
    /\ faults' = faults + 1
    /\ torn' = TRUE
    /\ UNCHANGED <<plan, inputs, author, reviews, approvals, request>>

\* The process dies and recovers: active runs end and free their plan, parked
\* ones stay; a draft whose author died is left as it is.
CrashAndRecover ==
    /\ faults < MaxPlanFaults
    /\ faults' = faults + 1
    /\ author' = [author EXCEPT !.pc = "done"]
    /\ request' = [r \in Requests |-> Asleep]
    /\ torn' = (torn \/ \E n \in PlanRuns : planRun[n].reset)
    /\ LET lost == {n \in Active : planRun[n].status # "parked"} IN
          /\ planRun' = [n \in PlanRuns |->
                [planRun[n] EXCEPT !.reset = FALSE, !.status = IF n \in lost THEN "interrupted" ELSE @]]
          /\ IF lost # {} /\ plan.status = "executing" THEN Becomes("approved") ELSE UNCHANGED plan
    /\ UNCHANGED <<inputs, reviews, approvals>>

PlansNext ==
    \/ InputsChange
    \/ TakeSnapshot \/ PersistPlanDraft \/ TriggerPlanReview \/ PersistPlanReview \/ Reflect
    \/ \E r \in Requests :
          \/ Ask(r, "approve") \/ Ask(r, "execute")
          \/ Passes(r, "approve", "decide") \/ FindStale(r, "approve") \/ CreatePlanApproval(r)
          \/ Passes(r, "execute", "submit") \/ FindStale(r, "execute") \/ SubmitApprovedPlan(r)
          \/ Passes(r, "compare", "create") \/ FindStale(r, "compare") \/ MarkPlanStale(r)
          \/ CreateRun(r) \/ RefuseRun(r) \/ CancelPlan(r)
    \/ \E n \in PlanRuns :
          \/ Segment(n) \/ CompleteRun(n) \/ FailRun(n)
          \/ CancelContinuationRun(n) \/ ResetPlan(n) \/ LoseReset(n)
    \/ CrashAndRecover

PlansSpec == PlansInit /\ [][PlansNext]_plansVars

-----------------------------------------------------------------------------
\* A run holds its plan while it is active, and until its reset is written.
Holds(n) == n \in Active \/ planRun[n].reset

\* A plan is executed by one run at a time, and only by runs with the inputs it
\* was approved with; it is executing exactly while such a run holds it (or its
\* reset was lost); it ends executed with the one run that completed, and once
\* cancelled, executed or stale no run of it is active. The approval, once and
\* by one request, comes before every run.
ApprovedRuns ==
    /\ \A m, n \in PlanRuns :
          /\ Holds(m) /\ Holds(n) => m = n
          /\ planRun[m].status = "completed" /\ planRun[n].status = "completed" => m = n
    /\ plan.status = "executing" <=> torn \/ \E n \in PlanRuns : Holds(n)
    /\ torn => \A n \in PlanRuns : ~Holds(n)
    /\ \A n \in PlanRuns : planRun[n].status # "none" => planRun[n].snap = plan.snap /\ approvals # {}
    /\ plan.status \in {"approved", "executing", "executed"} => \E r \in Requests : approvals = {r}
    /\ plan.status = "executed" <=> \E n \in PlanRuns : planRun[n].status = "completed"
=============================================================================
