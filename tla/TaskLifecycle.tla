---------------------------- MODULE TaskLifecycle ----------------------------
(***************************************************************************)
(* What a durable background task promises to its owner: it runs at most   *)
(* once, ends at most once, keeps its end, cannot succeed once its cancel  *)
(* was accepted, and its terminal hook runs only after it ended.           *)
(***************************************************************************)
EXTENDS Naturals

CONSTANT Tasks

VARIABLES
    status,  \* task -> its status
    told     \* the tasks whose terminal hook has run

vars == <<status, told>>

Terminal == {"succeeded", "failed", "canceled", "interrupted"}
Held == {"running", "cancel_requested"}

Init ==
    /\ status = [t \in Tasks |-> "none"]
    /\ told = {}

Move(t, from, to) ==
    /\ status[t] = from
    /\ status' = [status EXCEPT ![t] = to]
    /\ UNCHANGED told

Submit(t) == Move(t, "none", "queued")

Begin(t) == Move(t, "queued", "running")

\* A queued task is canceled at once, a running one is asked to stop.
RequestCancel(t) == Move(t, "queued", "canceled") \/ Move(t, "running", "cancel_requested")

End(t) ==
    \/ \E to \in Terminal : Move(t, "running", to)
    \/ \E to \in Terminal \ {"succeeded"} : Move(t, "cancel_requested", to)

\* A restart interrupts every task the previous process held.
Lose ==
    /\ \E lost \in SUBSET {t \in Tasks : status[t] \in Held} :
          status' = [t \in Tasks |-> IF t \in lost THEN "interrupted" ELSE status[t]]
    /\ UNCHANGED told

Tell(t) ==
    /\ status[t] \in Terminal
    /\ told' = told \cup {t}
    /\ UNCHANGED status

Next ==
    \/ \E t \in Tasks : Submit(t) \/ Begin(t) \/ RequestCancel(t) \/ End(t) \/ Tell(t)
    \/ Lose

Spec == Init /\ [][Next]_vars
=============================================================================
