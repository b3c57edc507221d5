-------------------------- MODULE BackgroundTasksMC --------------------------
(* Model-checking instances of BackgroundTasks. *)
EXTENDS BackgroundTasks, TLC

Symmetry == Permutations(Workers)

-----------------------------------------------------------------------------
(* TasksRace looks at four corners of one instance, each with the bounds    *)
(* its question needs; their union would be out of reach. Owners and        *)
(* callers are interchangeable, so one of each may be taken to come first.  *)
(* Corners is a state constraint: a state outside is checked, and not       *)
(* continued.                                                               *)

FirstOwner == CHOOSE a \in Owners : TRUE
FirstCaller == CHOOSE k \in Callers : TRUE
Rows == {t \in Tasks : row[t].status # "none"}
Kind(kind) == \A t \in Rows : row[t].kind = kind
Calling == {k \in Callers : caller[k].pc # "idle"}
Waiting == {k \in Waiters : waiter[k].pc # "idle"}

\* One task of either kind: cancels, a storage error and the reaper race with
\* two workers; at shutdown one cancel or error is enough.
Race ==
    /\ Rows \subseteq {1} /\ Waiting = {} /\ proc.instance = 1
    /\ \A k \in Callers : caller[k].pc \in {"create", "signal"} => k = FirstCaller
    /\ proc.settings = 0
    /\ proc.limit = 2 /\ proc.perAgent = 1
    /\ proc.cancels + proc.faults <= IF proc.state \in {"new", "running"} THEN 2 ELSE 1

\* Two shell tasks, of one owner or of two: the wake token, the limits and
\* their change.
Queue ==
    /\ Kind("shell") /\ Waiting = {} /\ proc.instance = 1
    /\ Calling \subseteq {FirstCaller}
    /\ proc.cancels = 0 /\ proc.faults = 0 /\ proc.state \in {"new", "running"}

\* One task and one worker, and those who wait for its end.
Alone ==
    /\ Rows \subseteq {1} /\ Calling \subseteq {FirstCaller}
    /\ proc.settings = 0 /\ proc.limit = 1 /\ proc.perAgent = 1
    /\ proc.cancels <= 1 /\ proc.faults = 0

\* A child run across a crash and restart.
Again == Alone /\ Kind("agent") /\ Waiting = {} /\ proc.cancels = 0

\* Two waiters.
Watch == Alone /\ Kind("shell") /\ proc.instance = 1 /\ proc.state \in {"new", "running"}

Corners ==
    /\ row[1].status # "none" => row[1].owner = FirstOwner
    /\ Race \/ Queue \/ Again \/ Watch
=============================================================================
