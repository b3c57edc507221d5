----------------------------- MODULE EventFeed ------------------------------
(***************************************************************************)
(* What the event hub promises a subscriber, without rings, buffers, locks *)
(* or streams: every session is a growing log, and a reader goes through   *)
(* the log of one session one event at a time from the cursor it was let   *)
(* in at, until its feed ends.                                             *)
(***************************************************************************)
EXTENDS Integers

CONSTANTS Conns, MaxSeq, MaxSessions

VARIABLES published,   \* session -> length of its log
          reader       \* reader -> the session it follows and its cursor

vars == <<published, reader>>

Sessions == 1 .. MaxSessions
Off == [session |-> 0, cursor |-> 0]

Init ==
    /\ published = [x \in Sessions |-> 0]
    /\ reader = [c \in Conns |-> Off]

\* One more event is appended to the log of a session.
Publish(x) ==
    /\ published[x] < MaxSeq
    /\ published' = [published EXCEPT ![x] = @ + 1]
    /\ UNCHANGED reader

\* A reader is let in at a cursor of the log, never ahead of it.
Open(c, x, n) ==
    /\ reader[c] = Off
    /\ n <= published[x]
    /\ reader' = [reader EXCEPT ![c] = [session |-> x, cursor |-> n]]
    /\ UNCHANGED published

\* The reader is given exactly the next event.
Read(c) ==
    /\ reader[c] # Off
    /\ reader[c].cursor < published[reader[c].session]
    /\ reader' = [reader EXCEPT ![c].cursor = @ + 1]
    /\ UNCHANGED published

\* The feed ends.
End(c) ==
    /\ reader[c] # Off
    /\ reader' = [reader EXCEPT ![c] = Off]
    /\ UNCHANGED published

Next ==
    \/ \E x \in Sessions : Publish(x)
    \/ \E c \in Conns, x \in Sessions, n \in 0 .. MaxSeq : Open(c, x, n)
    \/ \E c \in Conns : Read(c) \/ End(c)

Spec == Init /\ [][Next]_vars
=============================================================================
