------------------------------ MODULE EventHub ------------------------------
(***************************************************************************)
(* The in-memory event hub of the agent runtime (internal/agent/hub.go):   *)
(* per-agent streams with a bounded replay ring, publishers that assign    *)
(* the sequence under the hub lock and fan out after releasing it, and     *)
(* subscribers that read a replay cut followed by a live buffered channel. *)
(*                                                                         *)
(* Every step under h.mu is one action; a publisher's fan-out, which runs  *)
(* outside h.mu under the stream's fanoutMu, is one action per lock        *)
(* section (take the mutex, pop, one trySend, mark the overruns, unlock).  *)
(***************************************************************************)
EXTENDS Integers, Sequences, FiniteSets

CONSTANTS
    Agents,            \* agents, the keys of h.streams
    Conns,             \* subscriber objects that may exist at one time
    Publishers,        \* goroutines that call Publish
    Kinds,             \* event types, as far as the hub tells them apart
    Sizes,             \* encoded sizes of events
    RingSize,          \* config.RingSize
    RingBytes,         \* config.RingBytes
    MaxEventBytes,     \* config.MaxEventBytes
    ReplayLimit,       \* config.ReplayLimit
    SubscriberBuffer,  \* config.SubscriberBuffer
    MaxStreams,        \* config.MaxStreams
    IdleTimeout,       \* config.IdleTimeout, in ticks of the clock
    MaxSeq,            \* stands for math.MaxUint64: the sequence wraps here
    MaxSessions,       \* bound: session ids ever generated
    MaxClock           \* bound: ticks of the clock

ASSUME ConfigAssumption ==
    /\ {RingSize, RingBytes, MaxEventBytes, ReplayLimit, SubscriberBuffer,
        MaxStreams, IdleTimeout, MaxSeq, MaxSessions} \subseteq Nat \ {0}
    /\ MaxClock \in Nat
    /\ MaxEventBytes <= RingBytes
    /\ Sizes \subseteq 1 .. MaxEventBytes
    /\ Kinds \subseteq {"retry", "settle", "other"}

Nobody == "nobody"

ASSUME NobodyIsNone == Nobody \notin Publishers \cup Agents

VARIABLES
    clock,    \* config.Clock
    issued,   \* session ids generated so far: 1 .. issued
    table,    \* h.streams: agent -> stream object, 0 when absent
    stream,   \* the stream objects, named by the session they began with
    sub,      \* the hubSubscriber objects with the state of their reader
    worker    \* the publishing goroutines

vars == <<clock, issued, table, stream, sub, worker>>

Ids == 1 .. MaxSessions
Reasons == {"session_mismatch", "cursor_expired", "replay_limit",
            "subscriber_overrun", "stream_evicted"}

Event == [session : Ids, seq : 1 .. MaxSeq, kind : Kinds, size : Sizes]
NoEvent == [session |-> 0, seq |-> 0, kind |-> "none", size |-> 0]

NoStream == [session |-> 0, sequence |-> 0, ring |-> <<>>, members |-> {},
             last |-> 0, pending |-> <<>>, fanout |-> Nobody, retry |-> FALSE]

\* state: free -> open (SubscribeProtocol) -> closed (closeIfOpen) -> free
NoSub == [state |-> "free", agent |-> Nobody, id |-> 0, session |-> 0,
          cursor |-> 0, replay |-> <<>>, events |-> <<>>, resync |-> "",
          gone |-> FALSE]

Idle == [pc |-> "idle", id |-> 0, item |-> NoEvent, todo |-> {}, overran |-> {}]

Init ==
    /\ clock = 0
    /\ issued = 0
    /\ table = [a \in Agents |-> 0]
    /\ stream = [s \in Ids |-> NoStream]
    /\ sub = [c \in Conns |-> NoSub]
    /\ worker = [p \in Publishers |-> Idle]

-----------------------------------------------------------------------------
(* Helpers of the hub lock's critical sections.                            *)

Bytes(ring) == 
    LET sum[i \in 0 .. Len(ring)] ==
            IF i = 0 THEN 0 ELSE sum[i - 1] + ring[i].size
    IN  sum[Len(ring)]

\* How many entries Publish may drop from the front to be within both bounds.
Fits(ring) == {k \in 0 .. Len(ring) :
                  /\ Len(ring) - k <= RingSize
                  /\ Bytes(SubSeq(ring, k + 1, Len(ring))) <= RingBytes}

\* ... and how many it drops: the fewest.
EvictCounts(ring) == {k \in Fits(ring) : \A j \in Fits(ring) : k <= j}

\* closeIfOpen: the reason is queued before both channels are closed, once.
Close(u, reason) ==
    IF u.state # "open" THEN u ELSE [u EXCEPT !.state = "closed", !.resync = reason]

CloseAll(subs, conns, reason) ==
    [c \in Conns |-> IF c \in conns THEN Close(subs[c], reason) ELSE subs[c]]

\* collectGarbageLocked
Collected ==
    [a \in Agents |->
        IF /\ table[a] # 0
           /\ stream[table[a]].members = {}
           /\ clock >= stream[table[a]].last + IdleTimeout
        THEN 0 ELSE table[a]]

Present(tbl) == {a \in Agents : tbl[a] # 0}

\* oldestStreamLocked: map order breaks the ties.
Oldest(tbl) == {a \in Present(tbl) :
                   \A b \in Present(tbl) : stream[tbl[a]].last <= stream[tbl[b]].last}

\* The agents whose streams are evicted to make room for one more.
Victims(tbl) ==
    IF Cardinality(Present(tbl)) < MaxStreams THEN {{}} ELSE {{a} : a \in Oldest(tbl)}

\* The hub after collectGarbageLocked and a successful or failed
\* ensureStreamLocked; id = 0 when NewSession returned "".
Found(a) ==
    {[table |-> Collected, stream |-> stream, sub |-> sub, issued |-> issued,
      id |-> Collected[a]]}

\* Mutant: the subscribers of an evicted stream are not told.
EvictingSilently(a, vs) ==
    [table  |-> [b \in Agents |-> IF b = a THEN issued + 1
                                  ELSE IF b \in vs THEN 0 ELSE Collected[b]],
     stream |-> [stream EXCEPT ![issued + 1] =
                   [NoStream EXCEPT !.session = issued + 1, !.last = clock]],
     sub    |-> sub,
     issued |-> issued + 1,
     id     |-> issued + 1]

\* resyncAllLocked and delete for each of vs, then a new stream for a.
Evicting(a, vs) ==
    LET evicted == {Collected[v] : v \in vs}
    IN  [table  |-> [b \in Agents |-> IF b = a THEN issued + 1
                                      ELSE IF b \in vs THEN 0 ELSE Collected[b]],
         stream |-> [s \in Ids |->
                       IF s = issued + 1 THEN [NoStream EXCEPT !.session = s, !.last = clock]
                       ELSE IF s \in evicted THEN [stream[s] EXCEPT !.members = {}]
                       ELSE stream[s]],
         sub    |-> CloseAll(sub, UNION {stream[s].members : s \in evicted}, "stream_evicted"),
         issued |-> issued + 1,
         id     |-> issued + 1]

Created(a) == {Evicting(a, vs) : vs \in Victims(Collected)}

Ensured(a) ==
    Found(a) \cup (IF Collected[a] = 0 /\ issued < MaxSessions THEN Created(a) ELSE {})

-----------------------------------------------------------------------------
(* Publish and the fan-out.                                                *)

\* Mutant: nothing clears the retry state.
RetryForever(retry, kind) == retry \/ kind = "retry"

\* applyProviderRetryLocked
RetryAfter(retry, kind) ==
    CASE kind = "retry" -> TRUE
      [] kind = "settle" -> FALSE
      [] OTHER -> retry

\* Mutant: the new session keeps the old ring.
WrappedRing(st, session) == [st EXCEPT !.session = session, !.sequence = 0, !.members = {}]

\* The stream the event goes to: at MaxSeq a new session starts from zero and
\* every subscriber is told to resynchronise.
Wrapped(st, session) == [st EXCEPT !.session = session, !.sequence = 0,
                                   !.ring = <<>>, !.members = {}]

Admit(st, e, k) ==
    LET ring == Append(st.ring, e)
    IN  [st EXCEPT !.sequence = e.seq,
                   !.ring = SubSeq(ring, k + 1, Len(ring)),
                   !.last = clock,
                   !.retry = RetryAfter(st.retry, e.kind),
                   !.pending = IF st.members = {} THEN @
                               ELSE Append(@, [event |-> e, subs |-> st.members])]

NextEvent(st, kind, size) ==
    [session |-> st.session, seq |-> st.sequence + 1, kind |-> kind, size |-> size]

\* Mutant: a publisher leaves the queue to whoever is draining it.
EnqueueAndTrust(p, st, id) ==
    worker' = [worker EXCEPT ![p] =
                  IF st.members = {} \/ st.fanout # Nobody THEN Idle
                  ELSE [Idle EXCEPT !.pc = "lock", !.id = id]]

\* The publisher goes on to fanoutPending only if it enqueued a delivery.
Enqueue(p, st, id) ==
    worker' = [worker EXCEPT ![p] =
                  IF st.members = {} THEN Idle ELSE [Idle EXCEPT !.pc = "lock", !.id = id]]

Publish(p, a, kind, size) ==
    /\ worker[p].pc = "idle"
    /\ \E h \in Ensured(a) :
         \/ \* no session for a new stream: the event is dropped
            /\ h.id = 0
            /\ table' = h.table
            /\ UNCHANGED <<issued, stream, sub, worker>>
         \/ /\ h.id # 0
            /\ h.stream[h.id].sequence < MaxSeq
            /\ LET st == h.stream[h.id]
                   e == NextEvent(st, kind, size)
               IN  /\ \E k \in EvictCounts(Append(st.ring, e)) :
                         stream' = [h.stream EXCEPT ![h.id] = Admit(st, e, k)]
                   /\ Enqueue(p, st, h.id)
            /\ table' = h.table /\ sub' = h.sub /\ issued' = h.issued
         \/ \* the sequence is exhausted and NewSession failed: dropped
            /\ h.id # 0
            /\ h.stream[h.id].sequence = MaxSeq
            /\ table' = h.table
            /\ UNCHANGED <<issued, stream, sub, worker>>
         \/ \* the sequence is exhausted: a new session
            /\ h.id # 0
            /\ h.stream[h.id].sequence = MaxSeq
            /\ h.issued < MaxSessions
            /\ LET old == h.stream[h.id]
                   st == Wrapped(old, h.issued + 1)
                   e == NextEvent(st, kind, size)
               IN  /\ \E k \in EvictCounts(Append(st.ring, e)) :
                         stream' = [h.stream EXCEPT ![h.id] = Admit(st, e, k)]
                   /\ sub' = CloseAll(h.sub, old.members, "session_mismatch")
                   /\ Enqueue(p, st, h.id)
            /\ table' = h.table
            /\ issued' = h.issued + 1
    /\ UNCHANGED clock

\* Mutant: the queue is drained without fanoutMu.
FanoutUnlocked(p) ==
    /\ worker[p].pc = "lock"
    /\ stream' = [stream EXCEPT ![worker[p].id].fanout = p]
    /\ worker' = [worker EXCEPT ![p].pc = "pop"]
    /\ UNCHANGED <<clock, issued, table, sub>>

\* fanoutPending takes fanoutMu before anything else.
TakeFanout(p) ==
    LET s == worker[p].id
    IN  /\ worker[p].pc = "lock"
        /\ stream[s].fanout = Nobody
        /\ stream' = [stream EXCEPT ![s].fanout = p]
        /\ worker' = [worker EXCEPT ![p].pc = "pop"]
        /\ UNCHANGED <<clock, issued, table, sub>>

\* Dequeue the head under h.mu, or stop when the queue is empty.
Pop(p) ==
    LET s == worker[p].id
        queue == stream[s].pending
    IN  /\ worker[p].pc = "pop"
        /\ IF queue = <<>>
           THEN /\ worker' = [worker EXCEPT ![p].pc = "unlock"]
                /\ UNCHANGED stream
           ELSE /\ stream' = [stream EXCEPT ![s].pending = Tail(@)]
                /\ worker' = [worker EXCEPT ![p].pc = "send",
                                            ![p].item = Head(queue).event,
                                            ![p].todo = Head(queue).subs]
        /\ UNCHANGED <<clock, issued, table, sub>>

\* trySend: a closed subscriber is skipped, a full buffer is an overrun.
Full(c) == sub[c].state = "open" /\ Len(sub[c].events) >= SubscriberBuffer

Send(p, c) ==
    LET left == worker[p].todo \ {c}
        overran == IF Full(c) THEN worker[p].overran \cup {c} ELSE worker[p].overran
        after == CASE left # {} -> "send"
                   [] left = {} /\ overran # {} -> "mark"
                   [] OTHER -> "pop"
    IN  /\ worker[p].pc = "send"
        /\ c \in worker[p].todo
        /\ sub' = IF sub[c].state = "open" /\ ~Full(c)
                  THEN [sub EXCEPT ![c].events = Append(@, worker[p].item)]
                  ELSE sub
        /\ worker' = [worker EXCEPT ![p].pc = after, ![p].todo = left,
                                    ![p].overran = overran]
        /\ UNCHANGED <<clock, issued, table, stream>>

\* Mutant: a full buffer only drops the event.
OverrunsForgotten(p) ==
    /\ worker[p].pc = "mark"
    /\ worker' = [worker EXCEPT ![p].pc = "pop", ![p].overran = {}]
    /\ UNCHANGED <<clock, issued, table, stream, sub>>

\* The overrun subscribers that are still registered are told to resynchronise.
MarkOverruns(p) ==
    LET s == worker[p].id
        lost == worker[p].overran \cap stream[s].members
    IN  /\ worker[p].pc = "mark"
        /\ stream' = [stream EXCEPT ![s].members = @ \ lost]
        /\ sub' = CloseAll(sub, lost, "subscriber_overrun")
        /\ worker' = [worker EXCEPT ![p].pc = "pop", ![p].overran = {}]
        /\ UNCHANGED <<clock, issued, table>>

\* The deferred fanoutMu.Unlock runs after h.mu was released.
Unlock(p) ==
    /\ worker[p].pc = "unlock"
    /\ stream' = [stream EXCEPT ![worker[p].id].fanout = Nobody]
    /\ worker' = [worker EXCEPT ![p] = Idle]
    /\ UNCHANGED <<clock, issued, table, sub>>

-----------------------------------------------------------------------------
(* Subscribers.                                                            *)

\* The subscriber objects some delivery still holds a pointer to.
Referenced ==
    UNION ({worker[p].todo \cup worker[p].overran : p \in Publishers}
           \cup UNION {{stream[s].pending[i].subs : i \in DOMAIN stream[s].pending} : s \in Ids})

\* How many leading entries replayAfter skips: those up to the cursor.
Skipped(ring, after) ==
    CHOOSE k \in 0 .. Len(ring) :
        /\ \A i \in 1 .. k : ring[i].seq <= after
        /\ k < Len(ring) => ring[k + 1].seq > after

\* Mutant: the replay starts with the event the client already has.
AfterInclusive(ring, after) == SubSeq(ring, Skipped(ring, after - 1) + 1, Len(ring))

\* replayAfter
After(ring, after) == SubSeq(ring, Skipped(ring, after) + 1, Len(ring))

\* Mutant: a cursor older than the ring is accepted.
RefusalNoExpiry(st, session, after) ==
    CASE session # 0 /\ session # st.session -> "session_mismatch"
      [] after >= 0 /\ (session = 0 \/ after > st.sequence) -> "session_mismatch"
      [] after >= 0 /\ Len(After(st.ring, after)) > ReplayLimit -> "replay_limit"
      [] OTHER -> ""

\* The reason SubscribeProtocol refuses the cursor <<session, after>>, or "".
\* session = 0 is an absent streamSession, after = -1 an absent cursor.
Refusal(st, session, after) ==
    CASE session # 0 /\ session # st.session -> "session_mismatch"
      [] after >= 0 /\ (session = 0 \/ after > st.sequence) -> "session_mismatch"
      [] after >= 0 /\ st.ring # <<>> /\ after < st.ring[1].seq - 1 -> "cursor_expired"
      [] after >= 0 /\ Len(After(st.ring, after)) > ReplayLimit -> "replay_limit"
      [] OTHER -> ""

Subscribe(c, a, session, after) ==
    /\ sub[c].state = "free"
    /\ c \notin Referenced
    /\ \E h \in Ensured(a) :
         /\ table' = h.table /\ issued' = h.issued
         /\ IF h.id = 0 \/ Refusal(h.stream[h.id], session, after) # ""
            THEN stream' = h.stream /\ sub' = h.sub
            ELSE LET st == h.stream[h.id]
                 IN  /\ stream' = [h.stream EXCEPT ![h.id].members = @ \cup {c},
                                                   ![h.id].last = clock]
                     /\ sub' = [h.sub EXCEPT ![c] =
                           [NoSub EXCEPT
                               !.state = "open", !.agent = a, !.id = h.id,
                               !.session = st.session,
                               !.cursor = IF after >= 0 THEN after ELSE st.sequence,
                               !.replay = IF after >= 0 THEN After(st.ring, after) ELSE <<>>]]
    /\ UNCHANGED <<clock, worker>>

\* The reader writes the replay out first, then takes events from the channel,
\* which stay readable after the channel is closed.
Receive(c) ==
    /\ sub[c].state # "free" /\ ~sub[c].gone
    /\ \/ /\ sub[c].replay # <<>>
          /\ sub' = [sub EXCEPT ![c].replay = Tail(@), ![c].cursor = Head(sub[c].replay).seq]
       \/ /\ sub[c].replay = <<>> /\ sub[c].events # <<>>
          /\ sub' = [sub EXCEPT ![c].events = Tail(@), ![c].cursor = Head(sub[c].events).seq]
    /\ UNCHANGED <<clock, issued, table, stream, worker>>

\* The reader finds the resync reason, or both channels closed, and stops; it
\* may take the reason while events are still buffered.
Stop(c) ==
    /\ sub[c].state = "closed" /\ ~sub[c].gone
    /\ sub[c].replay = <<>>
    /\ sub[c].resync # "" \/ sub[c].events = <<>>
    /\ sub' = [sub EXCEPT ![c] = NoSub]
    /\ UNCHANGED <<clock, issued, table, stream, worker>>

\* The reader's context ends: it reads no more.
Leave(c) ==
    /\ sub[c].state # "free" /\ ~sub[c].gone
    /\ sub' = [sub EXCEPT ![c].gone = TRUE]
    /\ UNCHANGED <<clock, issued, table, stream, worker>>

\* The goroutine waiting on ctx.Done: removeSubscriber.
RemoveSubscriber(c) ==
    LET s == table[sub[c].agent]
        registered == s # 0 /\ c \in stream[s].members
    IN  /\ sub[c].gone
        /\ IF registered
           THEN stream' = [stream EXCEPT ![s].members = @ \ {c}, ![s].last = clock]
           ELSE UNCHANGED stream
        /\ registered \/ sub[c].state = "closed"
        /\ sub' = [sub EXCEPT ![c] = NoSub]
        /\ UNCHANGED <<clock, issued, table, worker>>

\* Watermark: the one read that may create a stream.
Watermark(a) ==
    /\ \E h \in Ensured(a) :
          table' = h.table /\ stream' = h.stream /\ sub' = h.sub /\ issued' = h.issued
    /\ UNCHANGED <<clock, worker>>

\* CollectGarbage and the snapshot reads, which collect and change nothing else.
Sweep ==
    /\ table' = Collected
    /\ UNCHANGED <<clock, issued, stream, sub, worker>>

Tick ==
    /\ clock < MaxClock
    /\ clock' = clock + 1
    /\ UNCHANGED <<issued, table, stream, sub, worker>>

-----------------------------------------------------------------------------
Fanout(p) == TakeFanout(p) \/ Pop(p) \/ (\E c \in Conns : Send(p, c))
             \/ MarkOverruns(p) \/ Unlock(p)

Cursors == {<<0, -1>>} \cup (Ids \X (-1 .. MaxSeq))

Next ==
    \/ \E p \in Publishers, a \in Agents, kind \in Kinds, size \in Sizes :
          Publish(p, a, kind, size)
    \/ \E p \in Publishers : Fanout(p)
    \/ \E c \in Conns, a \in Agents, cur \in Cursors : Subscribe(c, a, cur[1], cur[2])
    \/ \E c \in Conns : Receive(c) \/ Stop(c) \/ Leave(c) \/ RemoveSubscriber(c)
    \/ \E a \in Agents : Watermark(a)
    \/ Sweep
    \/ Tick

Spec == Init /\ [][Next]_vars

\* A publisher inside Publish runs on to its end, and a reader that has not
\* left keeps writing to its socket; nobody has to publish, subscribe or leave.
Fairness ==
    /\ \A p \in Publishers : WF_vars(Fanout(p))
    /\ \A c \in Conns : WF_vars(Receive(c)) /\ WF_vars(Stop(c)) /\ WF_vars(RemoveSubscriber(c))

FairSpec == Spec /\ Fairness

-----------------------------------------------------------------------------
(* Properties.                                                             *)

TypeOK ==
    /\ clock \in 0 .. MaxClock
    /\ issued \in 0 .. MaxSessions
    /\ table \in [Agents -> 0 .. MaxSessions]
    /\ stream \in [Ids -> [session : 0 .. MaxSessions, sequence : 0 .. MaxSeq,
                          ring : Seq(Event), members : SUBSET Conns, last : 0 .. MaxClock,
                          pending : Seq([event : Event, subs : SUBSET Conns]),
                          fanout : Publishers \cup {Nobody}, retry : BOOLEAN]]
    /\ sub \in [Conns -> [state : {"free", "open", "closed"}, agent : Agents \cup {Nobody},
                         id : 0 .. MaxSessions, session : 0 .. MaxSessions,
                         cursor : 0 .. MaxSeq, replay : Seq(Event), events : Seq(Event),
                         resync : Reasons \cup {""}, gone : BOOLEAN]]
    /\ worker \in [Publishers -> [pc : {"idle", "lock", "pop", "send", "mark", "unlock"},
                                 id : 0 .. MaxSessions, item : Event \cup {NoEvent},
                                 todo : SUBSET Conns, overran : SUBSET Conns]]

Overran(c) == \E p \in Publishers : c \in worker[p].overran

\* What the reader of c still has to read: the rest of its replay, its channel.
Readable(c) == sub[c].replay \o sub[c].events

\* The sequence number the last of them has, and whether a drainer holds a
\* delivery it has yet to send to c.
Sent(c) == sub[c].cursor + Len(sub[c].replay) + Len(sub[c].events)
InHand(c) == \E p \in Publishers : c \in worker[p].todo

\* How many events of its stream c has yet to be sent from the queue.
Owed(c) == stream[sub[c].id].sequence - Sent(c) - (IF InHand(c) THEN 1 ELSE 0)

Consecutive(c, events) ==
    \A i \in DOMAIN events :
        /\ events[i].seq = sub[c].cursor + i
        /\ events[i].session = sub[c].session

\* Whatever a subscriber can read next is the event after the last one it
\* read: no gap, no duplicate, no reordering between concurrent publishers, and
\* no event of another session, even after its channel was closed.
DeliveredInOrder ==
    \A c \in Conns : sub[c].state # "free" => Consecutive(c, Readable(c))

\* A subscriber that is open, and not about to be marked overrun, loses
\* nothing: what it read, its channel, the delivery in a drainer's hands and
\* the tail of the queue reach, in order, exactly to the stream's sequence. The
\* replay cut and the live channel neither overlap nor leave a hole.
NothingLost ==
    \A c \in Conns :
        sub[c].state = "open" /\ ~Overran(c) =>
            LET st == stream[sub[c].id]
                n == Len(st.pending)
            IN  /\ sub[c].session = st.session
                /\ Owed(c) \in 0 .. n
                /\ \A p \in Publishers : c \in worker[p].todo =>
                      /\ worker[p].item.seq = Sent(c) + 1
                      /\ worker[p].item.session = st.session
                /\ \A i \in 1 .. n : c \in st.pending[i].subs <=> i > n - Owed(c)
                /\ \A i \in 1 .. n : i > n - Owed(c) =>
                      /\ st.pending[i].event.seq = st.sequence - (n - i)
                      /\ st.pending[i].event.session = st.session

\* A subscriber is open exactly while the stream its agent maps to holds it:
\* eviction, collection and a wrap leave no reader on a stream nobody feeds.
OpenIsRegistered ==
    \A c \in Conns :
        /\ sub[c].state = "open" =>
              /\ table[sub[c].agent] = sub[c].id
              /\ c \in stream[sub[c].id].members
        /\ \A s \in Ids : c \in stream[s].members =>
              sub[c].state = "open" /\ sub[c].id = s

\* The ring of a stream is the gap-free tail of its current session: it ends
\* at the sequence, holds no event of an earlier session, and respects both of
\* its bounds. (SubscribeProtocol tells an expired cursor from it.)
RingIsTail ==
    \A s \in Ids :
        LET st == stream[s]
            n == Len(st.ring)
        IN  /\ st.sequence > 0 => n > 0
            /\ n <= RingSize /\ Bytes(st.ring) <= RingBytes
            /\ \A i \in 1 .. n : /\ st.ring[i].session = st.session
                                 /\ st.ring[i].seq = st.sequence - (n - i)

\* The retry state a snapshot shows agrees with the newest event of the ring
\* that says anything about it.
RetryMatchesRing ==
    \A s \in Ids :
        LET telling == {i \in DOMAIN stream[s].ring : stream[s].ring[i].kind # "other"}
        IN  \A i \in telling : (\A j \in telling : j <= i) =>
                (stream[s].retry <=> stream[s].ring[i].kind = "retry")

\* Only the drainer of a stream's queue holds a delivery of it, so deliveries
\* of one stream are never sent by two publishers at once.
OneDrainer ==
    \A p \in Publishers :
        worker[p].pc \in {"pop", "send", "mark", "unlock"} => stream[worker[p].id].fanout = p

\* An event published to a stream reaches every reader that stays: the reader
\* reads it, or its subscription ends.
EventuallyRead ==
    \A c \in Conns : \A n \in 1 .. MaxSeq :
        (sub[c].state = "open" /\ ~sub[c].gone /\ stream[sub[c].id].sequence >= n)
            ~> (sub[c].cursor >= n \/ sub[c].state # "open" \/ sub[c].gone)

-----------------------------------------------------------------------------
(* The abstract feed this hub implements.                                  *)

\* The log of a session: that of the stream it is current in, or the full log
\* of a session a wrap replaced.
LogLength(x) ==
    IF \E s \in Ids : stream[s].session = x
    THEN stream[CHOOSE s \in Ids : stream[s].session = x].sequence
    ELSE IF x <= issued THEN MaxSeq ELSE 0

Feed == INSTANCE EventFeed WITH
    published <- [x \in Ids |-> LogLength(x)],
    reader <- [c \in Conns |-> [session |-> sub[c].session, cursor |-> sub[c].cursor]]

\* Through all the streams, locks and buffers a subscriber sees an EventFeed:
\* the events of one session, each exactly once, in order, from its cursor.
ImplementsFeed == Feed!Spec
=============================================================================
