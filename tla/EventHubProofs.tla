--------------------------- MODULE EventHubProofs ---------------------------
(***************************************************************************)
(* Proofs about EventHub for every number of agents, publishers and        *)
(* subscribers, every ring and buffer size and every sequence limit.       *)
(*                                                                         *)
(* An action that needs a stream first collects, evicts or creates streams *)
(* and then works on the result, inside one step. The invariant is thus    *)
(* stated of a view <<T, S, U, W, N>>, which stands for the values of      *)
(* <<table, stream, sub, worker, issued>> before a step, after it, and     *)
(* between the two halves of it.                                           *)
(***************************************************************************)
EXTENDS EventHub, SequenceTheorems, TLAPS

Delivery == [event : Event, subs : SUBSET Conns]

StreamType ==
    [session : 0 .. MaxSessions, sequence : 0 .. MaxSeq, ring : Seq(Event),
     members : SUBSET Conns, last : 0 .. MaxClock, pending : Seq(Delivery),
     fanout : Publishers \cup {Nobody}, retry : BOOLEAN]

SubRecord ==
    [state : {"free", "open", "closed"}, agent : Agents \cup {Nobody},
     id : 0 .. MaxSessions, session : 0 .. MaxSessions, cursor : 0 .. MaxSeq,
     replay : Seq(Event), events : Seq(Event), resync : Reasons \cup {""}, gone : BOOLEAN]

\* A subscriber that is in use names its agent; a free one has no reader.
SubType ==
    {u \in SubRecord : /\ u.state # "free" => u.agent \in Agents
                       /\ u.gone => u.state # "free"}

WorkerType ==
    [pc : {"idle", "lock", "pop", "send", "mark", "unlock"}, id : 0 .. MaxSessions,
     item : Event \cup {NoEvent}, todo : SUBSET Conns, overran : SUBSET Conns]

Typed(T, S, U, W, N) ==
    /\ N \in 0 .. MaxSessions
    /\ T \in [Agents -> 0 .. MaxSessions]
    /\ S \in [Ids -> StreamType]
    /\ U \in [Conns -> SubType]
    /\ W \in [Publishers -> WorkerType]

\* Stream objects and session ids are handed out in order: what is not yet
\* issued is blank and nothing points to it.
Allocated(T, S, U, W, N) ==
    /\ \A a \in Agents : T[a] # 0 => T[a] <= N /\ S[T[a]].session # 0
    /\ \A s \in Ids : S[s].session <= N
    /\ \A s \in Ids : s > N => S[s] = NoStream
    /\ \A c \in Conns : U[c].state = "open" => U[c].id \in Ids
    /\ \A p \in Publishers : W[p].pc # "idle" => W[p].id \in 1 .. N

\* The subscriber sets and the subscribers agree.
Members(T, S, U) ==
    /\ \A c \in Conns : U[c].state = "open" =>
          /\ T[U[c].agent] = U[c].id
          /\ U[c].agent \in Agents
          /\ c \in S[U[c].id].members
    /\ \A s \in Ids : \A c \in S[s].members : U[c].state = "open" /\ U[c].id = s

\* One publisher drains a stream, with its deliveries in its hands only while
\* it does, and a delivery concerns an open subscriber of that stream only.
Drained(S, U, W) ==
    /\ \A p \in Publishers : W[p].pc \in {"pop", "send", "mark", "unlock"} =>
          S[W[p].id].fanout = p
    /\ \A p \in Publishers : W[p].pc = "send" => W[p].item \in Event
    /\ \A p \in Publishers :
          /\ W[p].pc # "send" => W[p].todo = {}
          /\ W[p].pc \notin {"send", "mark"} => W[p].overran = {}
          /\ W[p].todo \cap W[p].overran = {}
          /\ \A c \in W[p].todo \cup W[p].overran : U[c].state = "open" => U[c].id = W[p].id
    /\ \A s \in Ids : \A i \in 1 .. Len(S[s].pending) : \A c \in S[s].pending[i].subs :
          U[c].state = "open" => U[c].id = s

Structure(T, S, U, W, N) ==
    /\ Typed(T, S, U, W, N)
    /\ Allocated(T, S, U, W, N)
    /\ Members(T, S, U)
    /\ Drained(S, U, W)

\* The ring of a stream is within its bounds, a gap-free stretch of its session
\* that ends at its sequence, and empty in a session without events only.
GapFree(st) ==
    /\ Len(st.ring) <= RingSize /\ Bytes(st.ring) <= RingBytes
    /\ st.sequence > 0 => st.ring # <<>>
    /\ \A i \in 1 .. Len(st.ring) :
          /\ st.ring[i].session = st.session
          /\ st.ring[i].seq = st.sequence - (Len(st.ring) - i)

Rings(S) == \A s \in Ids : GapFree(S[s])

StructureInv == clock \in 0 .. MaxClock /\ Structure(table, stream, sub, worker, issued)

-----------------------------------------------------------------------------
LEMMA Constants ==
    /\ RingSize \in Nat \ {0} /\ RingBytes \in Nat \ {0} /\ MaxEventBytes \in Nat \ {0}
    /\ ReplayLimit \in Nat \ {0} /\ SubscriberBuffer \in Nat \ {0}
    /\ MaxStreams \in Nat \ {0} /\ IdleTimeout \in Nat \ {0}
    /\ MaxSeq \in Nat \ {0} /\ MaxSessions \in Nat \ {0} /\ MaxClock \in Nat
    /\ MaxEventBytes <= RingBytes /\ Sizes \subseteq 1 .. MaxEventBytes
BY ConfigAssumption DEF ConfigAssumption

LEMMA BytesOfNone ==
    ASSUME NEW ring, ring = <<>>
    PROVE  Bytes(ring) = 0
<1> DEFINE D == 0 .. Len(ring)
           Def(f) == f = [i \in D |-> IF i = 0 THEN 0 ELSE f[i - 1] + ring[i].size]
           f0 == [i \in D |-> 0]
<1>1. Len(ring) = 0 /\ D = {0}
    BY EmptySeq
<1>2. Def(f0)
    BY <1>1
<1>3. \A f : Def(f) => f[0] = 0
    BY <1>1
<1>4. Bytes(ring) = (CHOOSE f : Def(f))[Len(ring)]
    BY DEF Bytes
<1> HIDE DEF Def
<1>5. Def(CHOOSE f : Def(f))
    BY <1>2
<1> QED
    BY <1>1, <1>3, <1>4, <1>5

\* A stream without events has a sound ring.
LEMMA EmptyGapFree ==
    ASSUME NEW st, st.sequence = 0, st.ring = <<>>
    PROVE  GapFree(st)
<1>1. Len(st.ring) = 0 /\ Bytes(st.ring) = 0
    BY EmptySeq, BytesOfNone
<1> QED
    BY <1>1, Constants DEF GapFree

LEMMA BlankStream == NoStream \in StreamType
BY Constants, EmptySeq DEF NoStream, StreamType, Nobody

LEMMA BlankSub == NoSub \in SubType
<1>1. NoSub \in SubRecord
    BY Constants, EmptySeq DEF NoSub, SubRecord
<1>2. NoSub.state = "free" /\ NoSub.gone = FALSE
    BY DEF NoSub
<1> QED
    BY <1>1, <1>2 DEF SubType

LEMMA BlankWorker == Idle \in WorkerType
BY Constants DEF Idle, WorkerType

LEMMA StructureInit == Init => StructureInv
<1> SUFFICES ASSUME Init PROVE StructureInv
    OBVIOUS
<1>1. clock \in 0 .. MaxClock
    BY Constants DEF Init
<1>2. Typed(table, stream, sub, worker, issued)
    BY Constants, BlankStream, BlankSub, BlankWorker DEF Init, Typed, Ids
<1>b. /\ \A a \in Agents : table[a] = 0
      /\ \A s \in Ids : stream[s] = NoStream
      /\ \A c \in Conns : sub[c] = NoSub
      /\ \A p \in Publishers : worker[p] = Idle
      /\ NoStream.session = 0 /\ NoStream.members = {} /\ NoStream.pending = <<>>
      /\ NoSub.state = "free" /\ Idle.pc = "idle" /\ Idle.todo = {} /\ Idle.overran = {}
    BY DEF Init, NoStream, NoSub, Idle
<1>3. Allocated(table, stream, sub, worker, issued)
    BY <1>b, Constants DEF Init, Allocated
<1>4. Members(table, stream, sub)
    BY <1>b DEF Members
<1>5. Drained(stream, sub, worker)
    BY <1>b, EmptySeq DEF Drained
<1> QED
    BY <1>1, <1>2, <1>3, <1>4, <1>5 DEF StructureInv, Structure

\* Closing subscribers and forgetting them in their stream keeps the structure.
LEMMA CloseKeepsType ==
    ASSUME NEW u \in SubType, NEW r \in Reasons
    PROVE  /\ Close(u, r) \in SubType
           /\ Close(u, r).state # "open"
           /\ u.state # "open" => Close(u, r) = u
           /\ u.state = "open" => Close(u, r).state = "closed"
           /\ Close(u, r).id = u.id /\ Close(u, r).agent = u.agent
           /\ Close(u, r).cursor = u.cursor /\ Close(u, r).session = u.session
           /\ Close(u, r).replay = u.replay /\ Close(u, r).events = u.events
BY DEF Close, SubType, SubRecord, Reasons

\* collectGarbageLocked drops only streams without subscribers.
LEMMA CollectedFacts ==
    ASSUME StructureInv
    PROVE  /\ Collected \in [Agents -> 0 .. MaxSessions]
           /\ \A a \in Agents : \/ Collected[a] = table[a]
                                \/ /\ Collected[a] = 0
                                   /\ table[a] \in Ids /\ stream[table[a]].members = {}
BY Constants DEF StructureInv, Structure, Typed, Collected, Ids

\* ... so it keeps the structure.
LEMMA CollectedStructure ==
    ASSUME StructureInv
    PROVE  Structure(Collected, stream, sub, worker, issued)
<1>1. Typed(Collected, stream, sub, worker, issued)
    BY CollectedFacts DEF StructureInv, Structure, Typed
<1>2. Allocated(Collected, stream, sub, worker, issued)
    BY CollectedFacts DEF StructureInv, Structure, Allocated
<1>3. Members(Collected, stream, sub)
    <2>1. ASSUME NEW c \in Conns, sub[c].state = "open"
          PROVE  /\ Collected[sub[c].agent] = sub[c].id
                 /\ sub[c].agent \in Agents
                 /\ c \in stream[sub[c].id].members
        BY <2>1, CollectedFacts DEF StructureInv, Structure, Members
    <2> QED
        BY <2>1 DEF StructureInv, Structure, Members
<1> QED
    BY <1>1, <1>2, <1>3 DEF Structure, StructureInv

\* What eviction and creation leave of the streams and of the subscribers.
KeptStreams(S, S2) ==
    \A s \in Ids :
        \/ /\ S2[s].session = S[s].session /\ S2[s].sequence = S[s].sequence
           /\ S2[s].ring = S[s].ring /\ S2[s].pending = S[s].pending
           /\ S2[s].members \subseteq S[s].members
        \/ /\ S2[s].sequence = 0 /\ S2[s].ring = <<>> /\ S2[s].pending = <<>>
           /\ S2[s].members = {}

KeptSubs(U, U2) ==
    \A c \in Conns :
        \/ U2[c] = U[c]
        \/ /\ U[c].state = "open" /\ U2[c].state = "closed"
           /\ U2[c].session = U[c].session /\ U2[c].cursor = U[c].cursor
           /\ U2[c].replay = U[c].replay /\ U2[c].events = U[c].events

\* Evicting streams to make room for a new one keeps the structure: their
\* subscribers are closed with them.
LEMMA CreatedStructure ==
    ASSUME StructureInv, NEW a \in Agents, Collected[a] = 0, issued < MaxSessions,
           NEW h \in Created(a)
    PROVE  /\ Structure(h.table, h.stream, h.sub, worker, h.issued)
           /\ h.id = issued + 1 /\ h.issued = issued + 1 /\ h.table[a] = h.id
           /\ h.stream[h.id] = [NoStream EXCEPT !.session = h.id, !.last = clock]
           /\ KeptStreams(stream, h.stream) /\ KeptSubs(sub, h.sub)
<1>1. PICK vs \in Victims(Collected) : h = Evicting(a, vs)
    BY DEF Created
<1> DEFINE n == issued + 1
           evicted == {Collected[v] : v \in vs}
           gone == UNION {stream[s].members : s \in evicted}
<1>2. /\ n \in Ids /\ issued \in Nat /\ n = issued + 1 /\ n # 0
      /\ vs \subseteq Agents /\ \A v \in vs : Collected[v] # 0
      /\ a \notin vs
    BY Constants DEF StructureInv, Structure, Typed, Victims, Oldest, Present, Ids
<1>r. /\ n \in 0 .. MaxSessions
      /\ \A s \in 1 .. issued : s \in Ids /\ s # n
      /\ \A s \in Ids : s \in Int /\ s # 0 /\ (s > n => s > issued) /\ (s <= issued => s <= n /\ s # n)
    BY <1>2, Constants DEF Ids
<1>3. Structure(Collected, stream, sub, worker, issued)
    BY CollectedStructure
<1>f. /\ h.issued = n /\ h.id = n
      /\ h.table = [b \in Agents |-> IF b = a THEN n ELSE IF b \in vs THEN 0 ELSE Collected[b]]
      /\ h.stream = [s \in Ids |->
                       IF s = n THEN [NoStream EXCEPT !.session = s, !.last = clock]
                       ELSE IF s \in evicted THEN [stream[s] EXCEPT !.members = {}]
                       ELSE stream[s]]
      /\ h.sub = CloseAll(sub, gone, "stream_evicted")
    BY <1>1 DEF Evicting
<1>e. evicted \subseteq Ids /\ \A s \in evicted : s <= issued
    BY <1>2, <1>3, Constants DEF Structure, Typed, Allocated, Ids
<1>g. /\ \A s \in evicted : \E v \in vs : s = Collected[v]
      /\ \A v \in vs : Collected[v] \in evicted
      /\ \A c : c \in gone <=> \E s \in evicted : c \in stream[s].members
    OBVIOUS
<1> HIDE DEF n, gone, evicted
<1>4. /\ \A b \in Agents : h.table[b] = IF b = a THEN n ELSE IF b \in vs THEN 0 ELSE Collected[b]
      /\ h.table \in [Agents -> 0 .. MaxSessions]
    <2>1. n \in 0 .. MaxSessions /\ 0 \in 0 .. MaxSessions
        BY <1>2, Constants DEF Ids
    <2>2. \A b \in Agents : Collected[b] \in 0 .. MaxSessions
        BY <1>3 DEF Structure, Typed
    <2> QED
        BY <2>1, <2>2, <1>f
<1>5. ASSUME NEW s \in Ids
      PROVE  /\ h.stream[s] \in StreamType
             /\ s = n => h.stream[s] = [NoStream EXCEPT !.session = s, !.last = clock]
             /\ s # n => /\ h.stream[s].session = stream[s].session
                         /\ h.stream[s].pending = stream[s].pending
                         /\ h.stream[s].fanout = stream[s].fanout
                         /\ h.stream[s].sequence = stream[s].sequence
                         /\ h.stream[s].ring = stream[s].ring
                         /\ s > n => h.stream[s] = NoStream
                         /\ \/ /\ h.stream[s].members = {}
                               /\ s \in evicted
                            \/ /\ h.stream[s].members = stream[s].members
                               /\ s \notin evicted
    <2>1. stream[s] \in StreamType /\ clock \in 0 .. MaxClock /\ s \in Int
        BY DEF StructureInv, Structure, Typed, Ids
    <2>2. [NoStream EXCEPT !.session = s, !.last = clock] \in StreamType
        <3>1. s \in 0 .. MaxSessions
            BY Constants DEF Ids
        <3> QED
            BY <2>1, <3>1, BlankStream DEF StreamType
    <2>3. [stream[s] EXCEPT !.members = {}] \in StreamType
        BY <2>1 DEF StreamType
    <2>5. s > issued => stream[s] = NoStream
        BY <1>3 DEF Structure, Allocated
    <2>6. CASE s = n
        BY <2>6, <2>2, <1>f
    <2>7. CASE s # n /\ s \in evicted
        <3>1. h.stream[s] = [stream[s] EXCEPT !.members = {}]
            BY <2>7, <1>f
        <3>2. s <= issued
            BY <2>7, <1>e
        <3> QED
            BY <3>1, <3>2, <2>7, <2>3, <2>1, <1>2 DEF StreamType
    <2>8. CASE s # n /\ s \notin evicted
        <3>1. h.stream[s] = stream[s]
            BY <2>8, <1>f
        <3> QED
            BY <3>1, <2>8, <2>1, <2>5, <1>2
    <2> QED
        BY <2>6, <2>7, <2>8
<1>6. ASSUME NEW c \in Conns
      PROVE  /\ h.sub[c] \in SubType
             /\ c \in gone => h.sub[c].state # "open"
             /\ c \notin gone => h.sub[c] = sub[c]
             /\ \/ h.sub[c] = sub[c]
                \/ /\ sub[c].state = "open" /\ h.sub[c].state = "closed"
                   /\ h.sub[c].session = sub[c].session /\ h.sub[c].cursor = sub[c].cursor
                   /\ h.sub[c].replay = sub[c].replay /\ h.sub[c].events = sub[c].events
    <2>1. sub[c] \in SubType
        BY DEF StructureInv, Structure, Typed
    <2>2. h.sub[c] = IF c \in gone THEN Close(sub[c], "stream_evicted") ELSE sub[c]
        BY <1>f DEF CloseAll
    <2> QED
        BY <2>1, <2>2, CloseKeepsType DEF Reasons
<1>7. h.stream \in [Ids -> StreamType] /\ h.sub \in [Conns -> SubType]
    <2>1. h.stream = [s \in Ids |-> h.stream[s]]
        BY <1>f
    <2>2. h.sub = [c \in Conns |-> h.sub[c]]
        BY <1>f DEF CloseAll
    <2> QED
        BY <1>5, <1>6, <2>1, <2>2
<1>8. Typed(h.table, h.stream, h.sub, worker, h.issued)
    BY <1>4, <1>7, <1>f, <1>r, <1>3 DEF Structure, Typed
<1>9. /\ h.stream[n].session = n /\ h.stream[n].members = {}
      /\ h.stream[n].pending = <<>> /\ h.stream[n].fanout = Nobody
      /\ h.stream[n].sequence = 0 /\ h.stream[n].ring = <<>>
    <2>1. h.stream[n] = [NoStream EXCEPT !.session = n, !.last = clock]
        BY <1>5, <1>2
    <2> QED
        BY <2>1 DEF NoStream
<1>10. Allocated(h.table, h.stream, h.sub, worker, h.issued)
    <2>1. ASSUME NEW b \in Agents, h.table[b] # 0
          PROVE  h.table[b] <= n /\ h.stream[h.table[b]].session # 0
        <3>1. CASE b = a
            BY <3>1, <1>4, <1>9, <1>2 DEF Ids
        <3>2. CASE b # a
            <4>1. h.table[b] = Collected[b] /\ Collected[b] # 0
                BY <3>2, <2>1, <1>4
            <4>2. /\ Collected[b] <= issued /\ stream[Collected[b]].session # 0
                  /\ Collected[b] \in Ids
                BY <4>1, <1>3, Constants DEF Structure, Allocated, Typed, Ids
            <4>3. Collected[b] # n /\ Collected[b] <= n
                BY <4>2, <1>r
            <4>4. h.stream[Collected[b]].session = stream[Collected[b]].session
                BY <4>2, <4>3, <1>5
            <4> QED
                BY <4>1, <4>2, <4>3, <4>4
        <3> QED
            BY <3>1, <3>2
    <2>2. ASSUME NEW s \in Ids
          PROVE  h.stream[s].session <= n /\ (s > n => h.stream[s] = NoStream)
        <3>1. stream[s].session <= issued /\ stream[s].session \in Int
            BY <1>3 DEF Structure, Allocated, Typed, StreamType
        <3>2. CASE s = n
            BY <3>2, <1>9, <1>r, <1>2
        <3>3. CASE s # n
            <4>1. h.stream[s].session = stream[s].session /\ (s > n => h.stream[s] = NoStream)
                BY <3>3, <1>5
            <4> QED
                BY <3>1, <4>1, <1>2
        <3> QED
            BY <3>2, <3>3
    <2>3. \A c \in Conns : h.sub[c].state = "open" => h.sub[c].id \in Ids
        BY <1>6, <1>3 DEF Structure, Allocated
    <2>4. \A p \in Publishers : worker[p].pc # "idle" => worker[p].id \in 1 .. n
        BY <1>3, <1>2 DEF Structure, Allocated
    <2> QED
        BY <2>1, <2>2, <2>3, <2>4, <1>f DEF Allocated
<1>11. Members(h.table, h.stream, h.sub)
    <2>1. ASSUME NEW c \in Conns, h.sub[c].state = "open"
          PROVE  /\ h.table[h.sub[c].agent] = h.sub[c].id
                 /\ h.sub[c].agent \in Agents
                 /\ c \in h.stream[h.sub[c].id].members
        <3>1. h.sub[c] = sub[c] /\ c \notin gone
            BY <2>1, <1>6
        <3>2. /\ Collected[sub[c].agent] = sub[c].id /\ sub[c].agent \in Agents
              /\ c \in stream[sub[c].id].members /\ sub[c].id \in Ids
            BY <3>1, <2>1, <1>3 DEF Structure, Members, Allocated
        <3>3. sub[c].agent \notin vs
            BY <3>1, <3>2, <1>g
        <3>4. sub[c].agent # a
            BY <3>2, <1>2 DEF Ids
        <3>5. h.table[sub[c].agent] = Collected[sub[c].agent]
            BY <3>2, <3>3, <3>4, <1>4
        <3>6. sub[c].id \notin evicted
            BY <3>1, <3>2, <1>g
        <3>7. sub[c].id # n
            BY <3>2, <1>2, <1>3 DEF Structure, Allocated, Ids
        <3> QED
            BY <3>1, <3>2, <3>5, <3>6, <3>7, <1>5
    <2>2. ASSUME NEW s \in Ids, NEW c \in h.stream[s].members
          PROVE  h.sub[c].state = "open" /\ h.sub[c].id = s
        <3>1. /\ c \in stream[s].members /\ s \notin evicted
              /\ c \in Conns
            BY <2>2, <1>5, <1>9, <1>3 DEF StreamType
        <3>2. sub[c].state = "open" /\ sub[c].id = s
            BY <3>1, <1>3 DEF Structure, Members
        <3>3. c \notin gone
            <4> SUFFICES ASSUME NEW t \in evicted, c \in stream[t].members
                         PROVE  FALSE
                BY <1>g
            <4> QED
                BY <1>e, <3>1, <3>2, <1>3 DEF Structure, Members
        <3> QED
            BY <3>1, <3>2, <3>3, <1>6
    <2> QED
        BY <2>1, <2>2 DEF Members
<1>12. Drained(h.stream, h.sub, worker)
    <2>1. ASSUME NEW p \in Publishers, worker[p].pc \in {"pop", "send", "mark", "unlock"}
          PROVE  h.stream[worker[p].id].fanout = p
        <3>1. stream[worker[p].id].fanout = p /\ worker[p].id \in 1 .. issued
            BY <2>1, <1>3 DEF Structure, Drained, Allocated
        <3> QED
            BY <3>1, <1>5, <1>r
    <2>2. \A c \in Conns : h.sub[c].state = "open" => h.sub[c] = sub[c]
        BY <1>6
    <2>3. ASSUME NEW p \in Publishers
          PROVE  /\ worker[p].pc # "send" => worker[p].todo = {}
                 /\ worker[p].pc \notin {"send", "mark"} => worker[p].overran = {}
                 /\ worker[p].todo \cap worker[p].overran = {}
                 /\ \A c \in worker[p].todo \cup worker[p].overran :
                       h.sub[c].state = "open" => h.sub[c].id = worker[p].id
        <3>1. worker[p].todo \cup worker[p].overran \subseteq Conns
            BY <1>3 DEF Structure, Typed, WorkerType
        <3> QED
            BY <3>1, <2>2, <1>3 DEF Structure, Drained
    <2>4. ASSUME NEW s \in Ids, NEW i \in 1 .. Len(h.stream[s].pending),
                 NEW c \in h.stream[s].pending[i].subs, h.sub[c].state = "open"
          PROVE  h.sub[c].id = s
        <3>1. CASE s = n
            BY <3>1, <1>9, EmptySeq
        <3>2. CASE s # n
            <4>1. h.stream[s].pending = stream[s].pending
                BY <3>2, <1>5
            <4>2. stream[s].pending \in Seq(Delivery) /\ c \in Conns
                <5>1. stream[s].pending \in Seq(Delivery)
                    BY <1>3 DEF Structure, Typed, StreamType
                <5>2. stream[s].pending[i] \in Delivery
                    BY <5>1, <4>1, ElementOfSeq
                <5> QED
                    BY <5>1, <5>2, <4>1 DEF Delivery
            <4> QED
                BY <4>1, <4>2, <2>2, <2>4, <1>3 DEF Structure, Drained
        <3> QED
            BY <3>1, <3>2
    <2>5. \A p \in Publishers : worker[p].pc = "send" => worker[p].item \in Event
        BY <1>3 DEF Structure, Drained
    <2> QED
        BY <2>1, <2>3, <2>4, <2>5 DEF Drained
<1>13. KeptStreams(stream, h.stream)
    BY <1>5, <1>9 DEF KeptStreams
<1>14. KeptSubs(sub, h.sub)
    BY <1>6 DEF KeptSubs
<1> QED
    BY <1>f, <1>2, <1>4, <1>5, <1>8, <1>10, <1>11, <1>12, <1>13, <1>14 DEF Structure

\* What the structure says of one stream a publisher is busy with.
LEMMA BusyWorker ==
    ASSUME StructureInv, NEW p \in Publishers, worker[p].pc # "idle"
    PROVE  /\ worker[p].id \in Ids /\ worker[p].id <= issued
           /\ worker[p] \in WorkerType /\ stream[worker[p].id] \in StreamType
           /\ p # Nobody
<1>1. worker[p].id \in 1 .. issued /\ issued \in 0 .. MaxSessions
    BY DEF StructureInv, Structure, Allocated, Typed
<1>2. worker[p].id \in Ids /\ worker[p].id <= issued
    BY <1>1, Constants DEF Ids
<1> QED
    BY <1>2, NobodyIsNone DEF StructureInv, Structure, Typed

\* A publisher's move within the fan-out that changes only who holds the
\* mutex of its stream and its own position keeps the structure.
LEMMA MutexStep ==
    ASSUME StructureInv, NEW p \in Publishers, worker[p].pc # "idle",
           NEW f \in Publishers \cup {Nobody}, NEW w \in WorkerType,
           stream' = [stream EXCEPT ![worker[p].id].fanout = f],
           worker' = [worker EXCEPT ![p] = w],
           w.pc # "idle" => w.id = worker[p].id,
           w.pc \in {"pop", "send", "mark", "unlock"} => f = p,
           w.todo = {}, w.overran = {}, w.pc # "send",
           \A q \in Publishers \ {p} :
              worker[q].pc \in {"pop", "send", "mark", "unlock"} => worker[q].id # worker[p].id,
           UNCHANGED <<clock, issued, table, sub>>
    PROVE  StructureInv'
<1> DEFINE s == worker[p].id
<1>1. s \in Ids /\ s <= issued /\ stream[s] \in StreamType /\ worker[p] \in WorkerType
    BY BusyWorker
<1>2. Structure(table, stream, sub, worker, issued) /\ clock \in 0 .. MaxClock
    BY DEF StructureInv
<1>3. [stream[s] EXCEPT !.fanout = f] \in StreamType
    BY <1>1 DEF StreamType
<1>4. \A t \in Ids : stream'[t] = IF t = s THEN [stream[s] EXCEPT !.fanout = f] ELSE stream[t]
    BY <1>1, <1>2 DEF Structure, Typed
<1>5. \A t \in Ids : /\ stream'[t].members = stream[t].members
                     /\ stream'[t].pending = stream[t].pending
                     /\ stream'[t].session = stream[t].session
                     /\ t # s => stream'[t] = stream[t]
    <2>1. /\ [stream[s] EXCEPT !.fanout = f].members = stream[s].members
          /\ [stream[s] EXCEPT !.fanout = f].pending = stream[s].pending
          /\ [stream[s] EXCEPT !.fanout = f].session = stream[s].session
        BY <1>1 DEF StreamType
    <2> QED
        BY <1>4, <2>1
<1>6. stream'[s].fanout = f
    BY <1>1, <1>4 DEF StreamType
<1>7. \A q \in Publishers : worker'[q] = IF q = p THEN w ELSE worker[q]
    BY <1>2 DEF Structure, Typed
<1>8. Typed(table, stream', sub, worker', issued)
    <2>1. stream' \in [Ids -> StreamType]
        BY <1>1, <1>2, <1>3 DEF Structure, Typed
    <2>2. worker' \in [Publishers -> WorkerType]
        BY <1>2 DEF Structure, Typed
    <2> QED
        BY <1>2, <2>1, <2>2 DEF Structure, Typed
<1>9. Allocated(table, stream', sub, worker', issued)
    <2>1. \A a \in Agents : table[a] # 0 => table[a] <= issued /\ stream'[table[a]].session # 0
        BY <1>2, <1>5, Constants DEF Structure, Allocated, Typed, Ids
    <2>2. \A t \in Ids : stream'[t].session <= issued /\ (t > issued => stream'[t] = NoStream)
        <3>1. \A t \in Ids : t > issued => t # s
            BY <1>1, <1>2, Constants DEF Structure, Typed, Ids
        <3> QED
            BY <3>1, <1>2, <1>5 DEF Structure, Allocated
    <2>3. \A q \in Publishers : worker'[q].pc # "idle" => worker'[q].id \in 1 .. issued
        BY <1>2, <1>7 DEF Structure, Allocated
    <2> QED
        BY <1>2, <2>1, <2>2, <2>3 DEF Structure, Allocated
<1>10. Members(table, stream', sub)
    BY <1>2, <1>5 DEF Structure, Members, Allocated
<1>11. Drained(stream', sub, worker')
    <2>1. ASSUME NEW q \in Publishers, worker'[q].pc \in {"pop", "send", "mark", "unlock"}
          PROVE  stream'[worker'[q].id].fanout = q
        <3>1. CASE q = p
            BY <3>1, <2>1, <1>6, <1>7
        <3>2. CASE q # p
            <4>1. /\ worker'[q] = worker[q] /\ worker[q].id # s
                  /\ worker[q].id \in Ids /\ stream[worker[q].id].fanout = q
                BY <3>2, <2>1, <1>7, <1>2, BusyWorker DEF Structure, Drained
            <4> QED
                BY <4>1, <1>5
        <3> QED
            BY <3>1, <3>2
    <2>2. ASSUME NEW q \in Publishers
          PROVE  /\ worker'[q].pc # "send" => worker'[q].todo = {}
                 /\ worker'[q].pc \notin {"send", "mark"} => worker'[q].overran = {}
                 /\ worker'[q].todo \cap worker'[q].overran = {}
                 /\ \A c \in worker'[q].todo \cup worker'[q].overran :
                       sub[c].state = "open" => sub[c].id = worker'[q].id
                 /\ worker'[q].pc = "send" => worker'[q].item \in Event
        BY <1>2, <1>7 DEF Structure, Drained
    <2> QED
        BY <2>1, <2>2, <1>2, <1>5 DEF Structure, Drained
<1> QED
    BY <1>2, <1>8, <1>9, <1>10, <1>11 DEF StructureInv, Structure

\* Taking and releasing fanoutMu keeps the structure.
LEMMA TakeFanoutStructure ==
    ASSUME StructureInv, NEW p \in Publishers, TakeFanout(p)
    PROVE  StructureInv'
<1> DEFINE w == [worker[p] EXCEPT !.pc = "pop"]
<1>1. worker[p].pc = "lock" /\ stream[worker[p].id].fanout = Nobody
    BY DEF TakeFanout
<1>2. worker[p] \in WorkerType
    BY <1>1, BusyWorker
<1>3. w \in WorkerType /\ w.pc = "pop" /\ w.id = worker[p].id
    BY <1>2 DEF WorkerType
<1>4. w.todo = {} /\ w.overran = {}
    <2>1. worker[p].todo = {} /\ worker[p].overran = {}
        BY <1>1 DEF StructureInv, Structure, Drained
    <2> QED
        BY <2>1, <1>2 DEF WorkerType
<1>5. \A q \in Publishers \ {p} :
        worker[q].pc \in {"pop", "send", "mark", "unlock"} => worker[q].id # worker[p].id
    BY <1>1, NobodyIsNone DEF StructureInv, Structure, Drained
<1>6. /\ stream' = [stream EXCEPT ![worker[p].id].fanout = p]
      /\ worker' = [worker EXCEPT ![p] = w]
      /\ UNCHANGED <<clock, issued, table, sub>>
    BY DEF TakeFanout
<1> HIDE DEF w
<1> QED
    BY <1>1, <1>3, <1>4, <1>5, <1>6, MutexStep

LEMMA UnlockStructure ==
    ASSUME StructureInv, NEW p \in Publishers, Unlock(p)
    PROVE  StructureInv'
<1>1. worker[p].pc = "unlock"
    BY DEF Unlock
<1>2. Idle \in WorkerType /\ Idle.pc = "idle" /\ Idle.todo = {} /\ Idle.overran = {}
    BY BlankWorker DEF Idle
<1>3. \A q \in Publishers \ {p} :
        worker[q].pc \in {"pop", "send", "mark", "unlock"} => worker[q].id # worker[p].id
    BY <1>1 DEF StructureInv, Structure, Drained
<1>4. /\ stream' = [stream EXCEPT ![worker[p].id].fanout = Nobody]
      /\ worker' = [worker EXCEPT ![p] = Idle]
      /\ UNCHANGED <<clock, issued, table, sub>>
    BY DEF Unlock
<1> QED
    BY <1>1, <1>2, <1>3, <1>4, MutexStep

\* A publisher that moves within its drain and holds no more than before
\* keeps the structure.
LEMMA WorkerStep ==
    ASSUME NEW T, NEW S, NEW U, NEW W, NEW N, Structure(T, S, U, W, N),
           NEW p \in Publishers, NEW w \in WorkerType,
           W[p].pc \in {"pop", "send", "mark"}, w.pc \in {"pop", "send", "mark", "unlock"},
           w.id = W[p].id,
           w.todo \subseteq W[p].todo, w.overran \subseteq W[p].todo \cup W[p].overran,
           w.todo \cap w.overran = {},
           w.pc # "send" => w.todo = {},
           w.pc \notin {"send", "mark"} => w.overran = {},
           w.pc = "send" => W[p].pc = "send" /\ w.item = W[p].item
    PROVE  Structure(T, S, U, [W EXCEPT ![p] = w], N)
<1> DEFINE W2 == [W EXCEPT ![p] = w]
<1>1. \A q \in Publishers : W2[q] = IF q = p THEN w ELSE W[q]
    BY DEF Structure, Typed
<1>2. Typed(T, S, U, W2, N)
    <2>1. W2 \in [Publishers -> WorkerType]
        BY DEF Structure, Typed
    <2> QED
        BY <2>1 DEF Structure, Typed
<1> HIDE DEF W2
<1>3. Allocated(T, S, U, W2, N)
    BY <1>1 DEF Structure, Allocated
<1>4. Drained(S, U, W2)
    <2>1. ASSUME NEW q \in Publishers
          PROVE  /\ W2[q].pc \in {"pop", "send", "mark", "unlock"} => S[W2[q].id].fanout = q
                 /\ W2[q].pc # "send" => W2[q].todo = {}
                 /\ W2[q].pc \notin {"send", "mark"} => W2[q].overran = {}
                 /\ W2[q].todo \cap W2[q].overran = {}
                 /\ \A c \in W2[q].todo \cup W2[q].overran :
                       U[c].state = "open" => U[c].id = W2[q].id
                 /\ W2[q].pc = "send" => W2[q].item \in Event
        BY <1>1 DEF Structure, Drained
    <2> QED
        BY <2>1 DEF Structure, Drained
<1>5. Structure(T, S, U, W2, N)
    BY <1>2, <1>3, <1>4 DEF Structure
<1> QED
    BY <1>5 DEF W2

Unregistered(S, s, lost, l) ==
    [S EXCEPT ![s] = [S[s] EXCEPT !.members = S[s].members \ lost, !.last = l]]

\* Subscribers that leave their stream, and are not open any more, keep it.
LEMMA Deregister ==
    ASSUME NEW T, NEW S, NEW U, NEW W, NEW N, Structure(T, S, U, W, N),
           NEW s \in Ids, s <= N, NEW lost \in SUBSET S[s].members, NEW l \in 0 .. MaxClock,
           NEW S2, S2 = Unregistered(S, s, lost, l),
           NEW U2 \in [Conns -> SubType],
           \A c \in lost : U2[c].state # "open",
           \A c \in Conns \ lost : U2[c] = U[c]
    PROVE  Structure(T, S2, U2, W, N)
<1>1. /\ S[s] \in StreamType /\ S \in [Ids -> StreamType] /\ N \in Int
      /\ T \in [Agents -> 0 .. MaxSessions]
    BY Constants DEF Structure, Typed
<1> DEFINE r == [S[s] EXCEPT !.members = S[s].members \ lost, !.last = l]
<1>2. /\ r \in StreamType /\ r.members = S[s].members \ lost /\ r.session = S[s].session
      /\ r.pending = S[s].pending /\ r.fanout = S[s].fanout
    BY <1>1 DEF StreamType
<1> HIDE DEF r
<1>3. S2 = [S EXCEPT ![s] = r]
    BY DEF r, Unregistered
<1>4. S2 \in [Ids -> StreamType]
    BY <1>1, <1>2, <1>3
<1>5. \A t \in Ids : S2[t] = IF t = s THEN r ELSE S[t]
    BY <1>1, <1>3
<1>6. \A t \in Ids : /\ S2[t].session = S[t].session /\ S2[t].pending = S[t].pending
                     /\ S2[t].fanout = S[t].fanout /\ S2[t].members \subseteq S[t].members
                     /\ t # s => S2[t] = S[t]
                     /\ \A c \in S[t].members \ lost : c \in S2[t].members
    BY <1>2, <1>5
<1>7. \A c \in Conns : U2[c].state = "open" => c \notin lost /\ U2[c] = U[c]
    OBVIOUS
<1>8. Typed(T, S2, U2, W, N)
    BY <1>4 DEF Structure, Typed
<1>9. Allocated(T, S2, U2, W, N)
    <2>1. \A a \in Agents : T[a] # 0 => T[a] <= N /\ S2[T[a]].session # 0
        BY <1>1, <1>6, Constants DEF Structure, Allocated, Ids
    <2>2. \A t \in Ids : t > N => t # s
        BY <1>1, Constants DEF Ids
    <2>3. \A t \in Ids : S2[t].session <= N /\ (t > N => S2[t] = NoStream)
        BY <2>2, <1>6 DEF Structure, Allocated
    <2> QED
        BY <2>1, <2>3, <1>7 DEF Structure, Allocated
<1>10. Members(T, S2, U2)
    <2>1. ASSUME NEW c \in Conns, U2[c].state = "open"
          PROVE  /\ T[U2[c].agent] = U2[c].id /\ U2[c].agent \in Agents
                 /\ c \in S2[U2[c].id].members
        BY <2>1, <1>6, <1>7 DEF Structure, Members, Allocated
    <2>2. ASSUME NEW t \in Ids, NEW c \in S2[t].members
          PROVE  U2[c].state = "open" /\ U2[c].id = t
        <3>1. c \in S[t].members /\ c \in Conns /\ U[c].state = "open" /\ U[c].id = t
            BY <1>1, <1>6 DEF Structure, Members, StreamType
        <3>2. c \notin lost
            <4>1. CASE t = s
                BY <4>1, <1>2, <1>5
            <4>2. CASE t # s
                BY <4>2, <3>1 DEF Structure, Members
            <4> QED
                BY <4>1, <4>2
        <3> QED
            BY <3>1, <3>2
    <2> QED
        BY <2>1, <2>2 DEF Members
<1>11. Drained(S2, U2, W)
    <2>1. ASSUME NEW q \in Publishers
          PROVE  /\ W[q].pc \in {"pop", "send", "mark", "unlock"} => S2[W[q].id].fanout = q
                 /\ \A c \in W[q].todo \cup W[q].overran :
                       U2[c].state = "open" => U2[c].id = W[q].id
        <3>1. W[q].todo \cup W[q].overran \subseteq Conns
            BY DEF Structure, Typed, WorkerType
        <3>2. W[q].pc # "idle" => W[q].id \in Ids
            BY <1>1, Constants DEF Structure, Allocated, Typed, Ids
        <3>3. W[q].pc \in {"pop", "send", "mark", "unlock"} => S2[W[q].id].fanout = q
            <4>1. W[q].pc \in {"pop", "send", "mark", "unlock"} =>
                     S[W[q].id].fanout = q /\ W[q].id \in Ids
                BY <3>2 DEF Structure, Drained
            <4> QED
                BY <4>1, <1>6
        <3> QED
            BY <3>1, <3>3, <1>7 DEF Structure, Drained
    <2>2. ASSUME NEW t \in Ids, NEW i \in 1 .. Len(S2[t].pending), NEW c \in S2[t].pending[i].subs,
                 U2[c].state = "open"
          PROVE  U2[c].id = t
        <3>1. S[t].pending \in Seq(Delivery) /\ i \in 1 .. Len(S[t].pending)
              /\ c \in S[t].pending[i].subs
            BY <1>1, <1>6, <2>2 DEF StreamType
        <3>2. c \in Conns
            <4>1. S[t].pending[i] \in Delivery
                BY <3>1, ElementOfSeq
            <4> QED
                BY <3>1, <4>1 DEF Delivery
        <3> QED
            BY <3>1, <3>2, <2>2, <1>7 DEF Structure, Drained
    <2> QED
        BY <2>1, <2>2 DEF Structure, Drained
<1> QED
    BY <1>8, <1>9, <1>10, <1>11 DEF Structure

\* A step of readers that opens nobody and closes only who is in no stream
\* keeps the structure.
LEMMA SubStep ==
    ASSUME NEW T, NEW S, NEW U, NEW W, NEW N, Structure(T, S, U, W, N),
           NEW U2 \in [Conns -> SubType],
           \A c \in Conns : /\ U[c].state = "open" <=> U2[c].state = "open"
                            /\ U[c].state = "open" => U2[c].id = U[c].id
                            /\ U[c].state = "open" => U2[c].agent = U[c].agent
    PROVE  Structure(T, S, U2, W, N)
<1>1. Typed(T, S, U2, W, N) /\ Allocated(T, S, U2, W, N)
    BY DEF Structure, Typed, Allocated
<1>2. Members(T, S, U2)
    <2>1. \A s \in Ids : S[s].members \subseteq Conns
        BY DEF Structure, Typed, StreamType
    <2> QED
        BY <2>1 DEF Structure, Members
<1>3. Drained(S, U2, W)
    <2>1. \A q \in Publishers : W[q].todo \cup W[q].overran \subseteq Conns
        BY DEF Structure, Typed, WorkerType
    <2>2. ASSUME NEW s \in Ids, NEW i \in 1 .. Len(S[s].pending), NEW c \in S[s].pending[i].subs
          PROVE  U2[c].state = "open" => U2[c].id = s
        <3>1. S[s].pending \in Seq(Delivery)
            BY DEF Structure, Typed, StreamType
        <3>2. S[s].pending[i] \in Delivery
            BY <3>1, ElementOfSeq
        <3>3. c \in Conns
            BY <3>2 DEF Delivery
        <3> QED
            BY <3>3 DEF Structure, Drained
    <2> QED
        BY <2>1, <2>2 DEF Structure, Drained
<1> QED
    BY <1>1, <1>2, <1>3 DEF Structure

\* One trySend keeps the structure: it touches no registration, and what it
\* could not send becomes an overrun to mark.
LEMMA SendStructure ==
    ASSUME StructureInv, NEW p \in Publishers, NEW c \in Conns, Send(p, c)
    PROVE  StructureInv'
<1> DEFINE left == worker[p].todo \ {c}
           overran == IF Full(c) THEN worker[p].overran \cup {c} ELSE worker[p].overran
           w == [worker[p] EXCEPT !.pc = CASE left # {} -> "send"
                                           [] left = {} /\ overran # {} -> "mark"
                                           [] OTHER -> "pop",
                                  !.todo = left, !.overran = overran]
<1>1. worker[p].pc = "send" /\ c \in worker[p].todo /\ worker[p] \in WorkerType
    BY BusyWorker DEF Send
<1>2. worker' = [worker EXCEPT ![p] = w] /\ UNCHANGED <<clock, issued, table, stream>>
    BY DEF Send
<1>3. w \in WorkerType /\ w.todo = left /\ w.overran = overran /\ w.id = worker[p].id
      /\ w.item = worker[p].item
      /\ w.pc = CASE left # {} -> "send" [] left = {} /\ overran # {} -> "mark" [] OTHER -> "pop"
    BY <1>1 DEF WorkerType
<1>4. worker[p].todo \cap worker[p].overran = {}
    BY DEF StructureInv, Structure, Drained
<1>5. Structure(table, stream, sub, worker', issued)
    <2>1. /\ w.todo \subseteq worker[p].todo /\ w.todo \cap w.overran = {}
          /\ w.overran \subseteq worker[p].todo \cup worker[p].overran
          /\ w.pc \in {"pop", "send", "mark"} /\ (w.pc # "send" => w.todo = {})
          /\ (w.pc \notin {"send", "mark"} => w.overran = {})
        BY <1>1, <1>3, <1>4
    <2> HIDE DEF w
    <2>2. Structure(table, stream, sub, [worker EXCEPT ![p] = w], issued)
        BY <2>1, <1>1, <1>3, WorkerStep DEF StructureInv
    <2> QED
        BY <2>2, <1>2
<1>6. /\ sub' \in [Conns -> SubType]
      /\ \A d \in Conns : /\ sub'[d].state = sub[d].state /\ sub'[d].id = sub[d].id
                          /\ sub'[d].agent = sub[d].agent
    <2>1. sub \in [Conns -> SubType] /\ worker[p].item \in Event \cup {NoEvent}
        BY <1>1 DEF StructureInv, Structure, Typed, WorkerType
    <2>2. CASE sub[c].state = "open" /\ ~Full(c)
        <3>1. sub' = [sub EXCEPT ![c].events = Append(@, worker[p].item)]
            BY <2>2 DEF Send
        <3>2. worker[p].item \in Event /\ sub[c] \in SubType
            BY <1>1, <2>1 DEF StructureInv, Structure, Drained
        <3>3. Append(sub[c].events, worker[p].item) \in Seq(Event)
            BY <3>2, AppendProperties DEF SubType, SubRecord
        <3> DEFINE u == [sub[c] EXCEPT !.events = Append(sub[c].events, worker[p].item)]
        <3>4. /\ u \in SubType /\ u.state = sub[c].state /\ u.id = sub[c].id
              /\ u.agent = sub[c].agent
            BY <3>2, <3>3 DEF SubType, SubRecord
        <3>5. sub' = [sub EXCEPT ![c] = u]
            BY <3>1
        <3> HIDE DEF u
        <3> QED
            BY <3>4, <3>5, <2>1
    <2>3. CASE ~ (sub[c].state = "open" /\ ~Full(c))
        BY <2>3, <2>1 DEF Send
    <2> QED
        BY <2>2, <2>3
<1>7. Structure(table, stream, sub', worker', issued)
    BY <1>5, <1>6, SubStep
<1> QED
    BY <1>2, <1>7 DEF StructureInv

\* Replacing the contents of a stream keeps the structure when the queue holds
\* deliveries for its own subscribers only.
LEMMA ContentStep ==
    ASSUME NEW T, NEW S, NEW U, NEW W, NEW N, Structure(T, S, U, W, N),
           NEW s \in Ids, s <= N, NEW r \in StreamType,
           r.members = S[s].members, r.fanout = S[s].fanout,
           r.session <= N, S[s].session # 0 => r.session # 0,
           \A i \in 1 .. Len(r.pending) : \A c \in r.pending[i].subs :
              U[c].state = "open" => U[c].id = s,
           NEW S2, S2 = [S EXCEPT ![s] = r]
    PROVE  Structure(T, S2, U, W, N)
<1>1. /\ S \in [Ids -> StreamType] /\ N \in Int /\ T \in [Agents -> 0 .. MaxSessions]
    BY Constants DEF Structure, Typed
<1>2. S2 \in [Ids -> StreamType] /\ \A t \in Ids : S2[t] = IF t = s THEN r ELSE S[t]
    BY <1>1
<1>3. Typed(T, S2, U, W, N)
    BY <1>2 DEF Structure, Typed
<1>4. Allocated(T, S2, U, W, N)
    <2>1. \A a \in Agents : T[a] # 0 => T[a] \in Ids
        BY <1>1, Constants DEF Ids
    <2>2. \A a \in Agents : T[a] # 0 => T[a] <= N /\ S2[T[a]].session # 0
        BY <1>2, <2>1 DEF Structure, Allocated
    <2>3. \A t \in Ids : t > N => t # s
        BY <1>1, Constants DEF Ids
    <2>4. \A t \in Ids : S2[t].session <= N /\ (t > N => S2[t] = NoStream)
        BY <1>2, <2>3 DEF Structure, Allocated
    <2> QED
        BY <2>2, <2>4 DEF Structure, Allocated
<1>5. Members(T, S2, U)
    <2>1. \A t \in Ids : S2[t].members = S[t].members
        BY <1>2
    <2> QED
        BY <2>1 DEF Structure, Members, Allocated
<1>6. Drained(S2, U, W)
    <2>1. ASSUME NEW q \in Publishers, W[q].pc \in {"pop", "send", "mark", "unlock"}
          PROVE  S2[W[q].id].fanout = q
        <3>1. W[q].id \in Ids /\ S[W[q].id].fanout = q
            BY <1>1, <2>1, Constants DEF Structure, Allocated, Drained, Typed, Ids
        <3> QED
            BY <1>2, <3>1
    <2>2. ASSUME NEW t \in Ids, NEW i \in 1 .. Len(S2[t].pending), NEW c \in S2[t].pending[i].subs
          PROVE  U[c].state = "open" => U[c].id = t
        BY <1>2 DEF Structure, Drained
    <2> QED
        BY <2>1, <2>2 DEF Structure, Drained
<1> QED
    BY <1>3, <1>4, <1>5, <1>6 DEF Structure

\* A publisher that starts to wait for the mutex of a stream, or ends its call.
LEMMA EnqueueStep ==
    ASSUME NEW T, NEW S, NEW U, NEW W, NEW N, Structure(T, S, U, W, N),
           NEW p \in Publishers, NEW id \in Ids, id <= N,
           NEW w, w = Idle \/ w = [Idle EXCEPT !.pc = "lock", !.id = id]
    PROVE  Structure(T, S, U, [W EXCEPT ![p] = w], N)
<1> DEFINE W2 == [W EXCEPT ![p] = w]
<1>1. /\ w \in WorkerType /\ w.todo = {} /\ w.overran = {} /\ w.pc \in {"idle", "lock"}
      /\ w.pc # "idle" => w.id = id
    <2>1. id \in 0 .. MaxSessions
        BY Constants DEF Ids
    <2>2. Idle.todo = {} /\ Idle.overran = {} /\ Idle.pc = "idle"
        BY DEF Idle
    <2> QED
        BY BlankWorker, <2>1, <2>2 DEF WorkerType
<1>2. \A q \in Publishers : W2[q] = IF q = p THEN w ELSE W[q]
    BY DEF Structure, Typed
<1>3. Typed(T, S, U, W2, N)
    <2>1. W2 \in [Publishers -> WorkerType]
        BY <1>1 DEF Structure, Typed
    <2> QED
        BY <2>1 DEF Structure, Typed
<1> HIDE DEF W2
<1>4. Allocated(T, S, U, W2, N)
    <2>1. id \in 1 .. N
        BY Constants DEF Structure, Typed, Ids
    <2> QED
        BY <1>1, <1>2, <2>1 DEF Structure, Allocated
<1>5. Drained(S, U, W2)
    <2>1. ASSUME NEW q \in Publishers
          PROVE  /\ W2[q].pc \in {"pop", "send", "mark", "unlock"} => S[W2[q].id].fanout = q
                 /\ W2[q].pc # "send" => W2[q].todo = {}
                 /\ W2[q].pc \notin {"send", "mark"} => W2[q].overran = {}
                 /\ W2[q].todo \cap W2[q].overran = {}
                 /\ \A c \in W2[q].todo \cup W2[q].overran :
                       U[c].state = "open" => U[c].id = W2[q].id
                 /\ W2[q].pc = "send" => W2[q].item \in Event
        BY <1>1, <1>2 DEF Structure, Drained
    <2> QED
        BY <2>1 DEF Structure, Drained
<1>6. Structure(T, S, U, W2, N)
    BY <1>3, <1>4, <1>5 DEF Structure
<1> QED
    BY <1>6 DEF W2

\* A new session id is used up.
LEMMA IssueStep ==
    ASSUME NEW T, NEW S, NEW U, NEW W, NEW N, Structure(T, S, U, W, N), N < MaxSessions
    PROVE  Structure(T, S, U, W, N + 1)
<1>1. N \in 0 .. MaxSessions /\ T \in [Agents -> 0 .. MaxSessions]
      /\ S \in [Ids -> StreamType] /\ W \in [Publishers -> WorkerType]
    BY DEF Structure, Typed
<1>2. Typed(T, S, U, W, N + 1)
    BY <1>1, Constants DEF Structure, Typed
<1>3. Allocated(T, S, U, W, N + 1)
    <2>1. \A a \in Agents : T[a] # 0 => T[a] <= N + 1 /\ S[T[a]].session # 0
        BY <1>1, Constants DEF Structure, Allocated
    <2>2. \A s \in Ids : S[s].session <= N + 1
        BY <1>1, Constants DEF Structure, Allocated, StreamType
    <2>3. \A s \in Ids : s > N + 1 => S[s] = NoStream
        BY <1>1, Constants DEF Structure, Allocated, Ids
    <2>4. \A p \in Publishers : W[p].pc # "idle" => W[p].id \in 1 .. N + 1
        BY <1>1, Constants DEF Structure, Allocated
    <2> QED
        BY <2>1, <2>2, <2>3, <2>4 DEF Structure, Allocated
<1> QED
    BY <1>2, <1>3 DEF Structure

\* Taking the head of the queue keeps the structure.
LEMMA PopStructure ==
    ASSUME StructureInv, NEW p \in Publishers, Pop(p)
    PROVE  StructureInv'
<1> DEFINE s == worker[p].id
           queue == stream[s].pending
<1>1. /\ worker[p].pc = "pop" /\ worker[p] \in WorkerType /\ s \in Ids /\ s <= issued
      /\ stream[s] \in StreamType /\ queue \in Seq(Delivery)
    BY BusyWorker DEF Pop, StreamType
<1>2. worker[p].todo = {} /\ worker[p].overran = {}
    BY <1>1 DEF StructureInv, Structure, Drained
<1>3. Structure(table, stream, sub, worker, issued)
    BY DEF StructureInv
<1>4. CASE queue = <<>>
    <2> DEFINE w == [worker[p] EXCEPT !.pc = "unlock"]
    <2>1. worker' = [worker EXCEPT ![p] = w]
        BY <1>4 DEF Pop
    <2>2. /\ w \in WorkerType /\ w.pc = "unlock" /\ w.id = worker[p].id
          /\ w.todo = {} /\ w.overran = {}
        BY <1>1, <1>2 DEF WorkerType
    <2> HIDE DEF w
    <2>3. Structure(table, stream, sub, [worker EXCEPT ![p] = w], issued)
        BY <1>1, <1>2, <1>3, <2>2, WorkerStep
    <2>4. UNCHANGED <<clock, issued, table, sub, stream>>
        BY <1>4 DEF Pop
    <2> QED
        BY <2>1, <2>3, <2>4 DEF StructureInv
<1>5. CASE queue # <<>>
    <2> DEFINE w == [worker[p] EXCEPT !.pc = "send", !.item = Head(queue).event,
                                      !.todo = Head(queue).subs]
               r == [stream[s] EXCEPT !.pending = Tail(queue)]
    <2>1. /\ Head(queue) = queue[1] /\ Head(queue) \in Delivery /\ 1 \in 1 .. Len(queue)
          /\ Tail(queue) \in Seq(Delivery) /\ Len(Tail(queue)) = Len(queue) - 1
          /\ \A i \in 1 .. Len(Tail(queue)) : Tail(queue)[i] = queue[i + 1] /\ i + 1 \in 1 .. Len(queue)
        <3>1. Len(queue) \in Nat /\ Len(queue) # 0
            BY <1>1, <1>5, EmptySeq, LenProperties
        <3> QED
            BY <1>1, <1>5, <3>1, HeadTailProperties
    <2>2. /\ w \in WorkerType /\ w.pc = "send" /\ w.id = s /\ w.overran = {}
          /\ w.item \in Event /\ w.todo = queue[1].subs
        BY <1>1, <1>2, <2>1 DEF WorkerType, Delivery
    <2>3. /\ r \in StreamType /\ r.members = stream[s].members /\ r.fanout = stream[s].fanout
          /\ r.session = stream[s].session /\ r.pending = Tail(queue)
        BY <1>1, <2>1 DEF StreamType
    <2>4. \A i \in 1 .. Len(queue) : \A c \in queue[i].subs : sub[c].state = "open" => sub[c].id = s
        BY <1>1, <1>3 DEF Structure, Drained
    <2>5. /\ stream' = [stream EXCEPT ![s] = r] /\ worker' = [worker EXCEPT ![p] = w]
          /\ UNCHANGED <<clock, issued, table, sub>>
        BY <1>5 DEF Pop
    <2> HIDE DEF w, r, s
    <2>6. Structure(table, stream', sub, worker, issued)
        <3>1. stream[s].session <= issued
            BY <1>1, <1>3 DEF Structure, Allocated
        <3>2. \A i \in 1 .. Len(r.pending) : \A c \in r.pending[i].subs :
                 sub[c].state = "open" => sub[c].id = s
            BY <2>1, <2>3, <2>4
        <3> QED
            BY <1>1, <1>3, <2>3, <2>5, <3>1, <3>2, ContentStep
    <2>7. Drained(stream', sub, worker')
        <3>1. \A q \in Publishers : worker'[q] = IF q = p THEN w ELSE worker[q]
            BY <1>3, <2>5 DEF Structure, Typed
        <3>2. stream'[s].fanout = p
            BY <1>1, <2>6 DEF Structure, Drained, s
        <3>3. ASSUME NEW q \in Publishers
              PROVE  /\ worker'[q].pc \in {"pop", "send", "mark", "unlock"} =>
                           stream'[worker'[q].id].fanout = q
                     /\ worker'[q].pc # "send" => worker'[q].todo = {}
                     /\ worker'[q].pc \notin {"send", "mark"} => worker'[q].overran = {}
                     /\ worker'[q].todo \cap worker'[q].overran = {}
                     /\ \A c \in worker'[q].todo \cup worker'[q].overran :
                           sub[c].state = "open" => sub[c].id = worker'[q].id
                     /\ worker'[q].pc = "send" => worker'[q].item \in Event
            <4>1. CASE q = p
                BY <4>1, <3>1, <3>2, <2>2, <2>4, <2>1
            <4>2. CASE q # p
                BY <4>2, <3>1, <2>6 DEF Structure, Drained
            <4> QED
                BY <4>1, <4>2
        <3> QED
            BY <3>3, <2>6 DEF Structure, Drained
    <2>8. Typed(table, stream', sub, worker', issued) /\ Allocated(table, stream', sub, worker', issued)
        <3>1. worker' \in [Publishers -> WorkerType]
            BY <1>3, <2>2, <2>5 DEF Structure, Typed
        <3>2. \A q \in Publishers : worker'[q].pc # "idle" => worker'[q].id \in 1 .. issued
            <4>1. s \in 1 .. issued
                BY <1>1, <1>3 DEF Structure, Allocated, s
            <4> QED
                BY <4>1, <1>3, <2>2, <2>5 DEF Structure, Typed, Allocated
        <3> QED
            BY <2>6, <3>1, <3>2 DEF Structure, Typed, Allocated
    <2> QED
        BY <2>5, <2>6, <2>7, <2>8 DEF StructureInv, Structure
<1> QED
    BY <1>4, <1>5

\* What ensureStreamLocked, after collectGarbageLocked, leaves: the structure
\* holds of it; without a stream, or with one that existed, only idle streams
\* were collected.
LEMMA EnsuredStructure ==
    ASSUME StructureInv, NEW a \in Agents, NEW h \in Ensured(a)
    PROVE  /\ Structure(h.table, h.stream, h.sub, worker, h.issued)
           /\ h.id # 0 => /\ h.id \in Ids /\ h.id <= h.issued /\ h.table[a] = h.id
                          /\ h.stream[h.id].session # 0
           /\ \/ /\ h.table = Collected /\ h.stream = stream /\ h.sub = sub
                 /\ h.issued = issued /\ h.id = Collected[a]
              \/ /\ Collected[a] = 0 /\ issued < MaxSessions /\ h \in Created(a)
                 /\ h.id # 0 /\ h.stream[h.id].sequence = 0 /\ h.issued = issued + 1
           /\ KeptStreams(stream, h.stream) /\ KeptSubs(sub, h.sub)
<1>1. CASE h \in Found(a)
    <2>1. /\ h.table = Collected /\ h.stream = stream /\ h.sub = sub
          /\ h.issued = issued /\ h.id = Collected[a]
        BY <1>1 DEF Found
    <2>2. Structure(h.table, h.stream, h.sub, worker, h.issued)
        BY <2>1, CollectedStructure
    <2>3. h.id # 0 => h.id \in Ids
        BY <2>1, CollectedFacts, Constants DEF Ids
    <2>4. KeptStreams(stream, h.stream) /\ KeptSubs(sub, h.sub)
        BY <2>1 DEF KeptStreams, KeptSubs
    <2> QED
        BY <2>1, <2>2, <2>3, <2>4 DEF Structure, Allocated
<1>2. CASE Collected[a] = 0 /\ issued < MaxSessions /\ h \in Created(a)
    <2>1. /\ Structure(h.table, h.stream, h.sub, worker, h.issued)
          /\ h.id = issued + 1 /\ h.issued = issued + 1 /\ h.table[a] = h.id
          /\ h.stream[h.id] = [NoStream EXCEPT !.session = h.id, !.last = clock]
          /\ KeptStreams(stream, h.stream) /\ KeptSubs(sub, h.sub)
        BY <1>2, CreatedStructure
    <2>2. h.id \in Ids /\ h.id # 0 /\ h.id <= h.issued
        BY <2>1, <1>2, Constants DEF StructureInv, Structure, Typed, Ids
    <2>3. h.stream[h.id].session = h.id /\ h.stream[h.id].sequence = 0
        BY <2>1 DEF NoStream
    <2> QED
        BY <1>2, <2>1, <2>2, <2>3
<1> QED
    BY <1>1, <1>2 DEF Ensured

\* The overruns that are still registered are closed and forgotten together.
LEMMA MarkStructure ==
    ASSUME StructureInv, NEW p \in Publishers, MarkOverruns(p)
    PROVE  StructureInv'
<1> DEFINE s == worker[p].id
           lost == worker[p].overran \cap stream[s].members
           w == [worker[p] EXCEPT !.pc = "pop", !.overran = {}]
<1>1. /\ worker[p].pc = "mark" /\ worker[p] \in WorkerType /\ s \in Ids /\ s <= issued
      /\ stream[s] \in StreamType
    BY BusyWorker DEF MarkOverruns
<1>2. Structure(table, stream, sub, worker, issued) /\ worker[p].todo = {}
    BY <1>1 DEF StructureInv, Structure, Drained
<1>3. /\ w \in WorkerType /\ w.pc = "pop" /\ w.id = s /\ w.todo = {} /\ w.overran = {}
    BY <1>1, <1>2 DEF WorkerType
<1>4. /\ stream' = [stream EXCEPT ![s].members = @ \ lost]
      /\ sub' = CloseAll(sub, lost, "subscriber_overrun")
      /\ worker' = [worker EXCEPT ![p] = w] /\ UNCHANGED <<clock, issued, table>>
    BY DEF MarkOverruns
<1>5. lost \in SUBSET stream[s].members /\ lost \subseteq Conns
    BY <1>1 DEF StreamType
<1>6. stream' = Unregistered(stream, s, lost, stream[s].last)
    <2>1. [stream[s] EXCEPT !.members = stream[s].members \ lost] =
             [stream[s] EXCEPT !.members = stream[s].members \ lost, !.last = stream[s].last]
        BY <1>1 DEF StreamType
    <2>2. stream' = [stream EXCEPT ![s] = [stream[s] EXCEPT !.members = stream[s].members \ lost]]
        BY <1>4
    <2> QED
        BY <2>1, <2>2 DEF Unregistered
<1> HIDE DEF w, lost
<1>7. ASSUME NEW c \in Conns
      PROVE  /\ sub'[c] \in SubType /\ (c \in lost => sub'[c].state # "open")
             /\ (c \notin lost => sub'[c] = sub[c])
    <2>1. sub[c] \in SubType
        BY <1>2 DEF Structure, Typed
    <2>2. sub'[c] = IF c \in lost THEN Close(sub[c], "subscriber_overrun") ELSE sub[c]
        BY <1>4 DEF CloseAll
    <2> QED
        BY <2>1, <2>2, CloseKeepsType DEF Reasons
<1>8. sub' \in [Conns -> SubType]
    BY <1>4, <1>7 DEF CloseAll
<1>9. Structure(table, stream', sub', worker, issued)
    <2>1. stream[s].last \in 0 .. MaxClock
        BY <1>1 DEF StreamType
    <2> QED
        <3>1. /\ \A c \in lost : sub'[c].state # "open"
              /\ \A c \in Conns \ lost : sub'[c] = sub[c]
            BY <1>5, <1>7
        <3>2. lost \in SUBSET stream[s].members
            BY <1>5
        <3> HIDE DEF s
        <3> QED
            BY <1>1, <1>2, <1>6, <1>8, <2>1, <3>1, <3>2, Deregister
<1>10. Structure(table, stream', sub', worker', issued)
    BY <1>1, <1>3, <1>4, <1>9, WorkerStep
<1> QED
    BY <1>4, <1>10 DEF StructureInv

\* A reader that reads, stops or leaves keeps the structure.
LEMMA ReaderStructure ==
    ASSUME StructureInv, NEW c \in Conns, Receive(c) \/ Stop(c) \/ Leave(c)
    PROVE  StructureInv'
<1>1. Structure(table, stream, sub, worker, issued) /\ sub \in [Conns -> SubType]
      /\ sub[c] \in SubType
    BY DEF StructureInv, Structure, Typed
<1>2. \E u \in SubType : /\ sub' = [sub EXCEPT ![c] = u]
                         /\ u.state = "open" <=> sub[c].state = "open"
                         /\ sub[c].state = "open" => u.id = sub[c].id /\ u.agent = sub[c].agent
    <2>1. CASE Stop(c)
        <3>1. sub' = [sub EXCEPT ![c] = NoSub] /\ sub[c].state # "open"
            BY <2>1 DEF Stop
        <3>2. NoSub.state = "free"
            BY DEF NoSub
        <3> QED
            BY <3>1, <3>2, BlankSub
    <2>2. CASE Leave(c)
        <3> DEFINE u == [sub[c] EXCEPT !.gone = TRUE]
        <3>1. u \in SubType /\ u.state = sub[c].state /\ u.id = sub[c].id /\ u.agent = sub[c].agent
            BY <1>1, <2>2 DEF SubType, SubRecord, Leave
        <3>2. sub' = [sub EXCEPT ![c] = u]
            BY <2>2 DEF Leave
        <3> QED
            BY <3>1, <3>2
    <2>3. CASE Receive(c) /\ sub[c].replay # <<>>
               /\ sub' = [sub EXCEPT ![c].replay = Tail(@), ![c].cursor = Head(sub[c].replay).seq]
        <3> DEFINE u == [sub[c] EXCEPT !.replay = Tail(sub[c].replay),
                                       !.cursor = Head(sub[c].replay).seq]
        <3>1. sub[c].replay \in Seq(Event)
            BY <1>1 DEF SubType, SubRecord
        <3>2. Tail(sub[c].replay) \in Seq(Event) /\ Head(sub[c].replay) \in Event
            BY <3>1, <2>3, EmptySeq, LenProperties, HeadTailProperties
        <3>3. Head(sub[c].replay).seq \in 0 .. MaxSeq
            BY <3>2, Constants DEF Event
        <3>4. u \in SubType /\ u.state = sub[c].state /\ u.id = sub[c].id /\ u.agent = sub[c].agent
            BY <1>1, <3>2, <3>3 DEF SubType, SubRecord
        <3>5. sub' = [sub EXCEPT ![c] = u]
            BY <2>3
        <3> QED
            BY <3>4, <3>5
    <2>4. CASE Receive(c) /\ sub[c].events # <<>>
               /\ sub' = [sub EXCEPT ![c].events = Tail(@), ![c].cursor = Head(sub[c].events).seq]
        <3> DEFINE u == [sub[c] EXCEPT !.events = Tail(sub[c].events),
                                       !.cursor = Head(sub[c].events).seq]
        <3>1. sub[c].events \in Seq(Event)
            BY <1>1 DEF SubType, SubRecord
        <3>2. Tail(sub[c].events) \in Seq(Event) /\ Head(sub[c].events) \in Event
            BY <3>1, <2>4, EmptySeq, LenProperties, HeadTailProperties
        <3>3. Head(sub[c].events).seq \in 0 .. MaxSeq
            BY <3>2, Constants DEF Event
        <3>4. u \in SubType /\ u.state = sub[c].state /\ u.id = sub[c].id /\ u.agent = sub[c].agent
            BY <1>1, <3>2, <3>3 DEF SubType, SubRecord
        <3>5. sub' = [sub EXCEPT ![c] = u]
            BY <2>4
        <3> QED
            BY <3>4, <3>5
    <2> QED
        BY <2>1, <2>2, <2>3, <2>4 DEF Receive
<1>3. PICK u \in SubType : /\ sub' = [sub EXCEPT ![c] = u]
                           /\ u.state = "open" <=> sub[c].state = "open"
                           /\ sub[c].state = "open" => u.id = sub[c].id /\ u.agent = sub[c].agent
    BY <1>2
<1>4. Structure(table, stream, sub', worker, issued)
    <2>1. sub' \in [Conns -> SubType]
        BY <1>1, <1>3
    <2>2. \A d \in Conns : sub'[d] = IF d = c THEN u ELSE sub[d]
        BY <1>1, <1>3
    <2> QED
        BY <1>1, <1>3, <2>1, <2>2, SubStep
<1>5. UNCHANGED <<clock, issued, table, stream, worker>>
    BY DEF Receive, Stop, Leave
<1> QED
    BY <1>4, <1>5 DEF StructureInv

\* removeSubscriber keeps the structure, whether the subscriber is still
\* registered or was closed by the hub before.
LEMMA RemoveStructure ==
    ASSUME StructureInv, NEW c \in Conns, RemoveSubscriber(c)
    PROVE  StructureInv'
<1> DEFINE s == table[sub[c].agent]
           registered == s # 0 /\ c \in stream[s].members
<1>1. /\ Structure(table, stream, sub, worker, issued) /\ sub \in [Conns -> SubType]
      /\ stream \in [Ids -> StreamType] /\ clock \in 0 .. MaxClock
    BY DEF StructureInv, Structure, Typed
<1>2. sub' = [sub EXCEPT ![c] = NoSub] /\ UNCHANGED <<clock, issued, table, worker>>
    BY DEF RemoveSubscriber
<1>3. /\ sub' \in [Conns -> SubType] /\ sub'[c].state = "free"
      /\ \A d \in Conns \ {c} : sub'[d] = sub[d]
    BY <1>1, <1>2, BlankSub DEF NoSub
<1>4. CASE registered /\ sub[c].state = "open"
    <2>1. s \in Ids /\ s <= issued /\ stream[s] \in StreamType
        <3>1. sub[c].agent \in Agents /\ table \in [Agents -> 0 .. MaxSessions]
            BY <1>1, <1>4 DEF Structure, Members, Typed
        <3>2. s \in Ids
            BY <3>1, <1>4, Constants DEF Ids
        <3> QED
            BY <3>1, <3>2, <1>1, <1>4 DEF Structure, Allocated
    <2>2. stream' = Unregistered(stream, s, {c}, clock)
        BY <1>4 DEF RemoveSubscriber, Unregistered
    <2>3. {c} \in SUBSET stream[s].members
        BY <1>4
    <2> HIDE DEF s
    <2>4. Structure(table, stream', sub', worker, issued)
        <3>1. \A d \in {c} : sub'[d].state # "open"
            BY <1>3
        <3> QED
            BY <1>1, <1>3, <2>1, <2>2, <2>3, <3>1, Deregister
    <2> QED
        BY <1>2, <1>1, <2>4 DEF StructureInv
<1>5. CASE ~registered
    <2>1. sub[c].state = "closed" /\ stream' = stream
        BY <1>5 DEF RemoveSubscriber
    <2>2. Structure(table, stream, sub', worker, issued)
        BY <1>1, <1>3, <2>1, SubStep
    <2> QED
        BY <1>2, <2>1, <2>2 DEF StructureInv
<1>6. CASE registered /\ sub[c].state # "open"
    <2> SUFFICES FALSE
        OBVIOUS
    <2>1. sub[c].agent \in Agents
        BY <1>1 DEF RemoveSubscriber, SubType
    <2>2. s \in Ids
        BY <2>1, <1>1, <1>6, Constants DEF Structure, Typed, Ids
    <2> QED
        BY <2>2, <1>1, <1>6 DEF Structure, Members
<1> QED
    BY <1>4, <1>5, <1>6

\* The event Publish appends is one, and the ring it leaves holds events.
LEMMA AdmitType ==
    ASSUME NEW st \in StreamType, NEW kind \in Kinds, NEW size \in Sizes,
           clock \in 0 .. MaxClock, st.session # 0, st.sequence < MaxSeq,
           NEW k \in EvictCounts(Append(st.ring, NextEvent(st, kind, size)))
    PROVE  LET e == NextEvent(st, kind, size)
               r == Admit(st, e, k)
           IN  /\ e \in Event /\ r \in StreamType
               /\ r.members = st.members /\ r.fanout = st.fanout /\ r.session = st.session
               /\ r.sequence = st.sequence + 1
               /\ r.ring = SubSeq(Append(st.ring, e), k + 1, Len(Append(st.ring, e)))
               /\ st.members = {} => r.pending = st.pending
               /\ st.members # {} =>
                     r.pending = Append(st.pending, [event |-> e, subs |-> st.members])
<1> DEFINE e == NextEvent(st, kind, size)
           ring == Append(st.ring, e)
           kept == SubSeq(ring, k + 1, Len(ring))
           queue == IF st.members = {} THEN st.pending
                    ELSE Append(st.pending, [event |-> e, subs |-> st.members])
<1>1. e \in Event /\ e.seq = st.sequence + 1 /\ e.kind = kind
    BY Constants DEF NextEvent, Event, StreamType, Ids
<1> HIDE DEF e
<1>2. ring \in Seq(Event)
    BY <1>1, AppendProperties DEF StreamType
<1>3. k \in 0 .. Len(ring)
    BY DEF EvictCounts, Fits, e
<1>4. kept \in Seq(Event)
    BY <1>2, <1>3, LenProperties, SubSeqProperties
<1>5. [event |-> e, subs |-> st.members] \in Delivery
    BY <1>1 DEF Delivery, StreamType
<1>6. queue \in Seq(Delivery)
    BY <1>5, AppendProperties DEF StreamType
<1>7. RetryAfter(st.retry, kind) \in BOOLEAN
    BY DEF RetryAfter, StreamType
<1>8. st.sequence + 1 \in 0 .. MaxSeq
    BY Constants DEF StreamType
<1>9. Admit(st, e, k) = [st EXCEPT !.sequence = st.sequence + 1, !.ring = kept, !.last = clock,
                                   !.retry = RetryAfter(st.retry, kind), !.pending = queue]
    BY <1>1 DEF Admit
<1> HIDE DEF kept, queue
<1>10. /\ Admit(st, e, k) \in StreamType
       /\ Admit(st, e, k).members = st.members /\ Admit(st, e, k).fanout = st.fanout
       /\ Admit(st, e, k).session = st.session /\ Admit(st, e, k).sequence = st.sequence + 1
       /\ Admit(st, e, k).ring = kept /\ Admit(st, e, k).pending = queue
    BY <1>4, <1>6, <1>7, <1>8, <1>9 DEF StreamType
<1> QED
    BY <1>1, <1>10 DEF e, kept, queue

\* A publisher that admits one more event to a stream, and queues it for the
\* registered subscribers, keeps the structure.
LEMMA AdmitStep ==
    ASSUME NEW T, NEW S, NEW U, NEW N, Structure(T, S, U, worker, N), clock \in 0 .. MaxClock,
           NEW p \in Publishers, NEW id \in Ids, id <= N,
           S[id].session # 0, S[id].sequence < MaxSeq,
           NEW kind \in Kinds, NEW size \in Sizes,
           NEW k \in EvictCounts(Append(S[id].ring, NextEvent(S[id], kind, size))),
           stream' = [S EXCEPT ![id] = Admit(S[id], NextEvent(S[id], kind, size), k)],
           Enqueue(p, S[id], id)
    PROVE  Structure(T, stream', U, worker', N)
<1> DEFINE e == NextEvent(S[id], kind, size)
           r == Admit(S[id], e, k)
<1>1. S[id] \in StreamType /\ S[id].session <= N
    BY DEF Structure, Typed, Allocated
<1>2. /\ e \in Event /\ r \in StreamType /\ r.members = S[id].members
      /\ r.fanout = S[id].fanout /\ r.session = S[id].session
      /\ S[id].members = {} => r.pending = S[id].pending
      /\ S[id].members # {} =>
            r.pending = Append(S[id].pending, [event |-> e, subs |-> S[id].members])
    BY <1>1, AdmitType, SMTT(20)
<1> HIDE DEF r, e
<1>3. stream' = [S EXCEPT ![id] = r]
    BY DEF r, e
<1>4. ASSUME NEW i \in 1 .. Len(r.pending), NEW c \in r.pending[i].subs
      PROVE  U[c].state = "open" => U[c].id = id
    <2>1. S[id].pending \in Seq(Delivery) /\ Len(S[id].pending) \in Nat
        BY <1>1, LenProperties DEF StreamType
    <2>2. CASE i \in 1 .. Len(S[id].pending)
        <3>1. r.pending[i] = S[id].pending[i]
            <4>1. [event |-> e, subs |-> S[id].members] \in Delivery
                BY <1>1, <1>2 DEF Delivery, StreamType
            <4>2. CASE r.pending = S[id].pending
                BY <4>2
            <4>3. CASE r.pending = Append(S[id].pending, [event |-> e, subs |-> S[id].members])
                BY <2>1, <2>2, <4>1, <4>3, AppendProperties
            <4> QED
                BY <1>2, <4>2, <4>3
        <3> QED
            BY <2>2, <3>1, <1>4 DEF Structure, Drained
    <2>3. CASE i \notin 1 .. Len(S[id].pending)
        <3>1. S[id].members # {}
            BY <1>2, <2>3
        <3>2. [event |-> e, subs |-> S[id].members] \in Delivery
            BY <1>1, <1>2 DEF Delivery, StreamType
        <3>3. i = Len(S[id].pending) + 1 /\ r.pending[i] = [event |-> e, subs |-> S[id].members]
            BY <1>2, <2>1, <2>3, <3>1, <3>2, AppendProperties
        <3> QED
            BY <3>3, <1>4 DEF Structure, Members
    <2> QED
        BY <2>2, <2>3
<1>e. r.session <= N /\ (S[id].session # 0 => r.session # 0)
    BY <1>1, <1>2
<1>5. Structure(T, stream', U, worker, N)
    BY <1>2, <1>3, <1>4, <1>e, ContentStep, ZenonT(60)
<1>6. PICK w : /\ w = Idle \/ w = [Idle EXCEPT !.pc = "lock", !.id = id]
               /\ worker' = [worker EXCEPT ![p] = w]
    BY DEF Enqueue
<1>7. Structure(T, stream', U, [worker EXCEPT ![p] = w], N)
    BY <1>5, <1>6, EnqueueStep
<1> QED
    BY <1>6, <1>7

\* Publish keeps the structure, also when it wraps the sequence into a new
\* session and when it drops the event.
LEMMA PublishStructure ==
    ASSUME StructureInv, NEW p \in Publishers, NEW a \in Agents, NEW kind \in Kinds,
           NEW size \in Sizes, Publish(p, a, kind, size)
    PROVE  StructureInv'
<1>1. PICK h \in Ensured(a) :
        \/ /\ h.id = 0 \/ h.stream[h.id].sequence = MaxSeq
           /\ table' = h.table
           /\ UNCHANGED <<issued, stream, sub, worker>>
        \/ /\ h.id # 0
           /\ h.stream[h.id].sequence < MaxSeq
           /\ \E k \in EvictCounts(Append(h.stream[h.id].ring,
                                          NextEvent(h.stream[h.id], kind, size))) :
                 stream' = [h.stream EXCEPT ![h.id] =
                              Admit(h.stream[h.id], NextEvent(h.stream[h.id], kind, size), k)]
           /\ Enqueue(p, h.stream[h.id], h.id)
           /\ table' = h.table /\ sub' = h.sub /\ issued' = h.issued
        \/ /\ h.id # 0
           /\ h.stream[h.id].sequence = MaxSeq
           /\ h.issued < MaxSessions
           /\ LET st == Wrapped(h.stream[h.id], h.issued + 1)
                  e == NextEvent(st, kind, size)
              IN  /\ \E k \in EvictCounts(Append(st.ring, e)) :
                        stream' = [h.stream EXCEPT ![h.id] = Admit(st, e, k)]
                  /\ Enqueue(p, st, h.id)
           /\ sub' = CloseAll(h.sub, h.stream[h.id].members, "session_mismatch")
           /\ table' = h.table
           /\ issued' = h.issued + 1
    BY DEF Publish
<1>2. /\ Structure(h.table, h.stream, h.sub, worker, h.issued)
      /\ h.id # 0 => /\ h.id \in Ids /\ h.id <= h.issued
                     /\ h.stream[h.id].session # 0
      /\ \/ /\ h.table = Collected /\ h.stream = stream /\ h.sub = sub /\ h.issued = issued
         \/ h.id # 0 /\ h.stream[h.id].sequence = 0
    BY EnsuredStructure
<1>3. clock' = clock /\ clock \in 0 .. MaxClock /\ MaxSeq # 0
    BY Constants DEF Publish, StructureInv
<1>4. CASE /\ h.id = 0 \/ h.stream[h.id].sequence = MaxSeq
           /\ table' = h.table
           /\ UNCHANGED <<issued, stream, sub, worker>>
    <2>1. table' = Collected
        BY <1>2, <1>3, <1>4
    <2> QED
        BY <1>3, <1>4, <2>1, CollectedStructure DEF StructureInv
<1>5. CASE /\ h.id # 0
           /\ h.stream[h.id].sequence < MaxSeq
           /\ \E k \in EvictCounts(Append(h.stream[h.id].ring,
                                          NextEvent(h.stream[h.id], kind, size))) :
                 stream' = [h.stream EXCEPT ![h.id] =
                              Admit(h.stream[h.id], NextEvent(h.stream[h.id], kind, size), k)]
           /\ Enqueue(p, h.stream[h.id], h.id)
           /\ table' = h.table /\ sub' = h.sub /\ issued' = h.issued
    <2>1. Structure(h.table, stream', h.sub, worker', h.issued)
        BY <1>2, <1>3, <1>5, AdmitStep
    <2> QED
        BY <1>3, <1>5, <2>1 DEF StructureInv
<1>6. CASE /\ h.id # 0
           /\ h.stream[h.id].sequence = MaxSeq
           /\ h.issued < MaxSessions
           /\ LET st == Wrapped(h.stream[h.id], h.issued + 1)
                  e == NextEvent(st, kind, size)
              IN  /\ \E k \in EvictCounts(Append(st.ring, e)) :
                        stream' = [h.stream EXCEPT ![h.id] = Admit(st, e, k)]
                  /\ Enqueue(p, st, h.id)
           /\ sub' = CloseAll(h.sub, h.stream[h.id].members, "session_mismatch")
           /\ table' = h.table
           /\ issued' = h.issued + 1
    <2> DEFINE id == h.id
               old == h.stream[id]
               st == Wrapped(old, h.issued + 1)
               e == NextEvent(st, kind, size)
               S1 == Unregistered(h.stream, id, old.members, old.last)
               S2 == [S1 EXCEPT ![id] = st]
    <2>1. /\ h.stream \in [Ids -> StreamType] /\ old \in StreamType
          /\ id \in Ids /\ id <= h.issued /\ h.issued \in 0 .. MaxSessions
          /\ h.sub \in [Conns -> SubType]
        BY <1>2, <1>6 DEF Structure, Typed
    <2>2. /\ sub' \in [Conns -> SubType]
          /\ \A c \in old.members : sub'[c].state # "open"
          /\ \A c \in Conns \ old.members : sub'[c] = h.sub[c]
        <3>1. ASSUME NEW c \in Conns
              PROVE  /\ sub'[c] \in SubType
                     /\ c \in old.members => sub'[c].state # "open"
                     /\ c \notin old.members => sub'[c] = h.sub[c]
            <4>1. sub'[c] = IF c \in old.members THEN Close(h.sub[c], "session_mismatch")
                            ELSE h.sub[c]
                BY <1>6 DEF CloseAll
            <4> QED
                BY <2>1, <4>1, CloseKeepsType DEF Reasons
        <3>2. sub' = [c \in Conns |-> sub'[c]]
            BY <1>6 DEF CloseAll
        <3>3. old.members \subseteq Conns
            BY <2>1 DEF StreamType
        <3> QED
            BY <3>1, <3>2, <3>3
    <2>3. Structure(h.table, S1, sub', worker, h.issued)
        <3>1. old.last \in 0 .. MaxClock /\ old.members \in SUBSET h.stream[id].members
            BY <2>1 DEF StreamType
        <3> HIDE DEF id
        <3> QED
            BY <1>2, <2>1, <2>2, <3>1, Deregister
    <2>4. Structure(h.table, S1, sub', worker, issued')
        BY <1>6, <2>3, IssueStep
    <2>5. /\ S1[id].members = {} /\ S1[id].fanout = old.fanout /\ S1[id].pending = old.pending
          /\ S1 \in [Ids -> StreamType]
          /\ st = [old EXCEPT !.session = issued', !.sequence = 0, !.ring = <<>>, !.members = {}]
        <3> DEFINE r == [old EXCEPT !.members = old.members \ old.members, !.last = old.last]
        <3>1. /\ r \in StreamType /\ r.members = {} /\ r.fanout = old.fanout
              /\ r.pending = old.pending
            BY <2>1 DEF StreamType
        <3>2. S1 = [h.stream EXCEPT ![id] = r]
            BY DEF Unregistered
        <3> HIDE DEF r, old, S1, id
        <3>3. S1 \in [Ids -> StreamType] /\ S1[id] = r
            BY <2>1, <3>1, <3>2
        <3>4. st = [old EXCEPT !.session = issued', !.sequence = 0, !.ring = <<>>, !.members = {}]
            BY <1>6 DEF Wrapped, old, id
        <3> QED
            BY <3>1, <3>3, <3>4
    <2>6. /\ st \in StreamType /\ st.members = {} /\ st.fanout = old.fanout
          /\ st.session = issued' /\ issued' # 0 /\ st.pending = old.pending /\ st.sequence = 0
          /\ issued' \in Nat
        <3>1. issued' \in 0 .. MaxSessions /\ issued' # 0 /\ issued' \in Nat
            BY <1>6, <2>1, Constants
        <3>2. <<>> \in Seq(Event)
            BY EmptySeq
        <3>3. 0 \in 0 .. MaxSeq
            BY Constants
        <3> HIDE DEF old, st
        <3> QED
            BY <2>1, <2>5, <3>1, <3>2, <3>3 DEF StreamType
    <2>7. Structure(h.table, S2, sub', worker, issued')
        <3>1. id <= issued' /\ id \in Ids
            BY <1>6, <2>1, Constants DEF Ids
        <3>2. \A i \in 1 .. Len(st.pending) : \A c \in st.pending[i].subs :
                 sub'[c].state = "open" => sub'[c].id = id
            <4> HIDE DEF st, S1, id, old
            <4>1. st.pending = S1[id].pending
                BY <2>5, <2>6
            <4>2. \A i \in 1 .. Len(S1[id].pending) : \A c \in S1[id].pending[i].subs :
                     sub'[c].state = "open" => sub'[c].id = id
                BY <2>1, <2>4 DEF Structure, Drained
            <4> QED
                BY <4>1, <4>2
        <3>3. /\ st.members = S1[id].members /\ st.fanout = S1[id].fanout
              /\ st.session <= issued' /\ st.session # 0
            <4> HIDE DEF st, S1, id, old
            <4> QED
                BY <2>5, <2>6
        <3>4. S2 = [S1 EXCEPT ![id] = st]
            OBVIOUS
        <3> HIDE DEF st, S1, S2, id, old
        <3> QED
            BY <2>4, <2>6, <3>1, <3>2, <3>3, <3>4, ContentStep
    <2>8. S2[id] = st /\ \A r : [S2 EXCEPT ![id] = r] = [h.stream EXCEPT ![id] = r]
        <3> HIDE DEF st, id
        <3> QED
            BY <2>1, <2>5 DEF Unregistered
    <2>9. Structure(h.table, stream', sub', worker', issued')
        <3>1. PICK k \in EvictCounts(Append(st.ring, e)) :
                 stream' = [h.stream EXCEPT ![id] = Admit(st, e, k)]
            BY <1>6
        <3>2. Enqueue(p, st, id)
            BY <1>6
        <3>3. stream' = [S2 EXCEPT ![id] = Admit(S2[id], NextEvent(S2[id], kind, size), k)]
            BY <2>8, <3>1
        <3>4. id <= issued' /\ S2[id].sequence < MaxSeq
            <4> HIDE DEF st, S2, id, old
            <4> QED
                BY <1>6, <2>1, <2>6, <2>8, Constants DEF Ids
        <3>5. k \in EvictCounts(Append(S2[id].ring, NextEvent(S2[id], kind, size)))
            BY <2>8, <3>1
        <3> HIDE DEF st, S2, id, old
        <3> QED
            BY <1>3, <2>1, <2>6, <2>7, <2>8, <3>2, <3>3, <3>4, <3>5, AdmitStep
    <2> QED
        BY <1>3, <1>6, <2>9 DEF StructureInv
<1> QED
    BY <1>1, <1>4, <1>5, <1>6

\* Registering a subscriber that no delivery points to keeps the structure.
LEMMA RegisterStep ==
    ASSUME NEW T, NEW S, NEW U, NEW W, NEW N, Structure(T, S, U, W, N),
           NEW c \in Conns, NEW a \in Agents, NEW id \in Ids, id <= N, T[a] = id,
           U[c].state # "open",
           \A q \in Publishers : c \notin W[q].todo \cup W[q].overran,
           \A s \in Ids : \A i \in 1 .. Len(S[s].pending) : c \notin S[s].pending[i].subs,
           NEW r \in StreamType, r.session = S[id].session, r.pending = S[id].pending,
           r.fanout = S[id].fanout, r.members = S[id].members \cup {c},
           NEW S2, S2 = [S EXCEPT ![id] = r],
           NEW u \in SubType, u.state = "open", u.agent = a, u.id = id,
           NEW U2, U2 = [U EXCEPT ![c] = u]
    PROVE  Structure(T, S2, U2, W, N)
<1>1. /\ S \in [Ids -> StreamType] /\ U \in [Conns -> SubType] /\ N \in Int
      /\ T \in [Agents -> 0 .. MaxSessions] /\ W \in [Publishers -> WorkerType]
    BY Constants DEF Structure, Typed
<1>2. S2 \in [Ids -> StreamType] /\ \A t \in Ids : S2[t] = IF t = id THEN r ELSE S[t]
    BY <1>1
<1>3. U2 \in [Conns -> SubType] /\ \A d \in Conns : U2[d] = IF d = c THEN u ELSE U[d]
    BY <1>1
<1>4. Typed(T, S2, U2, W, N)
    BY <1>2, <1>3 DEF Structure, Typed
<1>5. Allocated(T, S2, U2, W, N)
    <2>1. \A b \in Agents : T[b] # 0 => T[b] \in Ids
        BY <1>1, Constants DEF Ids
    <2>2. \A b \in Agents : T[b] # 0 => T[b] <= N /\ S2[T[b]].session # 0
        BY <1>2, <2>1 DEF Structure, Allocated
    <2>3. \A t \in Ids : t > N => t # id
        BY <1>1, Constants DEF Ids
    <2>4. \A t \in Ids : S2[t].session <= N /\ (t > N => S2[t] = NoStream)
        BY <1>2, <2>3 DEF Structure, Allocated
    <2> QED
        BY <1>3, <2>2, <2>4 DEF Structure, Allocated
<1>6. Members(T, S2, U2)
    <2>1. ASSUME NEW d \in Conns, U2[d].state = "open"
          PROVE  T[U2[d].agent] = U2[d].id /\ U2[d].agent \in Agents /\ d \in S2[U2[d].id].members
        <3>1. CASE d = c
            BY <3>1, <1>2, <1>3
        <3>2. CASE d # c
            <4>1. /\ U2[d] = U[d] /\ T[U[d].agent] = U[d].id /\ U[d].agent \in Agents
                  /\ d \in S[U[d].id].members /\ U[d].id \in Ids
                BY <3>2, <2>1, <1>3 DEF Structure, Members, Allocated
            <4> QED
                BY <4>1, <1>2
        <3> QED
            BY <3>1, <3>2
    <2>2. ASSUME NEW s \in Ids, NEW d \in S2[s].members
          PROVE  U2[d].state = "open" /\ U2[d].id = s
        <3>1. CASE d = c
            <4>1. s = id
                BY <3>1, <2>2, <1>2 DEF Structure, Members
            <4> QED
                BY <3>1, <4>1, <1>3
        <3>2. CASE d # c
            <4>1. d \in S[s].members /\ d \in Conns
                BY <3>2, <2>2, <1>1, <1>2 DEF StreamType
            <4> QED
                BY <3>2, <4>1, <1>3 DEF Structure, Members
        <3> QED
            BY <3>1, <3>2
    <2> QED
        BY <2>1, <2>2 DEF Members
<1>7. Drained(S2, U2, W)
    <2>1. \A q \in Publishers : W[q].pc \in {"pop", "send", "mark", "unlock"} => S2[W[q].id].fanout = q
        <3>1. \A q \in Publishers : W[q].pc # "idle" => W[q].id \in Ids
            BY <1>1, Constants DEF Structure, Typed, Allocated, Ids
        <3> QED
            BY <3>1, <1>2 DEF Structure, Drained
    <2>2. \A q \in Publishers : \A d \in W[q].todo \cup W[q].overran :
             U2[d].state = "open" => U2[d].id = W[q].id
        <3>1. \A q \in Publishers : W[q].todo \cup W[q].overran \subseteq Conns
            BY <1>1 DEF WorkerType
        <3> QED
            BY <3>1, <1>3 DEF Structure, Drained
    <2>3. ASSUME NEW s \in Ids, NEW i \in 1 .. Len(S2[s].pending), NEW d \in S2[s].pending[i].subs
          PROVE  U2[d].state = "open" => U2[d].id = s
        <3>1. S2[s].pending = S[s].pending /\ S[s].pending \in Seq(Delivery)
            BY <1>1, <1>2 DEF StreamType
        <3>2. S[s].pending[i] \in Delivery
            BY <3>1, ElementOfSeq
        <3>3. d \in Conns /\ d # c
            BY <3>1, <3>2 DEF Delivery
        <3> QED
            BY <3>1, <3>3, <1>3 DEF Structure, Drained
    <2> QED
        BY <2>1, <2>2, <2>3 DEF Structure, Drained
<1> QED
    BY <1>4, <1>5, <1>6, <1>7 DEF Structure

-----------------------------------------------------------------------------
\* An event fits into every ring.
LEMMA EventSize ==
    ASSUME NEW e \in Event
    PROVE  e.size \in Int /\ e.size <= RingBytes /\ 1 <= RingSize
<1>1. e.size \in 1 .. MaxEventBytes
    BY Constants DEF Event
<1> QED
    BY <1>1, Constants

\* What dropping the first k entries of a sequence leaves.
LEMMA CutProperties ==
    ASSUME NEW S, NEW q \in Seq(S), NEW k \in 0 .. Len(q)
    PROVE  /\ SubSeq(q, k + 1, Len(q)) \in Seq(S)
           /\ Len(SubSeq(q, k + 1, Len(q))) = Len(q) - k
           /\ \A i \in 1 .. Len(q) - k : SubSeq(q, k + 1, Len(q))[i] = q[k + i]
<1>1. Len(q) \in Nat /\ k \in Int /\ k + 1 \in Int /\ Len(q) \in Int
    BY LenProperties
<1>2. \A i \in k + 1 .. Len(q) : q[i] \in S
    BY <1>1, ElementOfSeq
<1>3. /\ SubSeq(q, k + 1, Len(q)) \in Seq(S)
      /\ Len(SubSeq(q, k + 1, Len(q))) = IF k + 1 <= Len(q) THEN Len(q) - (k + 1) + 1 ELSE 0
      /\ \A i \in 1 .. Len(q) - (k + 1) + 1 : SubSeq(q, k + 1, Len(q))[i] = q[k + 1 + i - 1]
    BY <1>1, <1>2, SubSeqProperties
<1>4. Len(SubSeq(q, k + 1, Len(q))) = Len(q) - k
    BY <1>1, <1>3
<1>5. \A i \in 1 .. Len(q) - k : SubSeq(q, k + 1, Len(q))[i] = q[k + i]
    <2>1. \A i \in 1 .. Len(q) - k : i \in 1 .. Len(q) - (k + 1) + 1 /\ k + 1 + i - 1 = k + i
        BY <1>1
    <2> QED
        BY <1>3, <2>1
<1> QED
    BY <1>3, <1>4, <1>5

\* The bytes of a ring with one entry are that entry's.
LEMMA BytesOfOne ==
    ASSUME NEW e \in Event, NEW ring, ring = <<e>>
    PROVE  Bytes(ring) = e.size
<1> DEFINE D == 0 .. Len(ring)
           Def(f) == f = [i \in D |-> IF i = 0 THEN 0 ELSE f[i - 1] + ring[i].size]
           f1 == [i \in D |-> IF i = 0 THEN 0 ELSE e.size]
<1>1. Len(ring) = 1 /\ ring[1] = e /\ D = {0, 1} /\ e.size \in Int
    BY EventSize
<1>2. f1[0] = 0 /\ f1[1] = e.size
    BY <1>1
<1>3. Def(f1)
    <2>1. \A i \in D : f1[i] = IF i = 0 THEN 0 ELSE f1[i - 1] + ring[i].size
        BY <1>1, <1>2
    <2> QED
        BY <2>1
<1>4. \A f : Def(f) => f[1] = e.size
    <2> SUFFICES ASSUME NEW f, Def(f) PROVE f[1] = e.size
        OBVIOUS
    <2>1. f[0] = 0
        BY <1>1
    <2>2. f[1] = f[0] + ring[1].size
        BY <1>1
    <2> QED
        BY <2>1, <2>2, <1>1
<1>5. Bytes(ring) = (CHOOSE f : Def(f))[Len(ring)]
    BY DEF Bytes
<1> HIDE DEF Def
<1>6. Def(CHOOSE f : Def(f))
    BY <1>3
<1> QED
    BY <1>1, <1>4, <1>5, <1>6

\* The bounds of the ring never make Publish drop the event it appends.
LEMMA NewestStays ==
    ASSUME NEW ring \in Seq(Event), NEW e \in Event, NEW k \in EvictCounts(Append(ring, e))
    PROVE  k \in 0 .. Len(ring)
<1> DEFINE r == Append(ring, e)
           n == Len(ring)
<1>1. r \in Seq(Event) /\ Len(r) = n + 1 /\ r[n + 1] = e /\ n \in Nat
    BY AppendProperties, LenProperties
<1>2. SubSeq(r, n + 1, Len(r)) = <<e>>
    <2> DEFINE q == SubSeq(r, n + 1, Len(r))
    <2>1. n \in 0 .. Len(r) /\ Len(r) - n = 1
        BY <1>1
    <2>2. q \in Seq(Event) /\ Len(q) = 1 /\ q[1] = e
        BY <1>1, <2>1, CutProperties
    <2> HIDE DEF q
    <2>3. q = <<e>>
        BY <2>2
    <2> QED
        BY <2>3 DEF q
<1>3. Bytes(SubSeq(r, n + 1, Len(r))) = e.size
    BY <1>2, BytesOfOne
<1>4. e.size <= RingBytes /\ 1 <= RingSize
    BY EventSize
<1>5. n \in Fits(r)
    BY <1>1, <1>3, <1>4, Constants DEF Fits
<1>6. k \in 0 .. Len(r) /\ k <= n
    BY <1>5 DEF EvictCounts, Fits
<1> QED
    BY <1>1, <1>6

\* Publish keeps a ring gap-free.
LEMMA AdmitGapFree ==
    ASSUME NEW st \in StreamType, NEW kind \in Kinds, NEW size \in Sizes,
           clock \in 0 .. MaxClock, st.session # 0, st.sequence < MaxSeq, GapFree(st),
           NEW k \in EvictCounts(Append(st.ring, NextEvent(st, kind, size)))
    PROVE  GapFree(Admit(st, NextEvent(st, kind, size), k))
<1> DEFINE e == NextEvent(st, kind, size)
           r == Admit(st, e, k)
           all == Append(st.ring, e)
           n == Len(st.ring)
<1>1. /\ e \in Event /\ e.seq = st.sequence + 1 /\ e.session = st.session
      /\ r.session = st.session /\ r.sequence = st.sequence + 1
      /\ r.ring = SubSeq(all, k + 1, Len(all))
    BY AdmitType DEF NextEvent
<1>2. st.ring \in Seq(Event) /\ n \in Nat /\ st.sequence \in Nat
    BY LenProperties, Constants DEF StreamType
<1>3. k \in 0 .. n
    BY <1>1, <1>2, NewestStays
<1>4. /\ all \in Seq(Event) /\ Len(all) = n + 1 /\ all[n + 1] = e
      /\ \A i \in 1 .. n : all[i] = st.ring[i]
    BY <1>1, <1>2, AppendProperties
<1>5. ASSUME NEW i \in 1 .. Len(all)
      PROVE  all[i].session = st.session /\ all[i].seq = st.sequence + 1 - (n + 1 - i)
    <2> HIDE DEF all, e
    <2>1. CASE i = n + 1
        BY <2>1, <1>1, <1>2, <1>4
    <2>2. CASE i # n + 1
        <3>1. i \in 1 .. n /\ all[i] = st.ring[i]
            BY <2>2, <1>2, <1>4
        <3>2. \A j \in 1 .. n : /\ st.ring[j].session = st.session
                                /\ st.ring[j].seq = st.sequence - (n - j)
            BY DEF GapFree
        <3> HIDE DEF n
        <3>3. all[i].session = st.session /\ all[i].seq = st.sequence - (n - i)
            BY <3>1, <3>2
        <3>4. st.sequence - (n - i) = st.sequence + 1 - (n + 1 - i)
            BY <3>1, <1>2
        <3> QED
            BY <3>3, <3>4
    <2> QED
        BY <2>1, <2>2
<1>6. /\ r.ring \in Seq(Event) /\ Len(r.ring) = n + 1 - k
      /\ \A i \in 1 .. Len(r.ring) : r.ring[i] = all[k + i]
    <2>1. k \in 0 .. Len(all) /\ Len(all) - k = n + 1 - k
        BY <1>2, <1>3, <1>4
    <2> HIDE DEF all, r, n
    <2> QED
        BY <1>1, <1>4, <2>1, CutProperties
<1> HIDE DEF all, r, e, n
<1>7. r.ring # <<>> /\ Len(r.ring) <= RingSize /\ Bytes(r.ring) <= RingBytes
    <2>1. r.ring # <<>>
        BY <1>2, <1>3, <1>6, EmptySeq
    <2>2. k \in Fits(all)
        BY DEF EvictCounts, all, e
    <2>3. Len(all) - k <= RingSize /\ Bytes(SubSeq(all, k + 1, Len(all))) <= RingBytes
        BY <2>2 DEF Fits
    <2>4. Len(r.ring) = Len(all) - k
        <3>1. Len(r.ring) = n + 1 - k /\ Len(all) = n + 1
            BY <1>4, <1>6
        <3>2. n \in Int /\ k \in Int
            BY <1>2, <1>3
        <3> QED
            BY <3>1, <3>2
    <2>5. Bytes(r.ring) <= RingBytes
        BY <1>1, <2>3
    <2> QED
        BY <2>1, <2>3, <2>4, <2>5
<1>8. ASSUME NEW i \in 1 .. Len(r.ring)
      PROVE  r.ring[i].session = r.session /\ r.ring[i].seq = r.sequence - (Len(r.ring) - i)
    <2>1. k + i \in 1 .. Len(all) /\ r.ring[i] = all[k + i] /\ k \in Int /\ i \in Int
        BY <1>2, <1>3, <1>4, <1>6
    <2>2. all[k + i].session = st.session /\ all[k + i].seq = st.sequence + 1 - (n + 1 - (k + i))
        BY <2>1, <1>5
    <2>3. st.sequence + 1 - (n + 1 - (k + i)) = r.sequence - (Len(r.ring) - i)
        <3>1. r.sequence = st.sequence + 1 /\ Len(r.ring) = n + 1 - k
            BY <1>1, <1>6
        <3>2. st.sequence \in Int /\ n \in Int
            BY <1>2
        <3> QED
            BY <2>1, <3>1, <3>2
    <2> QED
        BY <2>1, <2>2, <2>3, <1>1
<1> QED
    BY <1>7, <1>8 DEF GapFree, r, e

\* Where replayAfter cuts a gap-free ring: after the cursor.
LEMMA SkippedFacts ==
    ASSUME NEW st \in StreamType, GapFree(st), NEW n \in Int
    PROVE  LET k == Skipped(st.ring, n)
               base == st.sequence - Len(st.ring)
           IN  /\ k \in 0 .. Len(st.ring)
               /\ k = IF n <= base THEN 0 ELSE IF n >= st.sequence THEN Len(st.ring) ELSE n - base
<1> DEFINE ring == st.ring
           len == Len(ring)
           base == st.sequence - len
           Cut(k) == /\ \A i \in 1 .. k : ring[i].seq <= n
                     /\ k < len => ring[k + 1].seq > n
           w == IF n <= base THEN 0 ELSE IF n >= st.sequence THEN len ELSE n - base
<1>1. len \in Nat /\ st.sequence \in Nat /\ base \in Int
    BY LenProperties, Constants DEF StreamType
<1>2. \A i \in 1 .. len : ring[i].seq = base + i
    <2>1. \A i \in 1 .. len : ring[i].seq = st.sequence - (len - i)
        BY DEF GapFree
    <2>2. \A i \in 1 .. len : st.sequence - (len - i) = base + i
        BY <1>1
    <2> QED
        BY <2>1, <2>2
<1>3. w \in 0 .. len
    BY <1>1
<1>a. st.sequence = base + len
    BY <1>1
<1> HIDE DEF ring, len, base
<1>4. Cut(w)
    BY <1>1, <1>2, <1>3, <1>a
<1>5. \A k \in 0 .. len : Cut(k) => k = w
    <2> SUFFICES ASSUME NEW k \in 0 .. len, Cut(k) PROVE k = w
        OBVIOUS
    <2>1. k > 0 => base + k <= n
        BY <1>1, <1>2
    <2>2. k < len => base + k + 1 > n
        BY <1>1, <1>2
    <2> QED
        BY <2>1, <2>2, <1>1, <1>a
<1>6. Skipped(st.ring, n) = CHOOSE k \in 0 .. len : Cut(k)
    BY DEF Skipped, ring, len
<1> HIDE DEF Cut, w
<1>7. Skipped(st.ring, n) = w
    BY <1>3, <1>4, <1>5, <1>6
<1> QED
    BY <1>3, <1>7 DEF w, base, len, ring

\* What a new subscriber is to replay: the events after its cursor, up to the
\* newest one.
LEMMA AfterFacts ==
    ASSUME NEW st \in StreamType, GapFree(st), NEW n \in Int
    PROVE  /\ After(st.ring, n) \in Seq(Event)
           /\ \A i \in 1 .. Len(After(st.ring, n)) :
                 After(st.ring, n)[i].session = st.session
           /\ n \in 0 .. st.sequence /\ (st.ring # <<>> => n >= st.ring[1].seq - 1) =>
                 /\ n + Len(After(st.ring, n)) = st.sequence
                 /\ \A i \in 1 .. Len(After(st.ring, n)) : After(st.ring, n)[i].seq = n + i
<1> DEFINE k == Skipped(st.ring, n)
           len == Len(st.ring)
           base == st.sequence - len
           q == After(st.ring, n)
<1>1. len \in Nat /\ st.sequence \in Nat /\ base \in Int /\ st.ring \in Seq(Event)
    BY LenProperties, Constants DEF StreamType
<1>2. /\ k \in 0 .. len
      /\ k = IF n <= base THEN 0 ELSE IF n >= st.sequence THEN len ELSE n - base
    BY SkippedFacts
<1>3. q \in Seq(Event) /\ Len(q) = len - k /\ \A i \in 1 .. len - k : q[i] = st.ring[k + i]
    <2>1. q = SubSeq(st.ring, k + 1, Len(st.ring))
        BY DEF After
    <2> HIDE DEF k, q
    <2> QED
        BY <1>1, <1>2, <2>1, CutProperties
<1>4. \A i \in 1 .. len : st.ring[i].session = st.session /\ st.ring[i].seq = base + i
    <2>1. \A i \in 1 .. len : st.ring[i].session = st.session
                              /\ st.ring[i].seq = st.sequence - (len - i)
        BY DEF GapFree
    <2>2. \A i \in 1 .. len : st.sequence - (len - i) = base + i
        BY <1>1
    <2> QED
        BY <2>1, <2>2
<1>a. st.sequence = base + len
    BY <1>1
<1>b. st.ring = <<>> => len = 0 /\ st.sequence = 0
    BY <1>1, EmptySeq DEF GapFree
<1>c. st.ring # <<>> => len > 0
    BY <1>1, EmptySeq
<1> HIDE DEF k, q, len, base
<1>5. ASSUME NEW i \in 1 .. Len(q)
      PROVE  q[i].session = st.session /\ q[i].seq = base + k + i
    <2>1. k + i \in 1 .. len /\ q[i] = st.ring[k + i] /\ k \in Int /\ i \in Int
        BY <1>1, <1>2, <1>3, SMTT(20)
    <2>2. base + (k + i) = base + k + i
        BY <2>1, <1>1
    <2> QED
        BY <2>1, <2>2, <1>4
<1>6. ASSUME n \in 0 .. st.sequence, st.ring # <<>> => n >= st.ring[1].seq - 1
      PROVE  n + Len(q) = st.sequence /\ (Len(q) > 0 => n = base + k)
    <2>1. CASE st.ring = <<>>
        BY <2>1, <1>b, <1>1, <1>2, <1>3, <1>6
    <2>2. CASE st.ring # <<>>
        <3>1. st.ring[1].seq = base + 1
            BY <1>1, <1>4, <1>c, <2>2
        <3>2. n >= base
            BY <3>1, <2>2, <1>6, <1>1
        <3> QED
            BY <3>2, <1>1, <1>2, <1>3, <1>a, <1>6
    <2> QED
        BY <2>1, <2>2
<1>7. Len(q) \in Nat
    BY <1>3, LenProperties
<1>8. ASSUME n \in 0 .. st.sequence, st.ring # <<>> => n >= st.ring[1].seq - 1
      PROVE  /\ n + Len(q) = st.sequence
             /\ \A i \in 1 .. Len(q) : q[i].seq = n + i
    BY <1>5, <1>6, <1>7, <1>8
<1> QED
    BY <1>3, <1>5, <1>8 DEF q

\* Eviction and creation leave gap-free rings.
LEMMA KeptRings ==
    ASSUME NEW S, NEW S2, S2 \in [Ids -> StreamType], KeptStreams(S, S2), Rings(S)
    PROVE  Rings(S2)
<1> SUFFICES ASSUME NEW s \in Ids PROVE GapFree(S2[s])
    BY DEF Rings
<1>1. CASE S2[s].sequence = 0 /\ S2[s].ring = <<>>
    BY <1>1, EmptyGapFree
<1>2. CASE S2[s].session = S[s].session /\ S2[s].sequence = S[s].sequence
           /\ S2[s].ring = S[s].ring
    BY <1>2 DEF GapFree, Rings
<1> QED
    BY <1>1, <1>2 DEF KeptStreams

\* Subscribe keeps the structure: a refused cursor changes nothing, and nothing
\* in flight can reach a new subscriber.
LEMMA SubscribeStructure ==
    ASSUME StructureInv, Rings(stream), NEW c \in Conns, NEW a \in Agents,
           NEW x \in Ids \cup {0}, NEW after \in -1 .. MaxSeq, Subscribe(c, a, x, after)
    PROVE  StructureInv'
<1>1. PICK h \in Ensured(a) :
         /\ table' = h.table /\ issued' = h.issued
         /\ IF h.id = 0 \/ Refusal(h.stream[h.id], x, after) # ""
            THEN stream' = h.stream /\ sub' = h.sub
            ELSE LET st == h.stream[h.id]
                 IN  /\ stream' = [h.stream EXCEPT ![h.id].members = @ \cup {c},
                                                   ![h.id].last = clock]
                     /\ sub' = [h.sub EXCEPT ![c] =
                           [NoSub EXCEPT
                               !.state = "open", !.agent = a, !.id = h.id,
                               !.session = st.session,
                               !.cursor = IF after >= 0 THEN after ELSE st.sequence,
                               !.replay = IF after >= 0 THEN After(st.ring, after) ELSE <<>>]]
    BY DEF Subscribe
<1>2. /\ sub[c].state = "free" /\ c \notin Referenced /\ UNCHANGED <<clock, worker>>
      /\ clock \in 0 .. MaxClock
    BY DEF Subscribe, StructureInv
<1>3. /\ Structure(h.table, h.stream, h.sub, worker, h.issued)
      /\ h.id # 0 => /\ h.id \in Ids /\ h.id <= h.issued /\ h.table[a] = h.id
      /\ KeptStreams(stream, h.stream) /\ KeptSubs(sub, h.sub)
    BY EnsuredStructure
<1>4. CASE h.id = 0 \/ Refusal(h.stream[h.id], x, after) # ""
    BY <1>1, <1>2, <1>3, <1>4 DEF StructureInv
<1>5. CASE ~ (h.id = 0 \/ Refusal(h.stream[h.id], x, after) # "")
    <2> DEFINE id == h.id
               st == h.stream[id]
               r == [st EXCEPT !.members = st.members \cup {c}, !.last = clock]
               cursor == IF after >= 0 THEN after ELSE st.sequence
               replay == IF after >= 0 THEN After(st.ring, after) ELSE <<>>
               u == [NoSub EXCEPT !.state = "open", !.agent = a, !.id = id,
                                  !.session = st.session, !.cursor = cursor, !.replay = replay]
    <2>1. stream' = [h.stream EXCEPT ![id] = r] /\ sub' = [h.sub EXCEPT ![c] = u]
        BY <1>1, <1>5
    <2>2. id \in Ids /\ id <= h.issued /\ h.table[a] = id /\ st \in StreamType /\ id \in 0 .. MaxSessions
        BY <1>3, <1>5, Constants DEF Structure, Typed, Ids
    <2>3. GapFree(st)
        BY <1>3, <2>2, KeptRings DEF Structure, Typed, Rings
    <2>4. cursor \in 0 .. MaxSeq /\ replay \in Seq(Event) /\ st.session \in 0 .. MaxSessions
        <3>1. st.sequence \in 0 .. MaxSeq /\ st.session \in 0 .. MaxSessions
            BY <2>2 DEF StreamType
        <3>2. After(st.ring, after) \in Seq(Event)
            BY <2>2, <2>3, AfterFacts
        <3>3. <<>> \in Seq(Event)
            BY EmptySeq
        <3> HIDE DEF st
        <3> QED
            BY <3>1, <3>2, <3>3, Constants
    <2>5. /\ r \in StreamType /\ r.session = st.session /\ r.pending = st.pending
          /\ r.fanout = st.fanout /\ r.members = st.members \cup {c}
        BY <1>2, <2>2 DEF StreamType
    <2>6. u \in SubType /\ u.state = "open" /\ u.agent = a /\ u.id = id
        <3>1. NoSub \in SubRecord
            BY BlankSub DEF SubType
        <3> HIDE DEF cursor, replay, st, id
        <3>2. u \in SubRecord /\ u.state = "open" /\ u.agent = a /\ u.id = id
            BY <2>2, <2>4, <3>1 DEF SubRecord
        <3> HIDE DEF u
        <3> QED
            BY <3>2 DEF SubType
    <2>7. h.sub[c].state # "open"
        BY <1>2, <1>3 DEF KeptSubs
    <2>8. \A q \in Publishers : c \notin worker[q].todo \cup worker[q].overran
        BY <1>2 DEF Referenced
    <2>9. ASSUME NEW s \in Ids, NEW i \in 1 .. Len(h.stream[s].pending)
          PROVE  c \notin h.stream[s].pending[i].subs
        <3>1. h.stream[s].pending = stream[s].pending
            BY <1>3, <2>9, EmptySeq DEF KeptStreams
        <3>2. stream[s].pending \in Seq(Delivery)
            BY DEF StructureInv, Structure, Typed, StreamType
        <3>3. i \in DOMAIN stream[s].pending
            BY <3>1, <3>2, LenProperties
        <3> QED
            BY <3>1, <3>3, <1>2 DEF Referenced
    <2> HIDE DEF r, u, id
    <2>10. Structure(h.table, stream', sub', worker, h.issued)
        BY <1>3, <2>1, <2>2, <2>5, <2>6, <2>7, <2>8, <2>9, RegisterStep
    <2> QED
        BY <1>1, <1>2, <2>10 DEF StructureInv
<1> QED
    BY <1>4, <1>5

\* Registering and removing a subscriber leaves the events of a stream alone.
LEMMA MembersOnly ==
    ASSUME NEW S \in [Ids -> StreamType], NEW id, NEW m, NEW l, NEW s \in Ids,
           NEW S2, S2 = [S EXCEPT ![id].members = m, ![id].last = l]
    PROVE  /\ S2[s].session = S[s].session /\ S2[s].sequence = S[s].sequence
           /\ S2[s].ring = S[s].ring /\ S2[s].pending = S[s].pending
<1> DEFINE S1 == [S EXCEPT ![id].members = m]
           r1 == [S[s] EXCEPT !.members = m]
           r2 == [r1 EXCEPT !.last = l]
<1>1. /\ r2.session = S[s].session /\ r2.sequence = S[s].sequence
      /\ r2.ring = S[s].ring /\ r2.pending = S[s].pending
    BY DEF StreamType
<1>2. S1[s] = IF s = id THEN r1 ELSE S[s]
    OBVIOUS
<1>3. S2[s] = IF s = id THEN [S1[s] EXCEPT !.last = l] ELSE S1[s]
    OBVIOUS
<1>4. S2[s] = IF s = id THEN r2 ELSE S[s]
    BY <1>2, <1>3
<1> HIDE DEF r2
<1> QED
    BY <1>1, <1>4

\* No step but Publish touches a ring.
LEMMA RingsStep ==
    ASSUME StructureInv, Rings(stream), Next
    PROVE  Rings(stream')
<1>1. /\ stream \in [Ids -> StreamType] /\ clock \in 0 .. MaxClock
      /\ \A p \in Publishers : worker[p].pc # "idle" => worker[p].id \in Ids
    BY BusyWorker DEF StructureInv, Structure, Typed
<1> DEFINE Same == \A s \in Ids : /\ stream'[s].session = stream[s].session
                                  /\ stream'[s].sequence = stream[s].sequence
                                  /\ stream'[s].ring = stream[s].ring
<1>2. Same => Rings(stream')
    <2> SUFFICES ASSUME Same, NEW s \in Ids
                 PROVE  GapFree(stream'[s])
        BY DEF Rings
    <2>1. GapFree(stream[s])
        BY DEF Rings
    <2>2. /\ stream'[s].session = stream[s].session
          /\ stream'[s].sequence = stream[s].sequence
          /\ stream'[s].ring = stream[s].ring
        OBVIOUS
    <2> QED
        BY <2>1, <2>2 DEF GapFree
<1>3. ASSUME NEW p \in Publishers, NEW a \in Agents, NEW kind \in Kinds, NEW size \in Sizes,
             Publish(p, a, kind, size)
      PROVE  Rings(stream')
    <2>1. PICK h \in Ensured(a) :
            \/ UNCHANGED stream
            \/ /\ h.id # 0
               /\ h.stream[h.id].sequence < MaxSeq
               /\ \E k \in EvictCounts(Append(h.stream[h.id].ring,
                                              NextEvent(h.stream[h.id], kind, size))) :
                     stream' = [h.stream EXCEPT ![h.id] =
                                  Admit(h.stream[h.id], NextEvent(h.stream[h.id], kind, size), k)]
            \/ /\ h.id # 0
               /\ h.issued < MaxSessions
               /\ LET st == Wrapped(h.stream[h.id], h.issued + 1)
                      e == NextEvent(st, kind, size)
                  IN  \E k \in EvictCounts(Append(st.ring, e)) :
                            stream' = [h.stream EXCEPT ![h.id] = Admit(st, e, k)]
        BY <1>3 DEF Publish
    <2>2. /\ h.stream \in [Ids -> StreamType] /\ Rings(h.stream)
          /\ h.id # 0 => h.id \in Ids /\ h.stream[h.id].session # 0
          /\ h.issued \in 0 .. MaxSessions
        BY EnsuredStructure, KeptRings DEF Structure, Typed
    <2>3. ASSUME NEW st \in StreamType, st.session # 0, st.sequence < MaxSeq, GapFree(st), h.id # 0,
                 NEW k \in EvictCounts(Append(st.ring, NextEvent(st, kind, size))),
                 stream' = [h.stream EXCEPT ![h.id] = Admit(st, NextEvent(st, kind, size), k)]
          PROVE  Rings(stream')
        <3>1. GapFree(Admit(st, NextEvent(st, kind, size), k))
            BY <1>1, <2>3, AdmitGapFree
        <3> QED
            BY <3>1, <2>2, <2>3 DEF Rings
    <2>4. h.id # 0 /\ h.issued < MaxSessions =>
             /\ Wrapped(h.stream[h.id], h.issued + 1) \in StreamType
             /\ Wrapped(h.stream[h.id], h.issued + 1).session # 0
             /\ Wrapped(h.stream[h.id], h.issued + 1).sequence < MaxSeq
             /\ GapFree(Wrapped(h.stream[h.id], h.issued + 1))
        <3> SUFFICES ASSUME h.id # 0, h.issued < MaxSessions
                     PROVE  /\ Wrapped(h.stream[h.id], h.issued + 1) \in StreamType
                            /\ Wrapped(h.stream[h.id], h.issued + 1).session # 0
                            /\ Wrapped(h.stream[h.id], h.issued + 1).sequence < MaxSeq
                            /\ GapFree(Wrapped(h.stream[h.id], h.issued + 1))
            OBVIOUS
        <3> DEFINE old == h.stream[h.id]
                   n == h.issued + 1
                   st == Wrapped(old, n)
        <3>1. old \in StreamType /\ n \in 0 .. MaxSessions /\ n # 0
            BY <2>2, Constants
        <3>2. <<>> \in Seq(Event) /\ Len(<<>>) = 0 /\ 0 \in 0 .. MaxSeq /\ 0 < MaxSeq
            BY EmptySeq, Constants
        <3> HIDE DEF old, n
        <3>3. st \in StreamType /\ st.session = n /\ st.sequence = 0 /\ st.ring = <<>>
            BY <3>1, <3>2 DEF Wrapped, StreamType
        <3> HIDE DEF st
        <3>4. GapFree(st)
            BY <3>3, EmptyGapFree
        <3>5. st \in StreamType /\ st.session # 0 /\ st.sequence < MaxSeq /\ GapFree(st)
            BY <3>1, <3>2, <3>3, <3>4
        <3> QED
            BY <3>5 DEF st, old, n
    <2>5. h.id # 0 => h.stream[h.id] \in StreamType /\ GapFree(h.stream[h.id])
        BY <2>2 DEF Rings
    <2> QED
        BY <2>1, <2>2, <2>3, <2>4, <2>5
<1>4. ASSUME NEW p \in Publishers, TakeFanout(p) \/ Unlock(p)
      PROVE  Rings(stream')
    <2>1. \E f : stream' = [stream EXCEPT ![worker[p].id].fanout = f]
        BY <1>4 DEF TakeFanout, Unlock
    <2>2. worker[p].id \in Ids
        BY <1>1, <1>4 DEF TakeFanout, Unlock
    <2>3. Same
        BY <1>1, <2>1, <2>2 DEF StreamType
    <2> QED
        BY <1>2, <2>3
<1>5. ASSUME NEW p \in Publishers, Pop(p) \/ MarkOverruns(p)
      PROVE  Rings(stream')
    <2>1. worker[p].id \in Ids
        BY <1>1, <1>5 DEF Pop, MarkOverruns
    <2>2. CASE Pop(p)
        <3>1. \/ stream' = stream
              \/ \E q : stream' = [stream EXCEPT ![worker[p].id].pending = q]
            BY <2>2 DEF Pop
        <3>2. ASSUME NEW q, stream' = [stream EXCEPT ![worker[p].id].pending = q]
              PROVE  Same
            BY <1>1, <2>1, <3>2 DEF StreamType
        <3>3. stream' = stream => Same
            OBVIOUS
        <3> QED
            BY <1>2, <3>1, <3>2, <3>3
    <2>3. CASE MarkOverruns(p)
        <3>1. \E m : stream' = [stream EXCEPT ![worker[p].id].members = m]
            BY <2>3 DEF MarkOverruns
        <3>2. Same
            BY <1>1, <2>1, <3>1 DEF StreamType
        <3> QED
            BY <1>2, <3>2
    <2> QED
        BY <1>5, <2>2, <2>3
<1>6. ASSUME NEW c \in Conns, NEW a \in Agents, NEW x, NEW after, Subscribe(c, a, x, after)
      PROVE  Rings(stream')
    <2>1. PICK h \in Ensured(a) :
             \/ stream' = h.stream
             \/ h.id # 0 /\ \E m : stream' = [h.stream EXCEPT ![h.id].members = m, ![h.id].last = clock]
        BY <1>6 DEF Subscribe
    <2>2. /\ h.stream \in [Ids -> StreamType] /\ Rings(h.stream)
          /\ h.id # 0 => h.id \in Ids
        BY EnsuredStructure, KeptRings DEF Structure, Typed
    <2>3. \A s \in Ids : /\ stream'[s].session = h.stream[s].session
                         /\ stream'[s].sequence = h.stream[s].sequence
                         /\ stream'[s].ring = h.stream[s].ring
        <3>1. CASE stream' = h.stream
            BY <3>1
        <3>2. ASSUME NEW m, stream' = [h.stream EXCEPT ![h.id].members = m, ![h.id].last = clock]
              PROVE  \A s \in Ids : /\ stream'[s].session = h.stream[s].session
                                    /\ stream'[s].sequence = h.stream[s].sequence
                                    /\ stream'[s].ring = h.stream[s].ring
            BY <2>2, <3>2, MembersOnly
        <3> QED
            BY <2>1, <3>1, <3>2
    <2> QED
        BY <2>2, <2>3, SMTT(20) DEF Rings, GapFree
<1>7. ASSUME NEW c \in Conns, RemoveSubscriber(c)
      PROVE  Rings(stream')
    <2> DEFINE s == table[sub[c].agent]
    <2>1. \/ stream' = stream
          \/ \E m : stream' = [stream EXCEPT ![s].members = m, ![s].last = clock]
        BY <1>7 DEF RemoveSubscriber
    <2> HIDE DEF s
    <2>2. Same
        <3>1. CASE stream' = stream
            BY <3>1
        <3>2. ASSUME NEW m, stream' = [stream EXCEPT ![s].members = m, ![s].last = clock]
              PROVE  Same
            BY <1>1, <3>2, MembersOnly
        <3> QED
            BY <2>1, <3>1, <3>2
    <2> QED
        BY <1>2, <2>2
<1>8. ASSUME NEW a \in Agents, Watermark(a)
      PROVE  Rings(stream')
    <2>1. PICK h \in Ensured(a) : stream' = h.stream
        BY <1>8 DEF Watermark
    <2> QED
        BY <2>1, EnsuredStructure, KeptRings DEF Structure, Typed
<1>9. ASSUME NEW p \in Publishers, NEW c \in Conns, Send(p, c)
      PROVE  Rings(stream')
    BY <1>9 DEF Send
<1>10. ASSUME NEW c \in Conns, Receive(c) \/ Stop(c) \/ Leave(c)
       PROVE  Rings(stream')
    BY <1>10 DEF Receive, Stop, Leave
<1>11. ASSUME Sweep \/ Tick
       PROVE  Rings(stream')
    BY <1>11 DEF Sweep, Tick
<1> QED
    BY <1>3, <1>4, <1>5, <1>6, <1>7, <1>8, <1>9, <1>10, <1>11 DEF Next, Fanout

\* Every step keeps the structure.
LEMMA StructureStep ==
    ASSUME StructureInv, Rings(stream), [Next]_vars
    PROVE  StructureInv'
<1>1. ASSUME NEW p \in Publishers, Fanout(p)
      PROVE  StructureInv'
    BY <1>1, TakeFanoutStructure, UnlockStructure, PopStructure, SendStructure, MarkStructure
       DEF Fanout
<1>2. ASSUME NEW c \in Conns, NEW a \in Agents, NEW cur \in Cursors,
             Subscribe(c, a, cur[1], cur[2])
      PROVE  StructureInv'
    <2>1. cur[1] \in Ids \cup {0} /\ cur[2] \in -1 .. MaxSeq
        BY Constants DEF Cursors
    <2> QED
        BY <1>2, <2>1, SubscribeStructure
<1>3. ASSUME NEW a \in Agents, Watermark(a)
      PROVE  StructureInv'
    <2>1. PICK h \in Ensured(a) : table' = h.table /\ stream' = h.stream /\ sub' = h.sub
                                  /\ issued' = h.issued
        BY <1>3 DEF Watermark
    <2>2. UNCHANGED <<clock, worker>>
        BY <1>3 DEF Watermark
    <2> QED
        BY <2>1, <2>2, EnsuredStructure DEF StructureInv
<1>4. ASSUME Sweep
      PROVE  StructureInv'
    BY <1>4, CollectedStructure DEF Sweep, StructureInv
<1>5. ASSUME Tick
      PROVE  StructureInv'
    BY <1>5, Constants DEF Tick, StructureInv
<1>6. ASSUME UNCHANGED vars
      PROVE  StructureInv'
    BY <1>6 DEF vars, StructureInv
<1> QED
    BY <1>1, <1>2, <1>3, <1>4, <1>5, <1>6, PublishStructure, ReaderStructure, RemoveStructure
       DEF Next

SafeInv == StructureInv /\ Rings(stream)

\* The first invariant of the hub, from which the theorems on types, drainers
\* and registrations follow.
LEMMA SafeInvariant == Spec => []SafeInv
<1>1. Init => SafeInv
    <2>1. Init => Rings(stream)
        <3> SUFFICES ASSUME Init, NEW s \in Ids PROVE GapFree(stream[s])
            BY DEF Rings
        <3>1. stream[s].ring = <<>> /\ stream[s].sequence = 0
            BY DEF Init, NoStream
        <3> QED
            BY <3>1, EmptyGapFree
    <2> QED
        BY <2>1, StructureInit DEF SafeInv
<1>2. SafeInv /\ [Next]_vars => SafeInv'
    <2>1. ASSUME SafeInv, UNCHANGED vars PROVE Rings(stream)'
        BY <2>1 DEF SafeInv, vars
    <2>2. ASSUME SafeInv, Next PROVE Rings(stream)'
        BY <2>2, RingsStep DEF SafeInv, Rings
    <2> QED
        BY <2>1, <2>2, StructureStep DEF SafeInv
<1> QED
    BY <1>1, <1>2, PTL DEF Spec

\* Every variable of the hub keeps its type.
THEOREM TypeCorrect == Spec => []TypeOK
<1>1. SafeInv => TypeOK
    <2> SUFFICES ASSUME SafeInv PROVE TypeOK
        OBVIOUS
    <2>1. SubType \subseteq SubRecord
        BY DEF SubType
    <2>2. sub \in [Conns -> SubRecord]
        BY <2>1 DEF SafeInv, StructureInv, Structure, Typed
    <2> QED
        BY <2>2 DEF SafeInv, StructureInv, Structure, Typed, TypeOK, StreamType, Delivery,
                    WorkerType, SubRecord
<1> QED
    BY <1>1, SafeInvariant, PTL

\* However publishers, subscribers and the clock interleave, one publisher at
\* a time drains the queue of a stream.
THEOREM OneDrainerHolds == Spec => []OneDrainer
<1>1. SafeInv => OneDrainer
    BY DEF SafeInv, StructureInv, Structure, Drained, OneDrainer
<1> QED
    BY <1>1, SafeInvariant, PTL

\* The ring of a stream is the gap-free tail of its session, within its bounds.
THEOREM RingIsTailHolds == Spec => []RingIsTail
<1>1. SafeInv => RingIsTail
    <2> SUFFICES ASSUME SafeInv, NEW s \in Ids
                 PROVE  LET st == stream[s]
                            n == Len(st.ring)
                        IN  /\ st.sequence > 0 => n > 0
                            /\ n <= RingSize /\ Bytes(st.ring) <= RingBytes
                            /\ \A i \in 1 .. n : /\ st.ring[i].session = st.session
                                                 /\ st.ring[i].seq = st.sequence - (n - i)
        BY DEF RingIsTail
    <2>1. stream[s].ring \in Seq(Event)
        BY DEF SafeInv, StructureInv, Structure, Typed, StreamType
    <2>2. stream[s].ring # <<>> => Len(stream[s].ring) > 0
        BY <2>1, EmptySeq, LenProperties
    <2> QED
        BY <2>2 DEF SafeInv, Rings, GapFree
<1> QED
    BY <1>1, SafeInvariant, PTL

\* A subscriber is open exactly while the stream its agent maps to holds it.
THEOREM OpenIsRegisteredHolds == Spec => []OpenIsRegistered
<1>1. SafeInv => OpenIsRegistered
    <2> SUFFICES ASSUME SafeInv PROVE OpenIsRegistered
        OBVIOUS
    <2>1. \A s \in Ids : stream[s].members \subseteq Conns
        BY DEF SafeInv, StructureInv, Structure, Typed, StreamType
    <2> QED
        BY <2>1 DEF SafeInv, StructureInv, Structure, Members, OpenIsRegistered
<1> QED
    BY <1>1, SafeInvariant, PTL

-----------------------------------------------------------------------------
(* The retry state of a stream. Only Publish changes it, together with the   *)
(* ring; what is dropped from the front of the ring was not the newest.      *)

Told(st) ==
    \A i \in 1 .. Len(st.ring) :
        /\ st.ring[i].kind # "other"
        /\ \A j \in 1 .. Len(st.ring) : i < j => st.ring[j].kind = "other"
        => (st.retry <=> st.ring[i].kind = "retry")

AllTold(S) == \A s \in Ids : Told(S[s])

\* A stream has its ring and its retry state still, or its ring is empty.
SpeakAlike(S, S2) ==
    \A s \in Ids : \/ S2[s].ring = S[s].ring /\ S2[s].retry = S[s].retry
                   \/ S2[s].ring = <<>>

LEMMA AlikeIsTold ==
    ASSUME NEW S, NEW S2, AllTold(S), SpeakAlike(S, S2)
    PROVE  AllTold(S2)
<1> SUFFICES ASSUME NEW s \in Ids PROVE Told(S2[s])
    BY DEF AllTold
<1>1. CASE S2[s].ring = S[s].ring /\ S2[s].retry = S[s].retry
    BY <1>1 DEF AllTold, Told
<1>2. CASE S2[s].ring = <<>>
    BY <1>2, EmptySeq DEF Told
<1> QED
    BY <1>1, <1>2 DEF SpeakAlike

\* Publish keeps them in agreement: the event it appends is the newest.
LEMMA AdmitTold ==
    ASSUME NEW st \in StreamType, NEW kind \in Kinds, NEW size \in Sizes,
           clock \in 0 .. MaxClock, st.session # 0, st.sequence < MaxSeq, Told(st),
           NEW k \in EvictCounts(Append(st.ring, NextEvent(st, kind, size)))
    PROVE  Told(Admit(st, NextEvent(st, kind, size), k))
<1> DEFINE e == NextEvent(st, kind, size)
           r == Admit(st, e, k)
           all == Append(st.ring, e)
           n == Len(st.ring)
<1>1. /\ e \in Event /\ e.kind = kind /\ r.retry = RetryAfter(st.retry, kind)
      /\ r.ring = SubSeq(all, k + 1, Len(all))
    <2>1. e \in Event /\ r.ring = SubSeq(all, k + 1, Len(all))
        BY AdmitType
    <2>2. e.kind = kind
        BY DEF NextEvent
    <2>3. PICK b : b = RetryAfter(st.retry, kind)
        OBVIOUS
    <2> DEFINE seq == e.seq
               ring == SubSeq(all, k + 1, Len(all))
               queue == IF st.members = {} THEN st.pending
                        ELSE Append(st.pending, [event |-> e, subs |-> st.members])
    <2>4. r = [st EXCEPT !.sequence = seq, !.ring = ring, !.last = clock, !.retry = b, !.pending = queue]
        BY <2>2, <2>3, Zenon DEF Admit
    <2> HIDE DEF seq, ring, queue, e, all, r
    <2>5. r.retry = b
        BY <2>4 DEF StreamType
    <2> QED
        BY <2>1, <2>2, <2>3, <2>5
<1>2. st.ring \in Seq(Event) /\ n \in Nat
    BY LenProperties DEF StreamType
<1>3. k \in 0 .. n
    BY <1>1, <1>2, NewestStays
<1>4. /\ all \in Seq(Event) /\ Len(all) = n + 1 /\ all[n + 1] = e
      /\ \A i \in 1 .. n : all[i] = st.ring[i]
    BY <1>1, <1>2, AppendProperties
<1>5. /\ r.ring \in Seq(Event) /\ Len(r.ring) = n + 1 - k
      /\ \A i \in 1 .. Len(r.ring) : r.ring[i] = all[k + i]
    <2>1. k \in 0 .. Len(all) /\ Len(all) - k = n + 1 - k
        BY <1>2, <1>3, <1>4
    <2> HIDE DEF all, r, n
    <2> QED
        BY <1>1, <1>4, <2>1, CutProperties
<1>6. kind \in {"retry", "settle", "other"}
    BY ConfigAssumption DEF ConfigAssumption
<1>7. /\ kind = "retry" => RetryAfter(st.retry, kind) = TRUE
      /\ kind = "settle" => RetryAfter(st.retry, kind) = FALSE
      /\ kind = "other" => RetryAfter(st.retry, kind) = st.retry
    BY DEF RetryAfter
<1> HIDE DEF all, r, e, n
<1> SUFFICES ASSUME NEW i \in 1 .. Len(r.ring), r.ring[i].kind # "other",
                    \A j \in 1 .. Len(r.ring) : i < j => r.ring[j].kind = "other"
             PROVE  r.retry <=> r.ring[i].kind = "retry"
    BY DEF Told, r, e
<1>8. LET last == Len(r.ring) IN last \in 1 .. Len(r.ring) /\ r.ring[last].kind = kind
    <2>1. n + 1 - k \in 1 .. n + 1 - k /\ k + (n + 1 - k) = n + 1
        BY <1>2, <1>3
    <2> QED
        BY <1>1, <1>4, <1>5, <2>1
<1>9. CASE i = Len(r.ring)
    BY <1>1, <1>6, <1>7, <1>8, <1>9
<1>10. CASE i # Len(r.ring)
    <2>a. i < Len(r.ring) /\ i < n + 1 - k /\ 1 <= i /\ i \in Int /\ k \in Int /\ 0 <= k
        BY <1>2, <1>3, <1>5, <1>10
    <2>1. kind = "other"
        BY <1>8, <2>a
    <2>2. k + i \in 1 .. n /\ r.ring[i] = st.ring[k + i]
        <3>1. k + i \in 1 .. n
            BY <1>2, <2>a
        <3> QED
            BY <1>4, <1>5, <3>1
    <2>3. ASSUME NEW j \in 1 .. Len(st.ring), k + i < j PROVE st.ring[j].kind = "other"
        <3>1. j - k \in 1 .. Len(r.ring) /\ i < j - k /\ k + (j - k) = j /\ j \in 1 .. n
            BY <1>2, <1>3, <1>5, <2>3 DEF n
        <3>2. r.ring[j - k] = st.ring[j]
            BY <1>4, <1>5, <3>1
        <3> QED
            BY <3>1, <3>2
    <2>4. st.retry <=> st.ring[k + i].kind = "retry"
        BY <2>2, <2>3 DEF Told, n
    <2> QED
        BY <1>1, <1>7, <2>1, <2>2, <2>4
<1> QED
    BY <1>9, <1>10

\* Eviction takes the members of a stream, creation begins a blank one.
LEMMA EnsuredAlike ==
    ASSUME StructureInv, NEW a \in Agents, NEW h \in Ensured(a)
    PROVE  SpeakAlike(stream, h.stream)
<1>1. CASE h \in Found(a)
    BY <1>1 DEF Found, SpeakAlike
<1>2. CASE h \in Created(a)
    <2>1. PICK vs : h = Evicting(a, vs)
        BY <1>2 DEF Created
    <2> DEFINE evicted == {Collected[v] : v \in vs}
               streams == [s \in Ids |->
                             IF s = issued + 1 THEN [NoStream EXCEPT !.session = s, !.last = clock]
                             ELSE IF s \in evicted THEN [stream[s] EXCEPT !.members = {}]
                             ELSE stream[s]]
    <2>2. h.stream = streams
        BY <2>1, Zenon DEF Evicting
    <2> HIDE DEF evicted
    <2>3. ASSUME NEW s \in Ids
          PROVE  \/ h.stream[s].ring = stream[s].ring /\ h.stream[s].retry = stream[s].retry
                 \/ h.stream[s].ring = <<>>
        <3>1. stream[s] \in StreamType
            BY DEF StructureInv, Structure, Typed
        <3>2. [NoStream EXCEPT !.session = s, !.last = clock].ring = <<>>
            BY DEF NoStream
        <3>3. /\ [stream[s] EXCEPT !.members = {}].ring = stream[s].ring
              /\ [stream[s] EXCEPT !.members = {}].retry = stream[s].retry
            BY <3>1 DEF StreamType
        <3>4. h.stream[s] = IF s = issued + 1 THEN [NoStream EXCEPT !.session = s, !.last = clock]
                            ELSE IF s \in evicted THEN [stream[s] EXCEPT !.members = {}]
                            ELSE stream[s]
            BY <2>2, Zenon
        <3> QED
            BY <3>2, <3>3, <3>4
    <2> QED
        BY <2>3 DEF SpeakAlike
<1> QED
    BY <1>1, <1>2 DEF Ensured

\* Members and the time of their change are no part of a ring or of the retry state.
LEMMA MembersAlike ==
    ASSUME NEW S \in [Ids -> StreamType], NEW id, NEW m, NEW l, NEW s \in Ids,
           NEW S2, S2 = [S EXCEPT ![id].members = m, ![id].last = l]
    PROVE  S2[s].ring = S[s].ring /\ S2[s].retry = S[s].retry
<1> DEFINE S1 == [S EXCEPT ![id].members = m]
           r1 == [S[s] EXCEPT !.members = m]
           r2 == [r1 EXCEPT !.last = l]
<1>1. r2.ring = S[s].ring /\ r2.retry = S[s].retry
    BY DEF StreamType
<1>2. S1[s] = IF s = id THEN r1 ELSE S[s]
    OBVIOUS
<1>3. S2[s] = IF s = id THEN [S1[s] EXCEPT !.last = l] ELSE S1[s]
    OBVIOUS
<1>4. S2[s] = IF s = id THEN r2 ELSE S[s]
    BY <1>2, <1>3
<1> HIDE DEF r2
<1> QED
    BY <1>1, <1>4

\* What the fan-out of a publisher leaves of the streams.
LEMMA FanoutAlike ==
    ASSUME StructureInv, NEW p \in Publishers, Fanout(p)
    PROVE  SpeakAlike(stream, stream')
<1>1. /\ stream \in [Ids -> StreamType]
      /\ worker[p].pc # "idle" => worker[p].id \in Ids
    BY BusyWorker DEF StructureInv, Structure, Typed
<1>2. CASE TakeFanout(p) \/ Unlock(p)
    <2>1. \E f : stream' = [stream EXCEPT ![worker[p].id].fanout = f]
        BY <1>2 DEF TakeFanout, Unlock
    <2> QED
        BY <1>1, <2>1 DEF StreamType, SpeakAlike
<1>3. CASE Pop(p)
    <2>1. stream' = stream \/ \E q : stream' = [stream EXCEPT ![worker[p].id].pending = q]
        BY <1>3 DEF Pop
    <2>2. ASSUME NEW q, stream' = [stream EXCEPT ![worker[p].id].pending = q]
          PROVE  SpeakAlike(stream, stream')
        BY <1>1, <2>2 DEF StreamType, SpeakAlike
    <2> QED
        BY <2>1, <2>2 DEF SpeakAlike
<1>4. CASE MarkOverruns(p)
    <2>1. \E m : stream' = [stream EXCEPT ![worker[p].id].members = m]
        BY <1>4 DEF MarkOverruns
    <2> QED
        BY <1>1, <2>1 DEF StreamType, SpeakAlike
<1>5. CASE \E c \in Conns : Send(p, c)
    <2>1. stream' = stream
        BY <1>5, Zenon DEF Send
    <2> QED
        BY <2>1 DEF SpeakAlike
<1> QED
    BY <1>2, <1>3, <1>4, <1>5 DEF Fanout

LEMMA MembersAlikeAll ==
    ASSUME NEW R, NEW S \in [Ids -> StreamType], SpeakAlike(R, S), NEW id, NEW m, NEW l,
           NEW S2, S2 = [S EXCEPT ![id].members = m, ![id].last = l]
    PROVE  SpeakAlike(R, S2)
<1>1. \A s \in Ids : S2[s].ring = S[s].ring /\ S2[s].retry = S[s].retry
    BY MembersAlike
<1> QED
    BY <1>1 DEF SpeakAlike

\* What a subscriber that comes or goes leaves of them.
LEMMA SubscribeAlike ==
    ASSUME StructureInv, NEW c \in Conns, NEW a \in Agents, NEW x, NEW after, Subscribe(c, a, x, after)
    PROVE  SpeakAlike(stream, stream')
<1>1. PICK h \in Ensured(a) :
         \/ stream' = h.stream
         \/ \E m : stream' = [h.stream EXCEPT ![h.id].members = m, ![h.id].last = clock]
    <2>1. PICK h \in Ensured(a) :
             IF h.id = 0 \/ Refusal(h.stream[h.id], x, after) # "" THEN stream' = h.stream
             ELSE stream' = [h.stream EXCEPT ![h.id].members = h.stream[h.id].members \cup {c}, ![h.id].last = clock]
        BY Zenon DEF Subscribe
    <2> QED
        BY <2>1, Zenon
<1>2. h.stream \in [Ids -> StreamType] /\ SpeakAlike(stream, h.stream)
    BY EnsuredStructure, EnsuredAlike DEF Structure, Typed
<1>3. ASSUME NEW m, stream' = [h.stream EXCEPT ![h.id].members = m, ![h.id].last = clock]
      PROVE  SpeakAlike(stream, stream')
    BY <1>2, <1>3, MembersAlikeAll
<1>4. CASE stream' = h.stream
    BY <1>2, <1>4
<1> QED
    BY <1>1, <1>3, <1>4, Zenon

LEMMA RemoveAlike ==
    ASSUME StructureInv, NEW c \in Conns, RemoveSubscriber(c)
    PROVE  SpeakAlike(stream, stream')
<1> DEFINE id == table[sub[c].agent]
<1>1. \/ stream' = stream
      \/ \E m : stream' = [stream EXCEPT ![id].members = m, ![id].last = clock]
    BY DEF RemoveSubscriber
<1>2. stream \in [Ids -> StreamType] /\ SpeakAlike(stream, stream)
    BY DEF StructureInv, Structure, Typed, SpeakAlike
<1> HIDE DEF id
<1>3. ASSUME NEW m, stream' = [stream EXCEPT ![id].members = m, ![id].last = clock]
      PROVE  SpeakAlike(stream, stream')
    BY <1>2, <1>3, MembersAlikeAll
<1>4. CASE stream' = stream
    BY <1>2, <1>4
<1> QED
    BY <1>1, <1>3, <1>4, Zenon

\* Publish, with or without a new session.
LEMMA PublishTells ==
    ASSUME StructureInv, AllTold(stream), NEW p \in Publishers, NEW a \in Agents, NEW kind \in Kinds,
           NEW size \in Sizes, Publish(p, a, kind, size)
    PROVE  AllTold(stream')
<1>1. PICK h \in Ensured(a) :
        \/ UNCHANGED stream
        \/ /\ h.id # 0
           /\ h.stream[h.id].sequence < MaxSeq
           /\ \E k \in EvictCounts(Append(h.stream[h.id].ring,
                                          NextEvent(h.stream[h.id], kind, size))) :
                 stream' = [h.stream EXCEPT ![h.id] =
                              Admit(h.stream[h.id], NextEvent(h.stream[h.id], kind, size), k)]
        \/ /\ h.id # 0
           /\ h.issued < MaxSessions
           /\ LET st == Wrapped(h.stream[h.id], h.issued + 1)
                  e == NextEvent(st, kind, size)
              IN  \E k \in EvictCounts(Append(st.ring, e)) :
                        stream' = [h.stream EXCEPT ![h.id] = Admit(st, e, k)]
    BY DEF Publish
<1>2. /\ h.stream \in [Ids -> StreamType] /\ AllTold(h.stream)
      /\ h.id # 0 => h.id \in Ids /\ h.stream[h.id].session # 0
      /\ h.issued \in 0 .. MaxSessions /\ clock \in 0 .. MaxClock
    BY EnsuredStructure, EnsuredAlike, AlikeIsTold DEF StructureInv, Structure, Typed
<1>3. ASSUME NEW st \in StreamType, st.session # 0, st.sequence < MaxSeq, Told(st), h.id # 0,
             NEW k \in EvictCounts(Append(st.ring, NextEvent(st, kind, size))),
             stream' = [h.stream EXCEPT ![h.id] = Admit(st, NextEvent(st, kind, size), k)]
      PROVE  AllTold(stream')
    <2>1. Told(Admit(st, NextEvent(st, kind, size), k))
        BY <1>2, <1>3, AdmitTold
    <2> QED
        BY <1>2, <1>3, <2>1 DEF AllTold
<1>4. h.id # 0 /\ h.issued < MaxSessions =>
         /\ Wrapped(h.stream[h.id], h.issued + 1) \in StreamType
         /\ Wrapped(h.stream[h.id], h.issued + 1).session # 0
         /\ Wrapped(h.stream[h.id], h.issued + 1).sequence < MaxSeq
         /\ Told(Wrapped(h.stream[h.id], h.issued + 1))
    <2> SUFFICES ASSUME h.id # 0, h.issued < MaxSessions
                 PROVE  /\ Wrapped(h.stream[h.id], h.issued + 1) \in StreamType
                        /\ Wrapped(h.stream[h.id], h.issued + 1).session # 0
                        /\ Wrapped(h.stream[h.id], h.issued + 1).sequence < MaxSeq
                        /\ Told(Wrapped(h.stream[h.id], h.issued + 1))
        OBVIOUS
    <2> DEFINE old == h.stream[h.id]
               n == h.issued + 1
               st == Wrapped(old, n)
    <2>1. old \in StreamType /\ n \in 0 .. MaxSessions /\ n # 0
        BY <1>2, Constants
    <2>2. <<>> \in Seq(Event) /\ Len(<<>>) = 0 /\ 0 \in 0 .. MaxSeq /\ 0 < MaxSeq
        BY EmptySeq, Constants
    <2> HIDE DEF old, n
    <2>3. st \in StreamType /\ st.session = n /\ st.sequence = 0 /\ st.ring = <<>>
        BY <2>1, <2>2 DEF Wrapped, StreamType
    <2> HIDE DEF st
    <2>4. Told(st)
        BY <2>2, <2>3 DEF Told
    <2>5. st \in StreamType /\ st.session # 0 /\ st.sequence < MaxSeq /\ Told(st)
        BY <2>1, <2>2, <2>3, <2>4
    <2> QED
        BY <2>5 DEF st, old, n
<1>5. h.id # 0 => h.stream[h.id] \in StreamType /\ Told(h.stream[h.id])
    BY <1>2 DEF AllTold
<1> QED
    BY <1>1, <1>2, <1>3, <1>4, <1>5

LEMMA ToldStep ==
    ASSUME StructureInv, AllTold(stream), [Next]_vars
    PROVE  AllTold(stream')
<1>1. CASE \E p \in Publishers, a \in Agents, kind \in Kinds, size \in Sizes : Publish(p, a, kind, size)
    BY <1>1, PublishTells
<1>2. CASE \E p \in Publishers : Fanout(p)
    BY <1>2, FanoutAlike, AlikeIsTold
<1>3. CASE \/ \E c \in Conns, a \in Agents, cur \in Cursors : Subscribe(c, a, cur[1], cur[2])
           \/ \E c \in Conns : RemoveSubscriber(c)
    BY <1>3, SubscribeAlike, RemoveAlike, AlikeIsTold
<1>4. ASSUME NEW a \in Agents, Watermark(a) PROVE AllTold(stream')
    <2>1. PICK h \in Ensured(a) : stream' = h.stream
        BY <1>4 DEF Watermark
    <2> QED
        BY <2>1, EnsuredAlike, AlikeIsTold
<1>5. CASE (\E c \in Conns : Receive(c) \/ Stop(c) \/ Leave(c)) \/ Sweep \/ Tick \/ UNCHANGED vars
    <2>1. UNCHANGED stream
        BY <1>5, Zenon DEF Receive, Stop, Leave, Sweep, Tick, vars
    <2> QED
        BY <2>1
<1> QED
    BY <1>1, <1>2, <1>3, <1>4, <1>5 DEF Next

\* The retry state a snapshot shows is what the newest event of the ring that
\* speaks of it says (applyProviderRetryLocked of hub.go), whatever was dropped
\* from the ring, and across a new session.
THEOREM RetryMatchesRingHolds == Spec => []RetryMatchesRing
<1>1. Init => AllTold(stream)
    <2> SUFFICES ASSUME Init, NEW s \in Ids PROVE Told(stream[s])
        BY DEF AllTold
    <2>1. stream[s].ring = <<>>
        BY DEF Init, NoStream
    <2> QED
        BY <2>1, EmptySeq DEF Told
<1>2. SafeInv /\ AllTold(stream) /\ [Next]_vars => AllTold(stream)'
    BY ToldStep DEF SafeInv, AllTold
<1>3. SafeInv /\ AllTold(stream) => RetryMatchesRing
    <2> SUFFICES ASSUME SafeInv, AllTold(stream), NEW s \in Ids,
                        NEW i \in DOMAIN stream[s].ring, stream[s].ring[i].kind # "other",
                        \A j \in {m \in DOMAIN stream[s].ring : stream[s].ring[m].kind # "other"} : j <= i
                 PROVE  stream[s].retry <=> stream[s].ring[i].kind = "retry"
        BY DEF RetryMatchesRing
    <2>1. stream[s].ring \in Seq(Event)
        BY DEF SafeInv, StructureInv, Structure, Typed, StreamType
    <2>2. DOMAIN stream[s].ring = 1 .. Len(stream[s].ring) /\ Len(stream[s].ring) \in Nat
        BY <2>1
    <2>3. \A j \in 1 .. Len(stream[s].ring) : i < j => stream[s].ring[j].kind = "other"
        BY <2>2
    <2> QED
        BY <2>2, <2>3 DEF AllTold, Told
<1> QED
    BY <1>1, <1>2, <1>3, SafeInvariant, PTL DEF Spec
=============================================================================
