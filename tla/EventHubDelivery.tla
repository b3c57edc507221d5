-------------------------- MODULE EventHubDelivery --------------------------
(***************************************************************************)
(* Proofs that the hub delivers in order and loses nothing, for every      *)
(* value of the constants. They rest on the invariant SafeInv of           *)
(* EventHubProofs, and account for every event between the sequence of a   *)
(* stream and the cursor of each of its subscribers: it is in the replay,  *)
(* in the channel, in the drainer's hands or in the queue, in this order.  *)
(* The last part rests on this account: the hub implements EventFeed.      *)
(***************************************************************************)
EXTENDS EventHubProofs

\* What the reader of subscriber u can read follows its cursor, in one session.
Ordered(u) ==
    /\ \A i \in 1 .. Len(u.replay) :
          u.replay[i].seq = u.cursor + i /\ u.replay[i].session = u.session
    /\ \A i \in 1 .. Len(u.events) :
          /\ u.events[i].seq = u.cursor + Len(u.replay) + i
          /\ u.events[i].session = u.session

Order(U) == \A c \in Conns : U[c].state # "free" => Ordered(U[c])

Reach(u) == u.cursor + Len(u.replay) + Len(u.events)

Hands(W, c) == {p \in Publishers : c \in W[p].todo}

Due(st, u, held) == st.sequence - Reach(u) - (IF held THEN 1 ELSE 0)

\* The account of one open subscriber c, with the contents u, of the stream st.
Queued(st, c, n) ==
    LET len == Len(st.pending)
    IN  /\ n \in 0 .. len
        /\ \A i \in 1 .. len : c \in st.pending[i].subs <=> i > len - n
        /\ \A i \in 1 .. len : i > len - n =>
              /\ st.pending[i].event.seq = st.sequence - (len - i)
              /\ st.pending[i].event.session = st.session

Held(W, u, c, session) ==
    \A p \in Publishers : c \in W[p].todo =>
        W[p].item.seq = Reach(u) + 1 /\ W[p].item.session = session

Accounted(st, u, W, c) ==
    /\ u.session = st.session
    /\ Queued(st, c, Due(st, u, \E p \in Publishers : c \in W[p].todo))
    /\ Held(W, u, c, st.session)

Account(S, U, W) ==
    \A c \in Conns :
        U[c].state = "open" /\ (\A p \in Publishers : c \notin W[p].overran) =>
            Accounted(S[U[c].id], U[c], W, c)

-----------------------------------------------------------------------------
\* The account is the property the runs check.
LEMMA AccountIsNothingLost == Account(stream, sub, worker) => NothingLost
BY DEF Account, Accounted, Queued, Held, Due, Reach, NothingLost, Overran, Owed, InHand, Sent

\* The fields of a subscriber.
LEMMA SubFields ==
    ASSUME NEW u \in SubType
    PROVE  /\ u.replay \in Seq(Event) /\ u.events \in Seq(Event) /\ u.cursor \in Int
           /\ Len(u.replay) \in Nat /\ Len(u.events) \in Nat
<1>1. u.replay \in Seq(Event) /\ u.events \in Seq(Event) /\ u.cursor \in 0 .. MaxSeq
    BY DEF SubType, SubRecord
<1> QED
    BY <1>1, LenProperties, Constants

\* A subscriber's replay and channel, read one after the other, are in order.
LEMMA OrderIsDelivered == SafeInv /\ Order(sub) => DeliveredInOrder
<1> SUFFICES ASSUME SafeInv, Order(sub), NEW c \in Conns, sub[c].state # "free",
                    NEW i \in DOMAIN Readable(c)
             PROVE  /\ Readable(c)[i].seq = sub[c].cursor + i
                    /\ Readable(c)[i].session = sub[c].session
    BY DEF DeliveredInOrder, Consecutive
<1> DEFINE r == sub[c].replay
           e == sub[c].events
<1>1. r \in Seq(Event) /\ e \in Seq(Event) /\ sub[c].cursor \in Int
    <2>1. sub[c] \in SubType
        BY DEF SafeInv, StructureInv, Structure, Typed
    <2> QED
        BY <2>1, SubFields
<1>2. /\ Len(r) \in Nat /\ Len(e) \in Nat /\ i \in 1 .. Len(r) + Len(e)
      /\ Readable(c)[i] = IF i <= Len(r) THEN r[i] ELSE e[i - Len(r)]
    <2>1. Readable(c) = r \o e
        BY DEF Readable
    <2> HIDE DEF r, e
    <2>2. Len(r) \in Nat /\ Len(e) \in Nat
        BY <1>1, LenProperties
    <2>3. /\ r \o e \in Seq(Event) /\ Len(r \o e) = Len(r) + Len(e)
          /\ \A j \in 1 .. Len(r) + Len(e) : (r \o e)[j] = IF j <= Len(r) THEN r[j] ELSE e[j - Len(r)]
        BY <1>1, ConcatProperties
    <2>4. i \in 1 .. Len(r) + Len(e)
        BY <2>1, <2>3, LenProperties
    <2> QED
        BY <2>1, <2>2, <2>3, <2>4
<1>3. /\ \A j \in 1 .. Len(r) : r[j].seq = sub[c].cursor + j /\ r[j].session = sub[c].session
      /\ \A j \in 1 .. Len(e) : /\ e[j].seq = sub[c].cursor + Len(r) + j
                                /\ e[j].session = sub[c].session
    BY DEF Order, Ordered
<1> HIDE DEF r, e
<1>4. CASE i <= Len(r)
    <2>1. i \in 1 .. Len(r) /\ Readable(c)[i] = r[i]
        BY <1>2, <1>4
    <2> QED
        BY <2>1, <1>3
<1>5. CASE i > Len(r)
    <2>1. i - Len(r) \in 1 .. Len(e) /\ Readable(c)[i] = e[i - Len(r)]
          /\ sub[c].cursor + Len(r) + (i - Len(r)) = sub[c].cursor + i
        BY <1>1, <1>2, <1>5
    <2> QED
        BY <2>1, <1>3
<1> QED
    BY <1>2, <1>4, <1>5

\* Taking the head of a sequence of events.
LEMMA TakeFirst ==
    ASSUME NEW q \in Seq(Event), q # <<>>
    PROVE  /\ Len(q) > 0 /\ Head(q) = q[1] /\ Len(Tail(q)) = Len(q) - 1
           /\ \A i \in 1 .. Len(Tail(q)) : Tail(q)[i] = q[i + 1] /\ i + 1 \in 1 .. Len(q)
<1>1. Len(q) \in Nat /\ Len(q) # 0
    BY EmptySeq, LenProperties
<1> QED
    BY <1>1, HeadTailProperties

\* Reading the next event keeps the order and does not change how far the
\* subscriber reaches.
LEMMA ReadNext ==
    ASSUME NEW u \in SubType, Ordered(u), NEW v \in SubType,
           \/ /\ u.replay # <<>>
              /\ v = [u EXCEPT !.replay = Tail(u.replay), !.cursor = Head(u.replay).seq]
           \/ /\ u.replay = <<>> /\ u.events # <<>>
              /\ v = [u EXCEPT !.events = Tail(u.events), !.cursor = Head(u.events).seq]
    PROVE  Ordered(v) /\ Reach(v) = Reach(u)
<1>1. /\ u.replay \in Seq(Event) /\ u.events \in Seq(Event) /\ u.cursor \in Int
      /\ Len(u.replay) \in Nat /\ Len(u.events) \in Nat
    BY SubFields, LenProperties
<1>2. CASE /\ u.replay # <<>>
           /\ v = [u EXCEPT !.replay = Tail(u.replay), !.cursor = Head(u.replay).seq]
    <2>1. /\ v.replay = Tail(u.replay) /\ v.cursor = Head(u.replay).seq
          /\ v.events = u.events /\ v.session = u.session
        BY <1>2 DEF SubType, SubRecord
    <2>2. /\ Len(u.replay) > 0 /\ Head(u.replay) = u.replay[1]
          /\ Len(v.replay) = Len(u.replay) - 1
          /\ \A i \in 1 .. Len(v.replay) : v.replay[i] = u.replay[i + 1] /\ i + 1 \in 1 .. Len(u.replay)
        BY <1>1, <1>2, <2>1, TakeFirst
    <2>3. v.cursor = u.cursor + 1
        BY <1>1, <2>1, <2>2 DEF Ordered
    <2>4. ASSUME NEW i \in 1 .. Len(v.replay)
          PROVE  v.replay[i].seq = v.cursor + i /\ v.replay[i].session = v.session
        <3>1. v.replay[i] = u.replay[i + 1] /\ i + 1 \in 1 .. Len(u.replay)
            BY <2>2
        <3>2. u.replay[i + 1].seq = u.cursor + (i + 1) /\ u.replay[i + 1].session = u.session
            BY <3>1 DEF Ordered
        <3>3. u.cursor + (i + 1) = v.cursor + i
            BY <1>1, <2>3
        <3> QED
            BY <2>1, <3>1, <3>2, <3>3
    <2>5. \A i \in 1 .. Len(v.events) : v.events[i].seq = v.cursor + Len(v.replay) + i
                                        /\ v.events[i].session = v.session
        BY <1>1, <2>1, <2>2, <2>3 DEF Ordered
    <2>6. Reach(v) = Reach(u)
        BY <1>1, <2>1, <2>2, <2>3 DEF Reach
    <2> QED
        BY <2>4, <2>5, <2>6 DEF Ordered
<1>3. CASE /\ u.replay = <<>> /\ u.events # <<>>
           /\ v = [u EXCEPT !.events = Tail(u.events), !.cursor = Head(u.events).seq]
    <2>1. /\ v.events = Tail(u.events) /\ v.cursor = Head(u.events).seq
          /\ v.replay = u.replay /\ v.session = u.session
        BY <1>3 DEF SubType, SubRecord
    <2>2. /\ Len(u.events) > 0 /\ Head(u.events) = u.events[1] /\ Len(u.replay) = 0
          /\ Len(v.events) = Len(u.events) - 1
          /\ \A i \in 1 .. Len(v.events) : v.events[i] = u.events[i + 1] /\ i + 1 \in 1 .. Len(u.events)
        BY <1>1, <1>3, <2>1, TakeFirst, EmptySeq
    <2>3. v.cursor = u.cursor + 1
        BY <1>1, <2>1, <2>2 DEF Ordered
    <2>4. ASSUME NEW i \in 1 .. Len(v.events)
          PROVE  v.events[i].seq = v.cursor + Len(v.replay) + i /\ v.events[i].session = v.session
        <3>1. v.events[i] = u.events[i + 1] /\ i + 1 \in 1 .. Len(u.events)
            BY <2>2
        <3>2. /\ u.events[i + 1].seq = u.cursor + Len(u.replay) + (i + 1)
              /\ u.events[i + 1].session = u.session
            BY <3>1 DEF Ordered
        <3>3. u.cursor + Len(u.replay) + (i + 1) = v.cursor + Len(v.replay) + i
            <4>1. Len(u.replay) = 0 /\ Len(v.replay) = 0 /\ i \in Int
                BY <2>1, <2>2
            <4> QED
                BY <1>1, <2>3, <4>1
        <3> QED
            BY <2>1, <3>1, <3>2, <3>3
    <2>5. \A i \in 1 .. Len(v.replay) : v.replay[i].seq = v.cursor + i
                                        /\ v.replay[i].session = v.session
        BY <1>1, <2>1, <2>2
    <2>6. Reach(v) = Reach(u)
        BY <1>1, <2>1, <2>2, <2>3 DEF Reach
    <2> QED
        BY <2>4, <2>5, <2>6 DEF Ordered
<1> QED
    BY <1>2, <1>3

\* The account of a queue that grows by a delivery to c.
LEMMA QueuedAppend ==
    ASSUME NEW st \in StreamType, NEW r \in StreamType, NEW c, NEW n, Queued(st, c, n),
           NEW d \in Delivery, c \in d.subs, r.pending = Append(st.pending, d),
           r.sequence = st.sequence + 1, d.event.seq = r.sequence,
           r.session = st.session, d.event.session = st.session
    PROVE  Queued(r, c, n + 1)
<1> DEFINE len == Len(st.pending)
<1>1. st.pending \in Seq(Delivery) /\ len \in Nat /\ st.sequence \in Int
    BY LenProperties, Constants DEF StreamType
<1>2. /\ Len(r.pending) = len + 1 /\ r.pending[len + 1] = d
      /\ \A i \in 1 .. len : r.pending[i] = st.pending[i]
    BY <1>1, AppendProperties
<1>3. /\ n \in 0 .. len
      /\ \A i \in 1 .. len : c \in st.pending[i].subs <=> i > len - n
      /\ \A i \in 1 .. len : i > len - n =>
            /\ st.pending[i].event.seq = st.sequence - (len - i)
            /\ st.pending[i].event.session = st.session
    BY DEF Queued
<1> HIDE DEF len
<1>4. n + 1 \in 0 .. len + 1 /\ (len + 1) - (n + 1) = len - n /\ len + 1 > len - n
    BY <1>1, <1>3
<1>5. ASSUME NEW i \in 1 .. len + 1
      PROVE  /\ c \in r.pending[i].subs <=> i > (len + 1) - (n + 1)
             /\ i > (len + 1) - (n + 1) =>
                   /\ r.pending[i].event.seq = r.sequence - ((len + 1) - i)
                   /\ r.pending[i].event.session = r.session
    <2>1. CASE i = len + 1
        <3>1. r.sequence - ((len + 1) - i) = r.sequence
            BY <2>1, <1>1
        <3> QED
            BY <2>1, <3>1, <1>2, <1>4
    <2>2. CASE i # len + 1
        <3>1. i \in 1 .. len /\ r.pending[i] = st.pending[i]
            BY <2>2, <1>1, <1>2
        <3>2. r.sequence - ((len + 1) - i) = st.sequence - (len - i)
            BY <3>1, <1>1
        <3> QED
            BY <3>1, <3>2, <1>3, <1>4
    <2> QED
        BY <2>1, <2>2
<1> QED
    BY <1>2, <1>4, <1>5 DEF Queued

\* The account of a queue that loses its head: the head was for c exactly when
\* the whole queue was.
LEMMA QueuedTail ==
    ASSUME NEW st \in StreamType, NEW r, NEW c, NEW n, Queued(st, c, n), st.pending # <<>>,
           r.pending = Tail(st.pending), r.sequence = st.sequence, r.session = st.session
    PROVE  /\ c \in st.pending[1].subs =>
                 /\ Queued(r, c, n - 1)
                 /\ st.pending[1].event.seq = st.sequence - (n - 1)
                 /\ st.pending[1].event.session = st.session
           /\ c \notin st.pending[1].subs => Queued(r, c, n)
<1> DEFINE len == Len(st.pending)
<1>1. st.pending \in Seq(Delivery) /\ len \in Nat /\ st.sequence \in Int /\ len # 0
    BY LenProperties, EmptySeq, Constants DEF StreamType
<1>2. Len(r.pending) = len - 1 /\ \A i \in 1 .. len - 1 : r.pending[i] = st.pending[i + 1]
    BY <1>1, HeadTailProperties
<1>3. /\ n \in 0 .. len
      /\ \A i \in 1 .. len : c \in st.pending[i].subs <=> i > len - n
      /\ \A i \in 1 .. len : i > len - n =>
            /\ st.pending[i].event.seq = st.sequence - (len - i)
            /\ st.pending[i].event.session = st.session
    BY DEF Queued
<1> HIDE DEF len
<1>4. 1 \in 1 .. len
    BY <1>1
<1>5. c \in st.pending[1].subs <=> n = len
    BY <1>1, <1>3, <1>4
<1>6. ASSUME NEW m \in 0 .. len - 1, (len - 1) - m = (IF n = len THEN 0 ELSE len - 1 - n)
      PROVE  Queued(r, c, m)
    <2>1. ASSUME NEW i \in 1 .. len - 1
          PROVE  /\ c \in r.pending[i].subs <=> i > (len - 1) - m
                 /\ i > (len - 1) - m =>
                       /\ r.pending[i].event.seq = r.sequence - ((len - 1) - i)
                       /\ r.pending[i].event.session = r.session
        <3>1. i + 1 \in 1 .. len /\ r.pending[i] = st.pending[i + 1] /\ i \in Int
            BY <1>1, <1>2
        <3>2. i > (len - 1) - m <=> i + 1 > len - n
            BY <1>1, <1>3, <1>6, <3>1
        <3>3. r.sequence - ((len - 1) - i) = st.sequence - (len - (i + 1))
            BY <1>1, <3>1
        <3> QED
            BY <3>1, <3>2, <3>3, <1>3
    <2> QED
        BY <1>2, <2>1 DEF Queued
<1>7. ASSUME c \in st.pending[1].subs
      PROVE  /\ Queued(r, c, n - 1)
             /\ st.pending[1].event.seq = st.sequence - (n - 1)
             /\ st.pending[1].event.session = st.session
    <2>1. n = len /\ n - 1 \in 0 .. len - 1 /\ (len - 1) - (n - 1) = 0
        BY <1>1, <1>3, <1>5, <1>7
    <2>2. Queued(r, c, n - 1)
        BY <2>1, <1>6
    <2>3. 1 > len - n
        BY <2>1, <1>1
    <2> QED
        BY <2>1, <2>2, <2>3, <1>3, <1>4
<1>8. ASSUME c \notin st.pending[1].subs
      PROVE  Queued(r, c, n)
    <2>1. n # len /\ n \in 0 .. len - 1 /\ (len - 1) - n = len - 1 - n
        BY <1>1, <1>3, <1>5, <1>8
    <2> QED
        BY <2>1, <1>6
<1> QED
    BY <1>7, <1>8

\* The account of c depends on its own stream, its own reader state and the
\* drainers that hold a delivery for it only.
LEMMA AccountedSame ==
    ASSUME NEW st, NEW u, NEW W, NEW c, Accounted(st, u, W, c),
           NEW r, r.session = st.session, r.sequence = st.sequence, r.pending = st.pending,
           NEW v, v.session = u.session, Reach(v) = Reach(u),
           NEW W2, \A p \in Publishers : /\ c \in W2[p].todo <=> c \in W[p].todo
                                         /\ c \in W2[p].todo => W2[p].item = W[p].item
    PROVE  Accounted(r, v, W2, c)
<1> DEFINE h == \E p \in Publishers : c \in W[p].todo
           h2 == \E p \in Publishers : c \in W2[p].todo
<1>1. h2 <=> h
    OBVIOUS
<1>2. Accounted(st, u, W, c) <=> /\ u.session = st.session
                                 /\ Queued(st, c, Due(st, u, h)) /\ Held(W, u, c, st.session)
    BY DEF Accounted
<1>3. Accounted(r, v, W2, c) <=> /\ v.session = r.session
                                 /\ Queued(r, c, Due(r, v, h2)) /\ Held(W2, v, c, r.session)
    BY DEF Accounted
<1>4. Held(W2, v, c, r.session)
    BY DEF Held, Accounted
<1> HIDE DEF h, h2
<1>5. Due(r, v, h2) = Due(st, u, h)
    BY <1>1 DEF Due
<1>6. Queued(r, c, Due(r, v, h2))
    BY <1>2, <1>5 DEF Queued
<1> QED
    BY <1>2, <1>3, <1>4, <1>6

\* ... so an event that a stream queues for all its members leaves the account
\* of each of them settled.
LEMMA AccountedAdmit ==
    ASSUME NEW st \in StreamType, NEW u \in SubType, NEW W, NEW c, Accounted(st, u, W, c),
           NEW r \in StreamType, NEW d \in Delivery, c \in d.subs,
           r.pending = Append(st.pending, d),
           r.sequence = st.sequence + 1, d.event.seq = r.sequence,
           r.session = st.session, d.event.session = st.session
    PROVE  Accounted(r, u, W, c)
<1> DEFINE h == \E p \in Publishers : c \in W[p].todo
<1>a. Reach(u) \in Int
    BY SubFields DEF Reach
<1>b. st.sequence \in Int
    BY Constants DEF StreamType
<1>1. Reach(u) \in Int /\ st.sequence \in Int
    BY <1>a, <1>b
<1>2. Due(r, u, h) = Due(st, u, h) + 1
    BY <1>1 DEF Due
<1>3. Queued(st, c, Due(st, u, h))
    BY DEF Accounted
<1> HIDE DEF h
<1>4. Queued(r, c, Due(r, u, h))
    BY <1>2, <1>3, QueuedAppend
<1> QED
    BY <1>4 DEF Accounted, Held, h

\* A step keeps the account of a subscriber whose stream, reader and drainers
\* it leaves alone.
LEMMA AccountFrame ==
    ASSUME NEW S, NEW U, NEW W, Account(S, U, W), NEW S2, NEW U2, NEW W2, NEW c \in Conns,
           U[c].state = "open", \A p \in Publishers : c \notin W[p].overran,
           U2[c].id = U[c].id, U2[c].session = U[c].session, Reach(U2[c]) = Reach(U[c]),
           S2[U[c].id].session = S[U[c].id].session,
           S2[U[c].id].sequence = S[U[c].id].sequence,
           S2[U[c].id].pending = S[U[c].id].pending,
           \A p \in Publishers : /\ c \in W2[p].todo <=> c \in W[p].todo
                                 /\ c \in W2[p].todo => W2[p].item = W[p].item
    PROVE  Accounted(S2[U2[c].id], U2[c], W2, c)
<1>1. Accounted(S[U[c].id], U[c], W, c)
    BY DEF Account
<1> QED
    BY <1>1, AccountedSame

\* Two drainers never hold something for the same open subscriber.
LEMMA OneHolder ==
    ASSUME StructureInv, NEW c \in Conns, sub[c].state = "open",
           NEW p \in Publishers, c \in worker[p].todo \cup worker[p].overran,
           NEW q \in Publishers, c \in worker[q].todo \cup worker[q].overran
    PROVE  p = q
<1>1. \A w \in Publishers : c \in worker[w].todo \cup worker[w].overran =>
          stream[sub[c].id].fanout = w
    <2> SUFFICES ASSUME NEW w \in Publishers, c \in worker[w].todo \cup worker[w].overran
                 PROVE  stream[sub[c].id].fanout = w
        OBVIOUS
    <2>1. worker[w].pc \in {"send", "mark"} /\ sub[c].id = worker[w].id
        BY DEF StructureInv, Structure, Drained
    <2> QED
        BY <2>1 DEF StructureInv, Structure, Drained
<1> QED
    BY <1>1

\* collectGarbageLocked, the eviction and the creation of a stream keep the
\* account: an open subscriber is still in its stream, so its stream was kept.
LEMMA EnsuredAccount ==
    ASSUME StructureInv, Order(sub), Account(stream, sub, worker),
           NEW a \in Agents, NEW h \in Ensured(a)
    PROVE  Order(h.sub) /\ Account(h.stream, h.sub, worker)
<1>1. /\ Structure(h.table, h.stream, h.sub, worker, h.issued)
      /\ KeptStreams(stream, h.stream) /\ KeptSubs(sub, h.sub)
    BY EnsuredStructure
<1>2. Order(h.sub)
    <2> SUFFICES ASSUME NEW c \in Conns, h.sub[c].state # "free"
                 PROVE  Ordered(h.sub[c])
        BY DEF Order
    <2>1. CASE h.sub[c] = sub[c]
        BY <2>1 DEF Order
    <2>2. CASE /\ sub[c].state = "open"
               /\ h.sub[c].session = sub[c].session /\ h.sub[c].cursor = sub[c].cursor
               /\ h.sub[c].replay = sub[c].replay /\ h.sub[c].events = sub[c].events
        <3>1. Ordered(sub[c])
            BY <2>2 DEF Order
        <3> QED
            BY <2>2, <3>1 DEF Ordered
    <2> QED
        BY <1>1, <2>1, <2>2 DEF KeptSubs
<1>3. ASSUME NEW c \in Conns, h.sub[c].state = "open", \A p \in Publishers : c \notin worker[p].overran
      PROVE  Accounted(h.stream[h.sub[c].id], h.sub[c], worker, c)
    <2>1. h.sub[c] = sub[c]
        BY <1>1, <1>3 DEF KeptSubs
    <2>2. sub[c].id \in Ids /\ h.stream[sub[c].id].members # {}
        BY <1>1, <1>3, <2>1 DEF Structure, Members, Allocated
    <2>3. /\ h.stream[sub[c].id].session = stream[sub[c].id].session
          /\ h.stream[sub[c].id].sequence = stream[sub[c].id].sequence
          /\ h.stream[sub[c].id].pending = stream[sub[c].id].pending
        BY <1>1, <2>2 DEF KeptStreams
    <2> QED
        BY <1>3, <2>1, <2>3, AccountFrame
<1> QED
    BY <1>2, <1>3 DEF Account

\* Taking and releasing fanoutMu change no account.
LEMMA MutexAccount ==
    ASSUME StructureInv, Account(stream, sub, worker), NEW p \in Publishers,
           TakeFanout(p) \/ Unlock(p)
    PROVE  Account(stream', sub', worker')
<1>1. /\ worker[p].pc # "idle" /\ sub' = sub
      /\ \E f : stream' = [stream EXCEPT ![worker[p].id].fanout = f]
      /\ worker' = [worker EXCEPT ![p].pc = "pop"] \/ worker' = [worker EXCEPT ![p] = Idle]
      /\ worker[p].pc # "send"
    BY DEF TakeFanout, Unlock
<1>2. /\ worker[p].id \in Ids /\ stream \in [Ids -> StreamType]
      /\ worker \in [Publishers -> WorkerType]
    BY <1>1, BusyWorker DEF StructureInv, Structure, Typed
<1>3. worker[p].todo = {} /\ worker[p].overran = {}
    BY DEF StructureInv, Structure, Drained, TakeFanout, Unlock
<1>4. \A s \in Ids : /\ stream'[s].session = stream[s].session
                     /\ stream'[s].sequence = stream[s].sequence
                     /\ stream'[s].pending = stream[s].pending
    BY <1>1, <1>2 DEF StreamType
<1>5. \A q \in Publishers : /\ worker'[q].todo = worker[q].todo
                            /\ worker'[q].overran = worker[q].overran
                            /\ q # p => worker'[q] = worker[q]
    <2>1. Idle.todo = {} /\ Idle.overran = {}
        BY DEF Idle
    <2>2. CASE worker' = [worker EXCEPT ![p].pc = "pop"]
        BY <1>2, <2>2 DEF WorkerType
    <2>3. CASE worker' = [worker EXCEPT ![p] = Idle]
        BY <1>2, <1>3, <2>1, <2>3
    <2> QED
        BY <1>1, <2>2, <2>3
<1>6. ASSUME NEW c \in Conns, sub[c].state = "open", \A q \in Publishers : c \notin worker'[q].overran
      PROVE  Accounted(stream'[sub[c].id], sub[c], worker', c)
    <2>1. sub[c].id \in Ids /\ \A q \in Publishers : c \notin worker[q].overran
        BY <1>5, <1>6 DEF StructureInv, Structure, Allocated
    <2>2. \A q \in Publishers : /\ c \in worker'[q].todo <=> c \in worker[q].todo
                                /\ c \in worker'[q].todo => worker'[q].item = worker[q].item
        BY <1>3, <1>5
    <2>3. /\ stream'[sub[c].id].session = stream[sub[c].id].session
          /\ stream'[sub[c].id].sequence = stream[sub[c].id].sequence
          /\ stream'[sub[c].id].pending = stream[sub[c].id].pending
        BY <1>4, <2>1
    <2> QED
        BY <1>6, <2>1, <2>2, <2>3, AccountFrame
<1> QED
    BY <1>1, <1>6 DEF Account

\* What a drainer takes from the queue is, for each subscriber it is for, the
\* event after the last one sent.
LEMMA PopAccount ==
    ASSUME StructureInv, Account(stream, sub, worker), NEW p \in Publishers, Pop(p)
    PROVE  Account(stream', sub', worker')
<1> DEFINE s == worker[p].id
           st == stream[s]
           d == st.pending[1]
<1>1. /\ s \in Ids /\ st \in StreamType /\ worker[p].pc = "pop" /\ sub' = sub
      /\ stream \in [Ids -> StreamType] /\ worker \in [Publishers -> WorkerType]
      /\ worker[p].todo = {} /\ worker[p].overran = {}
    BY BusyWorker DEF Pop, StructureInv, Structure, Typed, Drained
<1>2. CASE st.pending = <<>>
    <2>1. stream' = stream /\ worker' = [worker EXCEPT ![p].pc = "unlock"]
        BY <1>2 DEF Pop
    <2>2. \A q \in Publishers : /\ worker'[q].todo = worker[q].todo
                                /\ worker'[q].overran = worker[q].overran
                                /\ worker'[q].item = worker[q].item
        BY <1>1, <2>1 DEF WorkerType
    <2> QED
        BY <1>1, <2>1, <2>2, AccountFrame DEF Account
<1>3. CASE st.pending # <<>>
    <2>1. /\ stream' = [stream EXCEPT ![s].pending = Tail(st.pending)]
          /\ worker' = [worker EXCEPT ![p].pc = "send", ![p].item = Head(st.pending).event,
                                      ![p].todo = Head(st.pending).subs]
        BY <1>3 DEF Pop
    <2>2. Head(st.pending) = d /\ d \in Delivery
        <3>1. st.pending \in Seq(Delivery)
            BY <1>1 DEF StreamType
        <3>2. 1 \in 1 .. Len(st.pending)
            BY <1>3, <3>1, EmptySeq, LenProperties
        <3> QED
            BY <1>3, <3>1, <3>2, HeadTailProperties, ElementOfSeq
    <2>3. /\ stream'[s].pending = Tail(st.pending)
          /\ \A t \in Ids : /\ stream'[t].session = stream[t].session
                            /\ stream'[t].sequence = stream[t].sequence
                            /\ t # s => stream'[t] = stream[t]
        BY <1>1, <2>1 DEF StreamType
    <2>4. /\ worker'[p].todo = d.subs /\ worker'[p].item = d.event /\ worker'[p].overran = {}
          /\ \A q \in Publishers : q # p => worker'[q] = worker[q]
        BY <1>1, <2>1, <2>2 DEF WorkerType
    <2> HIDE DEF d, st, s
    <2>5. ASSUME NEW c \in Conns, sub[c].state = "open",
                 \A q \in Publishers : c \notin worker'[q].overran
          PROVE  Accounted(stream'[sub[c].id], sub[c], worker', c)
        <3>1. sub[c].id \in Ids /\ \A q \in Publishers : c \notin worker[q].overran
            BY <1>1, <2>4, <2>5 DEF StructureInv, Structure, Allocated
        <3>2. CASE sub[c].id # s
            <4>1. c \notin d.subs
                <5>1. 1 \in 1 .. Len(stream[s].pending)
                    BY <1>1, <1>3, EmptySeq, LenProperties DEF StreamType, st
                <5> QED
                    BY <1>1, <2>5, <3>2, <5>1 DEF StructureInv, Structure, Drained, d, st
            <4>2. \A q \in Publishers : /\ c \in worker'[q].todo <=> c \in worker[q].todo
                                        /\ c \in worker'[q].todo => worker'[q].item = worker[q].item
                BY <1>1, <2>4, <4>1
            <4>3. stream'[sub[c].id] = stream[sub[c].id]
                BY <2>3, <3>1, <3>2
            <4> QED
                BY <2>5, <3>1, <4>2, <4>3, AccountFrame
        <3>3. CASE sub[c].id = s
            <4> DEFINE h == \E q \in Publishers : c \in worker[q].todo
                       h2 == \E q \in Publishers : c \in worker'[q].todo
                       n == Due(st, sub[c], h)
            <4>1. Accounted(st, sub[c], worker, c)
                BY <2>5, <3>1, <3>3 DEF Account, st
            <4>2. \A q \in Publishers : c \notin worker[q].todo
                <5> SUFFICES ASSUME NEW q \in Publishers, c \in worker[q].todo
                             PROVE  FALSE
                    OBVIOUS
                <5>1. worker[q].pc = "send" /\ worker[q].id = s
                    BY <2>5, <3>3 DEF StructureInv, Structure, Drained
                <5>2. stream[s].fanout = q /\ stream[s].fanout = p
                    BY <1>1, <5>1 DEF StructureInv, Structure, Drained, s
                <5> QED
                    BY <1>1, <5>1, <5>2
            <4>3. Queued(st, c, n) /\ sub[c].session = st.session
                BY <4>1 DEF Accounted
            <4>4. ~h /\ (h2 <=> c \in d.subs)
                BY <2>4, <4>2
            <4>5. Reach(sub[c]) \in Int /\ st.sequence \in Int
                <5>1. sub[c] \in SubType
                    BY DEF StructureInv, Structure, Typed
                <5>2. Reach(sub[c]) \in Int
                    BY <5>1, SubFields DEF Reach
                <5> QED
                    BY <5>2, <1>1, Constants DEF StreamType
            <4>6. /\ stream'[s].sequence = st.sequence /\ stream'[s].session = st.session
                  /\ stream'[s].pending = Tail(st.pending)
                BY <1>1, <2>3 DEF st
            <4>d. Due(st, sub[c], h) = n
                OBVIOUS
            <4>n. n = st.sequence - Reach(sub[c])
                BY <4>4, <4>5 DEF Due
            <4> HIDE DEF h, h2, n
            <4>7. /\ c \in d.subs => /\ Queued(stream'[s], c, n - 1)
                                     /\ d.event.seq = st.sequence - (n - 1)
                                     /\ d.event.session = st.session
                  /\ c \notin d.subs => Queued(stream'[s], c, n)
                BY <1>1, <1>3, <4>3, <4>6, QueuedTail DEF d
            <4>8. Due(stream'[s], sub[c], h2) = IF c \in d.subs THEN n - 1 ELSE n
                BY <4>n, <4>4, <4>5, <4>6 DEF Due
            <4>9. Queued(stream'[s], c, Due(stream'[s], sub[c], h2))
                BY <4>7, <4>8
            <4>10. c \in d.subs => d.event.seq = Reach(sub[c]) + 1
                BY <4>n, <4>5, <4>7
            <4>11. Held(worker', sub[c], c, stream'[s].session)
                BY <2>4, <4>2, <4>6, <4>7, <4>10 DEF Held
            <4> QED
                BY <3>3, <4>3, <4>6, <4>9, <4>11 DEF Accounted, h2
        <3> QED
            BY <3>2, <3>3
    <2> QED
        BY <1>1, <2>5 DEF Account
<1> QED
    BY <1>2, <1>3

\* One more event in the channel.
LEMMA ReachAppend ==
    ASSUME NEW u \in SubType, NEW v, v.cursor = u.cursor, v.replay = u.replay,
           Len(v.events) = Len(u.events) + 1
    PROVE  Reach(v) = Reach(u) + 1 /\ Reach(u) \in Int
<1>1. u.cursor \in Int /\ Len(u.replay) \in Nat /\ Len(u.events) \in Nat
    BY SubFields
<1>2. Reach(v) = u.cursor + Len(u.replay) + (Len(u.events) + 1)
    BY DEF Reach
<1>3. Reach(u) = u.cursor + Len(u.replay) + Len(u.events)
    BY DEF Reach
<1> QED
    BY <1>1, <1>2, <1>3, SMTT(30)

\* trySend appends to the channel of c, when it is open and has room, the event
\* after the last one sent.
LEMMA SendAccount ==
    ASSUME StructureInv, Order(sub), Account(stream, sub, worker),
           NEW p \in Publishers, NEW c \in Conns, Send(p, c)
    PROVE  Order(sub') /\ Account(stream', sub', worker')
<1> DEFINE u == sub[c]
           e == worker[p].item
           v == [u EXCEPT !.events = Append(u.events, e)]
<1>1. /\ worker[p].pc = "send" /\ c \in worker[p].todo /\ stream' = stream /\ e \in Event
      /\ u \in SubType /\ worker \in [Publishers -> WorkerType] /\ sub \in [Conns -> SubType]
      /\ c \notin worker[p].overran
    BY DEF Send, StructureInv, Structure, Typed, Drained
<1>2. /\ worker'[p].todo = worker[p].todo \ {c} /\ worker'[p].item = e
      /\ worker'[p].overran = IF Full(c) THEN worker[p].overran \cup {c} ELSE worker[p].overran
      /\ \A q \in Publishers : q # p => worker'[q] = worker[q]
    BY <1>1 DEF Send, WorkerType
<1>3. \/ sub' = sub /\ (Full(c) \/ u.state # "open")
      \/ u.state = "open" /\ ~Full(c) /\ sub' = [sub EXCEPT ![c] = v]
    BY DEF Send
<1>4. /\ v.events = Append(u.events, e) /\ v.replay = u.replay /\ v.cursor = u.cursor
      /\ v.session = u.session /\ v.state = u.state /\ v.id = u.id
    BY <1>1 DEF SubType, SubRecord
<1>5. /\ u.replay \in Seq(Event) /\ u.events \in Seq(Event) /\ u.cursor \in Int
      /\ Len(u.replay) \in Nat /\ Len(u.events) \in Nat
    BY <1>1, SubFields
<1> HIDE DEF v, e
<1>6. /\ Len(v.events) = Len(u.events) + 1 /\ v.events[Len(u.events) + 1] = e
      /\ \A i \in 1 .. Len(u.events) : v.events[i] = u.events[i]
    BY <1>1, <1>4, <1>5, AppendProperties
<1>7. Reach(v) = Reach(u) + 1 /\ Reach(u) \in Int
    BY <1>1, <1>4, <1>6, ReachAppend
<1>8. u.state = "open" /\ ~Full(c) =>
         /\ \A q \in Publishers : c \notin worker[q].overran
         /\ \A q \in Publishers : c \in worker[q].todo => q = p
    BY <1>1, OneHolder
<1>9. u.state = "open" /\ ~Full(c) =>
         /\ Accounted(stream[u.id], u, worker, c)
         /\ e.seq = Reach(u) + 1 /\ e.session = u.session
    BY <1>1, <1>8 DEF Account, Accounted, Held, e
<1>10. ASSUME u.state = "open", ~Full(c)
       PROVE  Ordered(v)
    <2>1. Ordered(u)
        BY <1>10 DEF Order
    <2>2. ASSUME NEW i \in 1 .. Len(v.events)
          PROVE  v.events[i].seq = v.cursor + Len(v.replay) + i /\ v.events[i].session = v.session
        <3>1. CASE i = Len(u.events) + 1
            <4>1. v.cursor + Len(v.replay) + i = Reach(u) + 1
                BY <1>6, <1>7, <3>1 DEF Reach
            <4> QED
                BY <4>1, <1>4, <1>6, <1>9, <1>10, <3>1
        <3>2. CASE i # Len(u.events) + 1
            <4>1. i \in 1 .. Len(u.events)
                BY <1>5, <1>6, <3>2
            <4> QED
                BY <4>1, <1>4, <1>6, <2>1 DEF Ordered
        <3> QED
            BY <3>1, <3>2
    <2> QED
        BY <2>1, <2>2, <1>4 DEF Ordered
<1>11. Order(sub')
    <2>1. CASE sub' = sub
        BY <2>1
    <2>2. CASE u.state = "open" /\ ~Full(c) /\ sub' = [sub EXCEPT ![c] = v]
        <3>1. \A x \in Conns : sub'[x] = IF x = c THEN v ELSE sub[x]
            BY <1>1, <2>2
        <3> QED
            BY <1>10, <2>2, <3>1 DEF Order
    <2> QED
        BY <1>3, <2>1, <2>2
<1>12. ASSUME NEW x \in Conns, sub'[x].state = "open",
              \A q \in Publishers : x \notin worker'[q].overran
       PROVE  Accounted(stream'[sub'[x].id], sub'[x], worker', x)
    <2>1. CASE x # c
        <3>1. sub'[x] = sub[x]
            BY <1>1, <1>3, <2>1
        <3>2. \A q \in Publishers : /\ x \notin worker[q].overran
                                    /\ x \in worker'[q].todo <=> x \in worker[q].todo
                                    /\ x \in worker'[q].todo => worker'[q].item = worker[q].item
            BY <1>2, <1>12, <2>1 DEF e
        <3>3. Accounted(stream[sub[x].id], sub[x], worker', x)
            BY <1>12, <3>1, <3>2, AccountFrame
        <3> QED
            BY <1>1, <3>1, <3>3
    <2>2. CASE x = c
        <3>1. u.state = "open" /\ ~Full(c) /\ sub'[c] = v
            BY <1>1, <1>2, <1>3, <1>4, <1>12, <2>2
        <3>2. \A q \in Publishers : c \notin worker'[q].todo
            BY <1>1, <1>2, <1>8, <3>1
        <3> DEFINE st == stream[u.id]
                   h == \E q \in Publishers : c \in worker[q].todo
                   h2 == \E q \in Publishers : c \in worker'[q].todo
        <3>3. h /\ ~h2
            BY <1>1, <3>2
        <3>4. st.session = u.session /\ Queued(st, c, Due(st, u, h))
            BY <1>9, <3>1 DEF Accounted
        <3>5. st.sequence \in Int
            <4>1. u.id \in Ids
                BY <3>1 DEF StructureInv, Structure, Allocated
            <4> QED
                BY <4>1, Constants DEF StructureInv, Structure, Typed, StreamType
        <3> HIDE DEF st, h, h2
        <3>6. Due(st, v, h2) = Due(st, u, h)
            BY <1>7, <3>3, <3>5 DEF Due
        <3>7. Held(worker', v, c, st.session)
            BY <3>2 DEF Held
        <3>8. Accounted(st, v, worker', c)
            BY <1>4, <3>4, <3>6, <3>7 DEF Accounted, h2
        <3> QED
            BY <1>1, <1>4, <2>2, <3>1, <3>8 DEF st
    <2> QED
        BY <2>1, <2>2
<1> QED
    BY <1>11, <1>12 DEF Account

\* The overrun subscribers that are still open are all in their stream, so the
\* marking closes each of them: none goes on with a hole in what it reads.
LEMMA MarkAccount ==
    ASSUME StructureInv, Order(sub), Account(stream, sub, worker), NEW p \in Publishers,
           MarkOverruns(p)
    PROVE  Order(sub') /\ Account(stream', sub', worker')
<1> DEFINE s == worker[p].id
           lost == worker[p].overran \cap stream[s].members
<1>1. /\ worker[p].pc = "mark" /\ s \in Ids
      /\ stream' = [stream EXCEPT ![s].members = @ \ lost]
      /\ sub' = CloseAll(sub, lost, "subscriber_overrun")
      /\ worker' = [worker EXCEPT ![p].pc = "pop", ![p].overran = {}]
      /\ stream \in [Ids -> StreamType] /\ worker \in [Publishers -> WorkerType]
    BY BusyWorker DEF MarkOverruns, StructureInv, Structure, Typed
<1>2. \A t \in Ids : /\ stream'[t].session = stream[t].session
                     /\ stream'[t].sequence = stream[t].sequence
                     /\ stream'[t].pending = stream[t].pending
    BY <1>1 DEF StreamType
<1>3. /\ worker'[p].overran = {}
      /\ \A q \in Publishers : /\ worker'[q].todo = worker[q].todo
                               /\ worker'[q].item = worker[q].item
                               /\ q # p => worker'[q] = worker[q]
    BY <1>1 DEF WorkerType
<1>4. \A c \in Conns : sub'[c] = IF c \in lost THEN Close(sub[c], "subscriber_overrun") ELSE sub[c]
    BY <1>1 DEF CloseAll
<1>5. \A c \in Conns : c \in lost => sub'[c].state # "open"
    BY <1>4, CloseKeepsType DEF StructureInv, Structure, Typed, Reasons
<1>6. Order(sub')
    <2> SUFFICES ASSUME NEW c \in Conns, sub'[c].state # "free"
                 PROVE  Ordered(sub'[c])
        BY DEF Order
    <2>1. /\ sub[c].state # "free" /\ sub'[c].session = sub[c].session
          /\ sub'[c].cursor = sub[c].cursor /\ sub'[c].replay = sub[c].replay
          /\ sub'[c].events = sub[c].events
        BY <1>4, CloseKeepsType DEF StructureInv, Structure, Typed, Reasons
    <2>2. Ordered(sub[c])
        BY <2>1 DEF Order
    <2> QED
        BY <2>1, <2>2 DEF Ordered
<1>7. ASSUME NEW c \in Conns, sub'[c].state = "open",
             \A q \in Publishers : c \notin worker'[q].overran
      PROVE  Accounted(stream'[sub'[c].id], sub'[c], worker', c)
    <2>1. sub'[c] = sub[c] /\ c \notin lost
        BY <1>4, <1>5, <1>7
    <2>2. c \notin worker[p].overran
        BY <1>7, <2>1 DEF StructureInv, Structure, Drained, Members
    <2>3. sub[c].id \in Ids /\ \A q \in Publishers : c \notin worker[q].overran
        BY <1>3, <1>7, <2>1, <2>2 DEF StructureInv, Structure, Allocated
    <2>4. /\ stream'[sub[c].id].session = stream[sub[c].id].session
          /\ stream'[sub[c].id].sequence = stream[sub[c].id].sequence
          /\ stream'[sub[c].id].pending = stream[sub[c].id].pending
        BY <1>2, <2>3
    <2>5. \A q \in Publishers : /\ c \in worker'[q].todo <=> c \in worker[q].todo
                                /\ c \in worker'[q].todo => worker'[q].item = worker[q].item
        BY <1>3
    <2> HIDE DEF lost
    <2> QED
        BY <1>7, <2>1, <2>3, <2>4, <2>5, AccountFrame
<1> QED
    BY <1>6, <1>7 DEF Account

\* A reader that takes the next event, and steps that close or free readers,
\* keep the order and the account.
LEMMA ReaderAccount ==
    ASSUME StructureInv, StructureInv', Order(sub), Account(stream, sub, worker), NEW c \in Conns,
           Receive(c) \/ Stop(c) \/ Leave(c)
    PROVE  Order(sub') /\ Account(stream', sub', worker')
<1>1. /\ sub \in [Conns -> SubType] /\ sub' \in [Conns -> SubType]
      /\ stream' = stream /\ worker' = worker
    BY DEF StructureInv, Structure, Typed, Receive, Stop, Leave
<1>2. \A x \in Conns : x # c => sub'[x] = sub[x]
    BY <1>1 DEF Receive, Stop, Leave
<1>3. \/ sub'[c].state = "free"
      \/ /\ sub[c].state # "free" /\ sub'[c].state = sub[c].state
         /\ Ordered(sub'[c]) /\ Reach(sub'[c]) = Reach(sub[c])
         /\ sub'[c].id = sub[c].id /\ sub'[c].session = sub[c].session
    <2>1. CASE Receive(c)
        <3> DEFINE u == sub[c]
                   v == sub'[c]
        <3>1. /\ u \in SubType /\ v \in SubType /\ u.state # "free"
            BY <1>1, <2>1 DEF Receive
        <3>2. \/ /\ u.replay # <<>>
                 /\ v = [u EXCEPT !.replay = Tail(u.replay), !.cursor = Head(u.replay).seq]
              \/ /\ u.replay = <<>> /\ u.events # <<>>
                 /\ v = [u EXCEPT !.events = Tail(u.events), !.cursor = Head(u.events).seq]
            BY <1>1, <2>1 DEF Receive
        <3>3. Ordered(u)
            BY <3>1 DEF Order
        <3>4. v.state = u.state /\ v.id = u.id /\ v.session = u.session
            BY <3>1, <3>2 DEF SubType, SubRecord
        <3> HIDE DEF u, v
        <3>5. Ordered(v) /\ Reach(v) = Reach(u)
            BY <3>1, <3>2, <3>3, ReadNext
        <3> QED
            BY <3>1, <3>4, <3>5 DEF u, v
    <2>2. CASE Stop(c)
        BY <1>1, <2>2 DEF Stop, NoSub
    <2>3. CASE Leave(c)
        <3> DEFINE u == sub[c]
                   v == sub'[c]
        <3>1. u \in SubType /\ u.state # "free" /\ v = [u EXCEPT !.gone = TRUE]
            BY <1>1, <2>3 DEF Leave
        <3>2. /\ v.state = u.state /\ v.id = u.id /\ v.session = u.session
              /\ v.cursor = u.cursor /\ v.replay = u.replay /\ v.events = u.events
            BY <3>1 DEF SubType, SubRecord
        <3>3. Ordered(u)
            BY <3>1 DEF Order
        <3> HIDE DEF u, v
        <3>4. Ordered(v) /\ Reach(v) = Reach(u)
            BY <3>2, <3>3 DEF Ordered, Reach
        <3> QED
            BY <3>1, <3>2, <3>4 DEF u, v
    <2> QED
        BY <2>1, <2>2, <2>3
<1>4. Order(sub')
    BY <1>2, <1>3 DEF Order
<1>5. ASSUME NEW x \in Conns, sub'[x].state = "open", \A q \in Publishers : x \notin worker[q].overran
      PROVE  Accounted(stream[sub'[x].id], sub'[x], worker, x)
    <2>1. /\ sub[x].state = "open" /\ Reach(sub'[x]) = Reach(sub[x])
          /\ sub'[x].id = sub[x].id /\ sub'[x].session = sub[x].session
        BY <1>2, <1>3, <1>5
    <2> QED
        BY <1>5, <2>1, AccountFrame
<1> QED
    BY <1>1, <1>4, <1>5 DEF Account

\* removeSubscriber keeps the order and the account of the others.
LEMMA RemoveAccount ==
    ASSUME StructureInv, Order(sub), Account(stream, sub, worker), NEW c \in Conns,
           RemoveSubscriber(c)
    PROVE  Order(sub') /\ Account(stream', sub', worker')
<1> DEFINE s == table[sub[c].agent]
<1>1. /\ sub \in [Conns -> SubType] /\ stream \in [Ids -> StreamType] /\ worker' = worker
      /\ sub' = [sub EXCEPT ![c] = NoSub]
      /\ \/ stream' = stream
         \/ \E m : stream' = [stream EXCEPT ![s].members = m, ![s].last = clock]
    BY DEF StructureInv, Structure, Typed, RemoveSubscriber
<1> HIDE DEF s
<1>2. sub'[c].state = "free" /\ \A x \in Conns : x # c => sub'[x] = sub[x]
    BY <1>1 DEF NoSub
<1>3. \A t \in Ids : /\ stream'[t].session = stream[t].session
                     /\ stream'[t].sequence = stream[t].sequence
                     /\ stream'[t].pending = stream[t].pending
    <2>1. CASE stream' = stream
        BY <2>1
    <2>2. ASSUME NEW m, stream' = [stream EXCEPT ![s].members = m, ![s].last = clock]
          PROVE  \A t \in Ids : /\ stream'[t].session = stream[t].session
                                /\ stream'[t].sequence = stream[t].sequence
                                /\ stream'[t].pending = stream[t].pending
        BY <1>1, <2>2, MembersOnly
    <2> QED
        BY <1>1, <2>1, <2>2
<1>4. Order(sub')
    BY <1>2 DEF Order
<1>5. ASSUME NEW x \in Conns, sub'[x].state = "open", \A q \in Publishers : x \notin worker[q].overran
      PROVE  Accounted(stream'[sub'[x].id], sub'[x], worker, x)
    <2>1. sub'[x] = sub[x] /\ sub[x].state = "open" /\ sub[x].id \in Ids
        BY <1>2, <1>5 DEF StructureInv, Structure, Allocated
    <2>2. /\ stream'[sub[x].id].session = stream[sub[x].id].session
          /\ stream'[sub[x].id].sequence = stream[sub[x].id].sequence
          /\ stream'[sub[x].id].pending = stream[sub[x].id].pending
        BY <1>3, <2>1
    <2> QED
        BY <1>5, <2>1, <2>2, AccountFrame
<1> QED
    BY <1>1, <1>4, <1>5 DEF Account

\* A new subscriber starts at its cursor: its replay reaches up to the sequence,
\* and nothing in the queue is for it.
LEMMA SubscribeAccount ==
    ASSUME StructureInv, Rings(stream), Order(sub), Account(stream, sub, worker),
           NEW c \in Conns, NEW a \in Agents, NEW x \in Ids \cup {0},
           NEW after \in -1 .. MaxSeq, Subscribe(c, a, x, after)
    PROVE  Order(sub') /\ Account(stream', sub', worker')
<1>1. PICK h \in Ensured(a) :
         IF h.id = 0 \/ Refusal(h.stream[h.id], x, after) # ""
            THEN stream' = h.stream /\ sub' = h.sub
            ELSE LET st == h.stream[h.id]
                 IN  /\ stream' = [h.stream EXCEPT ![h.id].members = @ \cup {c},
                                                   ![h.id].last = clock]
                     /\ sub' = [h.sub EXCEPT ![c] =
                           [NoSub EXCEPT
                               !.state = "open", !.agent = a, !.id = h.id,
                               !.session = st.session,
                               !.cursor = IF after >= 0 THEN after ELSE st.sequence,
                               !.replay = IF after >= 0 THEN After(st.ring, after) ELSE <<>>]]
    BY DEF Subscribe
<1>2. /\ sub[c].state = "free" /\ c \notin Referenced /\ worker' = worker
    BY DEF Subscribe
<1>3. /\ Structure(h.table, h.stream, h.sub, worker, h.issued)
      /\ h.id # 0 => h.id \in Ids
      /\ KeptStreams(stream, h.stream) /\ KeptSubs(sub, h.sub)
    BY EnsuredStructure
<1>4. Order(h.sub) /\ Account(h.stream, h.sub, worker)
    BY EnsuredAccount
<1>5. CASE h.id = 0 \/ Refusal(h.stream[h.id], x, after) # ""
    BY <1>1, <1>2, <1>4, <1>5
<1>6. CASE ~ (h.id = 0 \/ Refusal(h.stream[h.id], x, after) # "")
    <2> DEFINE id == h.id
               st == h.stream[id]
               cursor == IF after >= 0 THEN after ELSE st.sequence
               replay == IF after >= 0 THEN After(st.ring, after) ELSE <<>>
               u == [NoSub EXCEPT !.state = "open", !.agent = a, !.id = id,
                                  !.session = st.session, !.cursor = cursor, !.replay = replay]
    <2>1. /\ stream' = [h.stream EXCEPT ![id].members = @ \cup {c}, ![id].last = clock]
          /\ sub' = [h.sub EXCEPT ![c] = u]
        BY <1>1, <1>6
    <2>2. /\ id \in Ids /\ st \in StreamType /\ h.stream \in [Ids -> StreamType]
          /\ h.sub \in [Conns -> SubType]
        BY <1>3, <1>6 DEF Structure, Typed
    <2>3. GapFree(st)
        BY <1>3, <2>2, KeptRings DEF Rings
    <2>4. /\ u.id = id /\ u.session = st.session /\ u.cursor = cursor /\ u.replay = replay
          /\ u.events = <<>> /\ u.state = "open"
        BY DEF NoSub
    <2>5. /\ st.sequence \in Nat /\ st.ring \in Seq(Event)
        BY <2>2, Constants DEF StreamType
    <2>6. /\ replay \in Seq(Event) /\ cursor \in Int /\ cursor + Len(replay) = st.sequence
          /\ \A i \in 1 .. Len(replay) : /\ replay[i].seq = cursor + i
                                         /\ replay[i].session = st.session
        <3>1. CASE after >= 0
            <4>1. Refusal(st, x, after) = ""
                BY <1>6
            <4>2. ~ (after > st.sequence) /\ ~ (st.ring # <<>> /\ after < st.ring[1].seq - 1)
                BY <3>1, <4>1 DEF Refusal
            <4>3. after \in Int /\ (st.ring # <<>> => st.ring[1].seq \in Int)
                <5>1. st.ring # <<>> => 1 \in 1 .. Len(st.ring)
                    BY <2>5, EmptySeq, LenProperties
                <5>2. st.ring # <<>> => st.ring[1] \in Event
                    BY <2>5, <5>1, ElementOfSeq
                <5> QED
                    BY <5>2, Constants DEF Event
            <4>4. after \in 0 .. st.sequence /\ (st.ring # <<>> => after >= st.ring[1].seq - 1)
                BY <2>5, <3>1, <4>2, <4>3
            <4>5. cursor = after /\ replay = After(st.ring, after)
                BY <3>1
            <4> HIDE DEF st, cursor, replay
            <4>6. /\ After(st.ring, after) \in Seq(Event)
                  /\ after + Len(After(st.ring, after)) = st.sequence
                  /\ \A i \in 1 .. Len(After(st.ring, after)) :
                        /\ After(st.ring, after)[i].seq = after + i
                        /\ After(st.ring, after)[i].session = st.session
                BY <2>2, <2>3, <4>3, <4>4, AfterFacts
            <4> QED
                BY <4>3, <4>5, <4>6
        <3>2. CASE ~ (after >= 0)
            <4>1. cursor = st.sequence /\ replay = <<>>
                BY <3>2
            <4>2. <<>> \in Seq(Event) /\ Len(<<>>) = 0
                BY EmptySeq
            <4> HIDE DEF cursor, replay, st
            <4> QED
                BY <2>5, <4>1, <4>2
        <3> QED
            BY <3>1, <3>2
    <2>7. \A q \in Publishers : c \notin worker[q].todo \cup worker[q].overran
        BY <1>2 DEF Referenced
    <2>8. ASSUME NEW i \in 1 .. Len(st.pending)
          PROVE  c \notin st.pending[i].subs
        <3>1. st.pending = stream[id].pending
            BY <1>3, <2>2, <2>8, EmptySeq DEF KeptStreams
        <3>2. stream[id].pending \in Seq(Delivery)
            BY <2>2 DEF StructureInv, Structure, Typed, StreamType
        <3>3. i \in DOMAIN stream[id].pending
            BY <3>1, <3>2, LenProperties
        <3> QED
            BY <3>1, <3>3, <2>2, <1>2 DEF Referenced
    <2>9. \A t \in Ids : /\ stream'[t].session = h.stream[t].session
                         /\ stream'[t].sequence = h.stream[t].sequence
                         /\ stream'[t].pending = h.stream[t].pending
        BY <2>1, <2>2, MembersOnly
    <2> HIDE DEF u, id, cursor, replay
    <2>10. \A y \in Conns : sub'[y] = IF y = c THEN u ELSE h.sub[y]
        BY <2>1, <2>2
    <2>11. Ordered(u)
        BY <2>4, <2>6, EmptySeq DEF Ordered
    <2>12. Order(sub')
        BY <1>4, <2>10, <2>11 DEF Order
    <2>13. Accounted(stream'[id], u, worker, c)
        <3> DEFINE r == stream'[id]
        <3>1. r.session = st.session /\ r.sequence = st.sequence /\ r.pending = st.pending
            BY <2>2, <2>9
        <3>2. st.pending \in Seq(Delivery) /\ Len(st.pending) \in Nat
            BY <2>2, LenProperties DEF StreamType
        <3> HIDE DEF r, st
        <3>3. Reach(u) = st.sequence
            <4>1. Len(u.events) = 0
                BY <2>4, EmptySeq
            <4>2. Len(replay) \in Nat
                BY <2>6, LenProperties
            <4> QED
                BY <2>4, <2>6, <4>1, <4>2 DEF Reach
        <3>4. Due(r, u, \E q \in Publishers : c \in worker[q].todo) = 0
            BY <2>5, <2>7, <3>1, <3>3 DEF Due
        <3>5. Queued(r, c, 0)
            BY <2>8, <3>1, <3>2 DEF Queued
        <3>6. Held(worker, u, c, r.session)
            BY <2>7 DEF Held
        <3> QED
            BY <2>4, <3>1, <3>4, <3>5, <3>6 DEF Accounted, r
    <2>14. ASSUME NEW y \in Conns, sub'[y].state = "open",
                  \A q \in Publishers : y \notin worker[q].overran
           PROVE  Accounted(stream'[sub'[y].id], sub'[y], worker, y)
        <3>1. CASE y = c
            BY <2>4, <2>10, <2>13, <3>1
        <3>2. CASE y # c
            <4>1. sub'[y] = h.sub[y]
                BY <2>10, <3>2
            <4>2. h.sub[y].state = "open" /\ h.sub[y].id \in Ids
                BY <1>3, <2>14, <4>1 DEF Structure, Allocated
            <4>3. /\ stream'[h.sub[y].id].session = h.stream[h.sub[y].id].session
                  /\ stream'[h.sub[y].id].sequence = h.stream[h.sub[y].id].sequence
                  /\ stream'[h.sub[y].id].pending = h.stream[h.sub[y].id].pending
                BY <2>9, <4>2
            <4> QED
                BY <1>4, <2>14, <4>1, <4>2, <4>3, AccountFrame
        <3> QED
            BY <3>1, <3>2
    <2> QED
        BY <1>2, <2>12, <2>14 DEF Account
<1> QED
    BY <1>5, <1>6

\* Publishing starts no delivery by itself.
LEMMA EnqueueHands ==
    ASSUME StructureInv, NEW p \in Publishers, worker[p].pc = "idle", NEW st, NEW id,
           Enqueue(p, st, id)
    PROVE  \A q \in Publishers : /\ worker'[q].todo = worker[q].todo
                                 /\ worker'[q].overran = worker[q].overran
                                 /\ worker'[q].todo # {} => worker'[q] = worker[q]
<1>1. /\ worker \in [Publishers -> WorkerType] /\ worker[p].todo = {} /\ worker[p].overran = {}
    BY DEF StructureInv, Structure, Typed, Drained
<1>2. PICK w : /\ w = Idle \/ w = [Idle EXCEPT !.pc = "lock", !.id = id]
               /\ worker' = [worker EXCEPT ![p] = w]
    BY DEF Enqueue
<1>3. w.todo = {} /\ w.overran = {}
    <2>1. CASE w = Idle
        BY <2>1 DEF Idle
    <2>2. CASE w = [Idle EXCEPT !.pc = "lock", !.id = id]
        BY <2>2 DEF Idle
    <2> QED
        BY <1>2, <2>1, <2>2
<1> QED
    BY <1>1, <1>2, <1>3

\* An event joins the queue of every open subscriber of its stream, or wraps
\* the sequence and closes them all.
LEMMA PublishAccount ==
    ASSUME StructureInv, Order(sub), Account(stream, sub, worker),
           NEW p \in Publishers, NEW a \in Agents, NEW kind \in Kinds,
           NEW size \in Sizes, Publish(p, a, kind, size)
    PROVE  Order(sub') /\ Account(stream', sub', worker')
<1>1. PICK h \in Ensured(a) :
        \/ UNCHANGED <<stream, sub, worker>>
        \/ /\ h.id # 0
           /\ h.stream[h.id].sequence < MaxSeq
           /\ \E k \in EvictCounts(Append(h.stream[h.id].ring,
                                          NextEvent(h.stream[h.id], kind, size))) :
                 stream' = [h.stream EXCEPT ![h.id] =
                              Admit(h.stream[h.id], NextEvent(h.stream[h.id], kind, size), k)]
           /\ Enqueue(p, h.stream[h.id], h.id)
           /\ sub' = h.sub
        \/ /\ h.id # 0
           /\ \E r : stream' = [h.stream EXCEPT ![h.id] = r]
           /\ \E st : Enqueue(p, st, h.id)
           /\ sub' = CloseAll(h.sub, h.stream[h.id].members, "session_mismatch")
    BY DEF Publish
<1>2. /\ Structure(h.table, h.stream, h.sub, worker, h.issued)
      /\ h.id # 0 => h.id \in Ids /\ h.stream[h.id].session # 0
    BY EnsuredStructure
<1>3. /\ Order(h.sub) /\ Account(h.stream, h.sub, worker)
      /\ worker[p].pc = "idle" /\ clock \in 0 .. MaxClock
    BY EnsuredAccount DEF Publish, StructureInv
<1>4. /\ h.stream \in [Ids -> StreamType] /\ h.sub \in [Conns -> SubType]
      /\ \A c \in Conns : h.sub[c].state = "open" => /\ h.sub[c].id \in Ids
                                                     /\ c \in h.stream[h.sub[c].id].members
    BY <1>2 DEF Structure, Typed, Allocated, Members
<1>5. CASE UNCHANGED <<stream, sub, worker>>
    BY <1>5
<1>6. ASSUME h.id # 0,
             \A q \in Publishers : /\ worker'[q].todo = worker[q].todo
                                   /\ worker'[q].overran = worker[q].overran
                                   /\ worker'[q].todo # {} => worker'[q] = worker[q],
             \E r : stream' = [h.stream EXCEPT ![h.id] = r],
             NEW c \in Conns, h.sub[c].state = "open", h.sub[c].id # h.id,
             \A q \in Publishers : c \notin worker'[q].overran
      PROVE  Accounted(stream'[h.sub[c].id], h.sub[c], worker', c)
    <2>1. stream'[h.sub[c].id] = h.stream[h.sub[c].id]
        <3>1. PICK r : stream' = [h.stream EXCEPT ![h.id] = r]
            BY <1>6
        <3> QED
            BY <1>4, <1>6, <3>1
    <2>2. \A q \in Publishers : /\ c \in worker'[q].todo <=> c \in worker[q].todo
                                /\ c \in worker'[q].todo => worker'[q].item = worker[q].item
        BY <1>6
    <2>3. h.sub[c].state = "open" /\ \A q \in Publishers : c \notin worker[q].overran
        BY <1>6
    <2> QED
        BY <1>3, <2>1, <2>2, <2>3, AccountFrame
<1>7. ASSUME h.id # 0, h.stream[h.id].sequence < MaxSeq,
             NEW k \in EvictCounts(Append(h.stream[h.id].ring,
                                          NextEvent(h.stream[h.id], kind, size))),
             stream' = [h.stream EXCEPT ![h.id] =
                          Admit(h.stream[h.id], NextEvent(h.stream[h.id], kind, size), k)],
             Enqueue(p, h.stream[h.id], h.id), sub' = h.sub
      PROVE  Order(sub') /\ Account(stream', sub', worker')
    <2> DEFINE id == h.id
               st == h.stream[id]
               e == NextEvent(st, kind, size)
               r == Admit(st, e, k)
               d == [event |-> e, subs |-> st.members]
    <2>1. \A q \in Publishers : /\ worker'[q].todo = worker[q].todo
                                /\ worker'[q].overran = worker[q].overran
                                /\ worker'[q].todo # {} => worker'[q] = worker[q]
        BY <1>3, <1>7, EnqueueHands
    <2>2. id \in Ids /\ st \in StreamType /\ st.session # 0
        BY <1>2, <1>4, <1>7
    <2>3. /\ e \in Event /\ r \in StreamType /\ r.session = st.session
          /\ r.sequence = st.sequence + 1
          /\ st.members # {} => r.pending = Append(st.pending, d)
        BY <1>3, <1>7, <2>2, AdmitType, SMTT(20)
    <2>4. e.session = st.session /\ e.seq = st.sequence + 1
        BY DEF NextEvent
    <2> HIDE DEF e, r
    <2>5. d \in Delivery /\ d.event = e /\ d.subs = st.members
        BY <2>2, <2>3 DEF Delivery, StreamType
    <2>6. stream' = [h.stream EXCEPT ![id] = r]
        BY <1>7 DEF r, e
    <2> HIDE DEF d, st
    <2>7. stream'[id] = r
        BY <1>4, <2>2, <2>6
    <2>8. ASSUME NEW c \in Conns, h.sub[c].state = "open",
                 \A q \in Publishers : c \notin worker'[q].overran
          PROVE  Accounted(stream'[h.sub[c].id], h.sub[c], worker', c)
        <3>1. CASE h.sub[c].id # h.id
            BY <1>6, <1>7, <2>1, <2>6, <2>8, <3>1
        <3>2. CASE h.sub[c].id = h.id
            <4>1. c \in st.members
                BY <1>4, <2>8, <3>2 DEF st
            <4>2. Accounted(st, h.sub[c], worker, c)
                BY <1>3, <2>1, <2>8, <3>2 DEF Account, st
            <4>3. Accounted(st, h.sub[c], worker', c)
                <5>1. \A q \in Publishers : /\ c \in worker'[q].todo <=> c \in worker[q].todo
                                            /\ c \in worker'[q].todo => worker'[q].item = worker[q].item
                    BY <2>1
                <5> QED
                    BY <4>2, <5>1, AccountedSame
            <4>4. h.sub[c] \in SubType
                BY <1>4
            <4>5. c \in d.subs /\ r.pending = Append(st.pending, d) /\ d.event.seq = r.sequence
                  /\ d.event.session = st.session
                BY <2>3, <2>4, <2>5, <4>1
            <4>6. Accounted(r, h.sub[c], worker', c)
                BY <2>2, <2>3, <2>5, <4>3, <4>4, <4>5, AccountedAdmit
            <4> QED
                BY <2>7, <3>2, <4>6
        <3> QED
            BY <3>1, <3>2
    <2> QED
        BY <1>3, <1>7, <2>8 DEF Account
<1>8. CASE /\ h.id # 0
           /\ \E r : stream' = [h.stream EXCEPT ![h.id] = r]
           /\ \E st : Enqueue(p, st, h.id)
           /\ sub' = CloseAll(h.sub, h.stream[h.id].members, "session_mismatch")
    <2>1. \A q \in Publishers : /\ worker'[q].todo = worker[q].todo
                                /\ worker'[q].overran = worker[q].overran
                                /\ worker'[q].todo # {} => worker'[q] = worker[q]
        BY <1>3, <1>8, EnqueueHands
    <2>2. ASSUME NEW c \in Conns
          PROVE  /\ sub'[c].state # "free" => h.sub[c].state # "free"
                 /\ sub'[c].session = h.sub[c].session /\ sub'[c].cursor = h.sub[c].cursor
                 /\ sub'[c].replay = h.sub[c].replay /\ sub'[c].events = h.sub[c].events
                 /\ sub'[c].state = "open" => sub'[c] = h.sub[c] /\ h.sub[c].id # h.id
        <3>1. sub'[c] = IF c \in h.stream[h.id].members
                        THEN Close(h.sub[c], "session_mismatch") ELSE h.sub[c]
            BY <1>8 DEF CloseAll
        <3> QED
            BY <1>4, <3>1, CloseKeepsType DEF Reasons
    <2>3. Order(sub')
        <3> SUFFICES ASSUME NEW c \in Conns, sub'[c].state # "free"
                     PROVE  Ordered(sub'[c])
            BY DEF Order
        <3>1. Ordered(h.sub[c])
            BY <1>3, <2>2 DEF Order
        <3> QED
            BY <2>2, <3>1 DEF Ordered
    <2>4. ASSUME NEW c \in Conns, sub'[c].state = "open",
                 \A q \in Publishers : c \notin worker'[q].overran
          PROVE  Accounted(stream'[sub'[c].id], sub'[c], worker', c)
        <3>1. sub'[c] = h.sub[c] /\ h.sub[c].state = "open" /\ h.sub[c].id # h.id
            BY <2>2, <2>4
        <3>2. Accounted(stream'[h.sub[c].id], h.sub[c], worker', c)
            BY <1>6, <1>8, <2>1, <2>4, <3>1
        <3> QED
            BY <3>1, <3>2
    <2> QED
        BY <2>3, <2>4 DEF Account
<1> QED
    BY <1>1, <1>3, <1>5, <1>7, <1>8

-----------------------------------------------------------------------------
DeliveryInv == SafeInv /\ Order(sub) /\ Account(stream, sub, worker)

\* Every step keeps the account.
LEMMA DeliveryStep ==
    ASSUME DeliveryInv, [Next]_vars
    PROVE  DeliveryInv'
<1>1. /\ StructureInv /\ Rings(stream) /\ Order(sub) /\ Account(stream, sub, worker)
    BY DEF DeliveryInv, SafeInv
<1>2. StructureInv'
    BY <1>1, StructureStep
<1>3. SafeInv'
    <2>1. ASSUME UNCHANGED vars PROVE Rings(stream)'
        BY <1>1, <2>1 DEF vars
    <2>2. ASSUME Next PROVE Rings(stream)'
        BY <1>1, <2>2, RingsStep DEF Rings
    <2> QED
        BY <1>2, <2>1, <2>2 DEF SafeInv
<1>4. ASSUME NEW p \in Publishers, Fanout(p)
      PROVE  Order(sub') /\ Account(stream', sub', worker')
    <2>1. TakeFanout(p) \/ Pop(p) \/ Unlock(p) => sub' = sub
        BY DEF TakeFanout, Pop, Unlock
    <2> QED
        BY <1>1, <1>4, <2>1, MutexAccount, PopAccount, SendAccount, MarkAccount DEF Fanout
<1>5. ASSUME NEW c \in Conns, NEW a \in Agents, NEW cur \in Cursors,
             Subscribe(c, a, cur[1], cur[2])
      PROVE  Order(sub') /\ Account(stream', sub', worker')
    <2>1. cur[1] \in Ids \cup {0} /\ cur[2] \in -1 .. MaxSeq
        BY Constants DEF Cursors
    <2> QED
        BY <1>1, <1>5, <2>1, SubscribeAccount
<1>6. ASSUME NEW a \in Agents, Watermark(a)
      PROVE  Order(sub') /\ Account(stream', sub', worker')
    <2>1. PICK h \in Ensured(a) : stream' = h.stream /\ sub' = h.sub /\ worker' = worker
        BY <1>6 DEF Watermark
    <2> QED
        BY <1>1, <2>1, EnsuredAccount
<1>7. ASSUME Sweep \/ Tick \/ UNCHANGED vars
      PROVE  Order(sub') /\ Account(stream', sub', worker')
    BY <1>1, <1>7 DEF Sweep, Tick, vars
<1>8. ASSUME NEW c \in Conns, Receive(c) \/ Stop(c) \/ Leave(c) \/ RemoveSubscriber(c)
      PROVE  Order(sub') /\ Account(stream', sub', worker')
    BY <1>1, <1>2, <1>8, ReaderAccount, RemoveAccount
<1>9. ASSUME NEW p \in Publishers, NEW a \in Agents, NEW kind \in Kinds, NEW size \in Sizes,
             Publish(p, a, kind, size)
      PROVE  Order(sub') /\ Account(stream', sub', worker')
    BY <1>1, <1>9, PublishAccount
<1>10. Order(sub') /\ Account(stream', sub', worker')
    BY <1>4, <1>5, <1>6, <1>7, <1>8, <1>9 DEF Next
<1> QED
    BY <1>3, <1>10 DEF DeliveryInv, Order, Account

\* The invariant of the deliveries.
LEMMA DeliveryInvariant == Spec => []DeliveryInv
<1>1. Init => Order(sub) /\ Account(stream, sub, worker)
    <2>1. \A c \in Conns : NoSub.state = "free"
        BY DEF NoSub
    <2> QED
        BY <2>1 DEF Init, Order, Account, NoSub
<1>2. SafeInv /\ Init => DeliveryInv
    BY <1>1 DEF DeliveryInv
<1>3. DeliveryInv /\ [Next]_vars => DeliveryInv'
    BY DeliveryStep
<1> QED
    BY <1>2, <1>3, SafeInvariant, PTL DEF Spec

\* Whatever a subscriber can read next is the event after the last one it read,
\* for every number of publishers and every size of the buffers.
THEOREM DeliveredInOrderHolds == Spec => []DeliveredInOrder
<1>1. DeliveryInv => DeliveredInOrder
    BY OrderIsDelivered DEF DeliveryInv
<1> QED
    BY <1>1, DeliveryInvariant, PTL

\* A subscriber that is open, and not about to be marked overrun, loses nothing
\* between its cursor and the sequence of its stream.
THEOREM NothingLostHolds == Spec => []NothingLost
<1>1. DeliveryInv => NothingLost
    BY AccountIsNothingLost DEF DeliveryInv
<1> QED
    BY <1>1, DeliveryInvariant, PTL

-----------------------------------------------------------------------------
(* The refinement. A session lives in one stream at a time, and a reader   *)
(* never reaches past the log of its session: that of the stream the       *)
(* session is current in, or the full log a wrap left behind.              *)

\* LogLength, of a view.
LogOf(S, N, x) ==
    IF \E s \in Ids : S[s].session = x
    THEN S[CHOOSE s \in Ids : S[s].session = x].sequence
    ELSE IF x <= N THEN MaxSeq ELSE 0

\* No two streams have a session in common.
Apart(S) == \A s, t \in Ids : S[s].session # 0 /\ S[s].session = S[t].session => s = t

\* A free subscriber follows no session, and another one reaches at most to the
\* end of the log of its own.
Fed(S, N, u) ==
    /\ u.state = "free" => u.session = 0 /\ u.cursor = 0
    /\ u.state # "free" => u.session \in 1 .. N /\ Reach(u) <= LogOf(S, N, u.session)

Within(S, U, N) == \A c \in Conns : Fed(S, N, U[c])

\* What the proofs about the logs need to know of a view.
Issued(S, N) ==
    /\ S \in [Ids -> StreamType] /\ N \in 0 .. MaxSessions
    /\ \A s \in Ids : S[s].session <= N

SameLogs(S, N, S2, N2) == \A x \in Ids : LogOf(S2, N2, x) = LogOf(S, N, x)

\* The log of y, and no other, has one more event.
OneMore(S, N, S2, N2, y) ==
    /\ LogOf(S, N, y) < MaxSeq
    /\ \A x \in Ids : LogOf(S2, N2, x) = IF x = y THEN LogOf(S, N, x) + 1 ELSE LogOf(S, N, x)

\* The streams other than id keep their session and their sequence.
Others(S, S2, id) ==
    \A s \in Ids : s # id => S2[s].session = S[s].session /\ S2[s].sequence = S[s].sequence

\* A step that the reader of u does not see.
Quiet(u, v) ==
    \/ v = u
    \/ /\ u.state # "free" /\ v.state # "free"
       /\ v.session = u.session /\ v.cursor = u.cursor /\ Reach(v) = Reach(u)

LEMMA LogFacts ==
    ASSUME NEW S, NEW N, Issued(S, N), Apart(S), NEW x \in Ids
    PROVE  /\ \A s \in Ids : S[s].session = x => LogOf(S, N, x) = S[s].sequence
           /\ (\A s \in Ids : S[s].session # x) => LogOf(S, N, x) = IF x <= N THEN MaxSeq ELSE 0
           /\ LogOf(S, N, x) \in 0 .. MaxSeq
<1>1. x # 0
    BY DEF Ids
<1>2. ASSUME NEW s \in Ids, S[s].session = x PROVE LogOf(S, N, x) = S[s].sequence
    <2> DEFINE t == CHOOSE r \in Ids : S[r].session = x
    <2>1. t \in Ids /\ S[t].session = x
        BY <1>2
    <2>2. LogOf(S, N, x) = S[t].sequence
        BY <1>2 DEF LogOf
    <2> HIDE DEF t
    <2>3. t = s
        BY <1>1, <1>2, <2>1, Zenon DEF Apart
    <2> QED
        BY <2>2, <2>3
<1>3. ASSUME \A s \in Ids : S[s].session # x
      PROVE  LogOf(S, N, x) = IF x <= N THEN MaxSeq ELSE 0
    BY <1>3 DEF LogOf
<1>4. LogOf(S, N, x) \in 0 .. MaxSeq
    <2>1. ASSUME NEW s \in Ids, S[s].session = x PROVE LogOf(S, N, x) \in 0 .. MaxSeq
        BY <1>2, <2>1 DEF Issued, StreamType
    <2>2. ASSUME \A s \in Ids : S[s].session # x PROVE LogOf(S, N, x) \in 0 .. MaxSeq
        BY <1>3, <2>2, Constants
    <2> QED
        BY <2>1, <2>2
<1> QED
    BY <1>2, <1>3, <1>4

\* Streams that keep their session and sequence keep the logs.
LEMMA LogsStay ==
    ASSUME NEW S, NEW N, Issued(S, N), Apart(S), NEW S2, Issued(S2, N),
           \A s \in Ids : S2[s].session = S[s].session /\ S2[s].sequence = S[s].sequence
    PROVE  Apart(S2) /\ SameLogs(S, N, S2, N)
<1>1. Apart(S2)
    BY DEF Apart
<1>2. ASSUME NEW x \in Ids PROVE LogOf(S2, N, x) = LogOf(S, N, x)
    <2>1. ASSUME NEW s \in Ids, S[s].session = x PROVE LogOf(S2, N, x) = LogOf(S, N, x)
        BY <1>1, <2>1, LogFacts
    <2>2. ASSUME \A s \in Ids : S[s].session # x PROVE LogOf(S2, N, x) = LogOf(S, N, x)
        <3>1. LogOf(S, N, x) = IF x <= N THEN MaxSeq ELSE 0
            BY <2>2, LogFacts
        <3>2. LogOf(S2, N, x) = IF x <= N THEN MaxSeq ELSE 0
            BY <1>1, <2>2, LogFacts
        <3> QED
            BY <3>1, <3>2
    <2> QED
        BY <2>1, <2>2
<1> QED
    BY <1>1, <1>2 DEF SameLogs

\* One session of a stream is replaced by the next id: Apart is kept, and the
\* logs of the sessions other than these two.
LEMMA LogsBeside ==
    ASSUME NEW S, NEW N, Issued(S, N), Apart(S), NEW N2 \in Nat, N <= N2,
           NEW S2, Issued(S2, N2), NEW id \in Ids, Others(S, S2, id),
           S2[id].session = S[id].session \/ S2[id].session > N
    PROVE  /\ Apart(S2)
           /\ \A x \in Ids : x # S[id].session /\ x # S2[id].session /\ (x <= N2 => x <= N) =>
                 LogOf(S2, N2, x) = LogOf(S, N, x)
<1>0. \A s \in Ids : S[s].session \in Int /\ S[s].session <= N /\ N \in Int
    BY Constants DEF Issued, StreamType
<1>1. Apart(S2)
    <2> SUFFICES ASSUME NEW s \in Ids, NEW t \in Ids, S2[s].session # 0,
                        S2[s].session = S2[t].session
                 PROVE  s = t
        BY DEF Apart
    <2>1. CASE s # id /\ t # id
        BY <2>1 DEF Apart, Others
    <2>2. CASE S2[id].session = S[id].session
        <3>1. S[s].session = S2[s].session /\ S[t].session = S2[t].session
            BY <2>2 DEF Others
        <3> QED
            BY <3>1 DEF Apart
    <2>3. CASE S2[id].session > N /\ (s = id \/ t = id)
        <3>1. S2[s].session > N /\ S2[t].session > N
            BY <2>3
        <3> QED
            BY <1>0, <3>1 DEF Others
    <2> QED
        BY <2>1, <2>2, <2>3
<1>2. ASSUME NEW x \in Ids, x # S[id].session, x # S2[id].session, x <= N2 => x <= N
      PROVE  LogOf(S2, N2, x) = LogOf(S, N, x)
    <2>1. ASSUME NEW s \in Ids, S[s].session = x PROVE LogOf(S2, N2, x) = LogOf(S, N, x)
        <3>1. S2[s].session = x /\ S2[s].sequence = S[s].sequence
            BY <1>2, <2>1 DEF Others
        <3>2. LogOf(S2, N2, x) = S2[s].sequence
            BY <1>1, <3>1, LogFacts
        <3>3. LogOf(S, N, x) = S[s].sequence
            BY <2>1, LogFacts
        <3> QED
            BY <3>1, <3>2, <3>3
    <2>2. ASSUME \A s \in Ids : S[s].session # x PROVE LogOf(S2, N2, x) = LogOf(S, N, x)
        <3>1. \A s \in Ids : S2[s].session # x
            BY <1>2, <2>2 DEF Others
        <3>2. LogOf(S2, N2, x) = IF x <= N2 THEN MaxSeq ELSE 0
            BY <1>1, <3>1, LogFacts
        <3>3. LogOf(S, N, x) = IF x <= N THEN MaxSeq ELSE 0
            BY <2>2, LogFacts
        <3>4. x <= N2 <=> x <= N
            BY <1>0, <1>2 DEF Ids
        <3> QED
            BY <3>2, <3>3, <3>4
    <2> QED
        BY <2>1, <2>2
<1> QED
    BY <1>1, <1>2

\* A stream that begins with the next session has an empty log.
LEMMA LogBegins ==
    ASSUME NEW S, NEW N, Issued(S, N), Apart(S), NEW S2, Issued(S2, N + 1), NEW id \in Ids,
           Others(S, S2, id), S[id].session = 0, S2[id].session = N + 1, S2[id].sequence = 0
    PROVE  Apart(S2) /\ SameLogs(S, N, S2, N + 1)
<1>1. N \in Nat /\ N + 1 \in Nat /\ N <= N + 1 /\ N + 1 > N
    BY Constants DEF Issued
<1>2. /\ Apart(S2)
      /\ \A x \in Ids : x # S[id].session /\ x # S2[id].session /\ (x <= N + 1 => x <= N) =>
            LogOf(S2, N + 1, x) = LogOf(S, N, x)
    BY <1>1, LogsBeside
<1>3. ASSUME NEW x \in Ids PROVE LogOf(S2, N + 1, x) = LogOf(S, N, x)
    <2>1. CASE x = N + 1
        <3>1. LogOf(S2, N + 1, x) = 0
            BY <1>2, <2>1, LogFacts
        <3>2. \A s \in Ids : S[s].session # x
            BY <1>1, <2>1 DEF Issued
        <3>3. LogOf(S, N, x) = 0
            BY <1>1, <2>1, <3>2, LogFacts
        <3> QED
            BY <3>1, <3>3
    <2>2. CASE x # N + 1
        <3>1. x # 0 /\ (x <= N + 1 => x <= N)
            BY <1>1, <2>2 DEF Ids
        <3> QED
            BY <1>2, <2>2, <3>1
    <2> QED
        BY <2>1, <2>2
<1> QED
    BY <1>2, <1>3 DEF SameLogs

\* An event makes the log of the session of its stream longer by one.
LEMMA LogGrows ==
    ASSUME NEW S, NEW N, Issued(S, N), Apart(S), NEW S2, Issued(S2, N), NEW id \in Ids,
           Others(S, S2, id), S[id].session # 0, S2[id].session = S[id].session,
           S[id].sequence < MaxSeq, S2[id].sequence = S[id].sequence + 1
    PROVE  Apart(S2) /\ S[id].session \in Ids /\ OneMore(S, N, S2, N, S[id].session)
<1>1. N \in Nat /\ N <= N /\ S[id].session \in Ids
    <2>1. S[id].session \in 0 .. MaxSessions
        BY DEF Issued, StreamType
    <2> QED
        BY <2>1, Constants DEF Issued, Ids
<1>2. /\ Apart(S2)
      /\ \A x \in Ids : x # S[id].session => LogOf(S2, N, x) = LogOf(S, N, x)
    BY <1>1, LogsBeside
<1>3. LogOf(S, N, S[id].session) = S[id].sequence
    BY <1>1, LogFacts
<1>4. LogOf(S2, N, S[id].session) = S2[id].sequence
    BY <1>1, <1>2, LogFacts
<1> QED
    BY <1>1, <1>2, <1>3, <1>4 DEF OneMore

\* A wrap leaves the full log of the old session behind, and its event is the
\* first of the next session.
LEMMA LogWraps ==
    ASSUME NEW S, NEW N, Issued(S, N), Apart(S), NEW S2, Issued(S2, N + 1), NEW id \in Ids,
           Others(S, S2, id), S[id].session # 0, S[id].sequence = MaxSeq, N < MaxSessions,
           S2[id].session = N + 1, S2[id].sequence = 1
    PROVE  Apart(S2) /\ N + 1 \in Ids /\ OneMore(S, N, S2, N + 1, N + 1)
<1>1. N \in Nat /\ N + 1 \in Nat /\ N <= N + 1 /\ N + 1 > N /\ N + 1 \in Ids
    BY Constants DEF Issued, Ids
<1>2. /\ Apart(S2)
      /\ \A x \in Ids : x # S[id].session /\ x # N + 1 /\ (x <= N + 1 => x <= N) =>
            LogOf(S2, N + 1, x) = LogOf(S, N, x)
    BY <1>1, LogsBeside
<1>3. S[id].session \in Ids /\ S[id].session <= N
    <2>1. S[id].session \in 0 .. MaxSessions
        BY DEF Issued, StreamType
    <2> QED
        BY <2>1, Constants DEF Issued, Ids
<1>4. LogOf(S2, N + 1, N + 1) = 1
    BY <1>1, <1>2, LogFacts
<1>5. LogOf(S, N, N + 1) = 0
    <2>1. \A s \in Ids : S[s].session # N + 1
        BY <1>1 DEF Issued
    <2>2. ~ (N + 1 <= N)
        BY <1>1
    <2> QED
        BY <1>1, <2>1, <2>2, LogFacts
<1>6. ASSUME NEW x \in Ids, x # N + 1 PROVE LogOf(S2, N + 1, x) = LogOf(S, N, x)
    <2>1. x <= N + 1 => x <= N
        BY <1>1, <1>6 DEF Ids
    <2>2. CASE x # S[id].session
        BY <1>2, <1>6, <2>1, <2>2
    <2>3. CASE x = S[id].session
        <3>1. \A s \in Ids : S2[s].session # x
            <4> SUFFICES ASSUME NEW s \in Ids, S2[s].session = x PROVE FALSE
                OBVIOUS
            <4>1. CASE s = id
                BY <1>6, <4>1
            <4>2. CASE s # id
                BY <2>3, <4>2 DEF Others, Apart
            <4> QED
                BY <4>1, <4>2
        <3>2. x <= N + 1
            BY <1>1, <1>3, <2>3 DEF Ids
        <3>3. LogOf(S2, N + 1, x) = MaxSeq
            BY <1>2, <3>1, <3>2, LogFacts
        <3>4. LogOf(S, N, x) = MaxSeq
            BY <2>3, LogFacts
        <3> QED
            BY <3>3, <3>4
    <2> QED
        BY <2>2, <2>3
<1> QED
    BY <1>1, <1>2, <1>4, <1>5, <1>6, Constants DEF OneMore

\* While the logs only grow, a reader that sees nothing of a step stays within.
LEMMA QuietKeeps ==
    ASSUME NEW S, NEW N \in Nat, NEW S2, NEW N2 \in Nat, N <= N2, N \in 0 .. MaxSessions,
           \A x \in Ids : /\ LogOf(S, N, x) \in Int /\ LogOf(S2, N2, x) \in Int
                          /\ LogOf(S, N, x) <= LogOf(S2, N2, x),
           NEW u \in SubType, Fed(S, N, u), NEW v, Quiet(u, v)
    PROVE  Fed(S2, N2, v)
<1>1. v.session = u.session /\ Reach(v) = Reach(u) /\ (v.state = "free" <=> u.state = "free")
      /\ v.cursor = u.cursor
    BY DEF Quiet
<1>2. Reach(u) \in Int
    BY SubFields DEF Reach
<1>3. CASE u.state # "free"
    <2>1. u.session \in 1 .. N /\ Reach(u) <= LogOf(S, N, u.session)
        BY <1>3 DEF Fed
    <2>2. u.session \in Ids /\ u.session \in 1 .. N2
        BY <2>1, Constants DEF Ids
    <2>3. Reach(u) <= LogOf(S2, N2, u.session)
        BY <1>2, <2>1, <2>2
    <2> QED
        BY <1>1, <1>3, <2>2, <2>3 DEF Fed
<1>4. CASE u.state = "free"
    BY <1>1, <1>4 DEF Fed
<1> QED
    BY <1>3, <1>4

-----------------------------------------------------------------------------
(* The steps of the feed.                                                  *)

\* What a step of the hub shows of its logs and of its readers.
LogsShown == SameLogs(stream, issued, stream', issued')
ReadersShown(c) ==
    \A d \in Conns : d # c => sub'[d].session = sub[d].session /\ sub'[d].cursor = sub[d].cursor

LEMMA FeedState ==
    /\ \A x \in Ids : LogLength(x) = LogOf(stream, issued, x)
    /\ \A x \in Ids : LogLength(x)' = LogOf(stream', issued', x)
BY DEF LogLength, LogOf

\* Equal logs are equal as the state of the feed, and so are equal readers.
LEMMA FeedLogs ==
    ASSUME LogsShown
    PROVE  UNCHANGED [x \in Ids |-> LogLength(x)]
BY FeedState DEF LogsShown, SameLogs

LEMMA FeedStutters ==
    ASSUME LogsShown,
           \A d \in Conns : sub'[d].session = sub[d].session /\ sub'[d].cursor = sub[d].cursor
    PROVE  [Feed!Next]_Feed!vars
<1>1. UNCHANGED [x \in Ids |-> LogLength(x)]
    BY FeedLogs
<1>2. UNCHANGED [c \in Conns |-> [session |-> sub[c].session, cursor |-> sub[c].cursor]]
    OBVIOUS
<1> QED
    BY <1>1, <1>2, Zenon DEF Feed!vars

LEMMA FeedGrows ==
    ASSUME NEW y \in Ids, OneMore(stream, issued, stream', issued', y),
           \A d \in Conns : sub'[d].session = sub[d].session /\ sub'[d].cursor = sub[d].cursor
    PROVE  [Feed!Next]_Feed!vars
<1> DEFINE P == [x \in Ids |-> LogLength(x)]
<1>1. UNCHANGED [c \in Conns |-> [session |-> sub[c].session, cursor |-> sub[c].cursor]]
    OBVIOUS
<1>2. P[y] < MaxSeq
    BY FeedState DEF OneMore
<1>3. P' = [P EXCEPT ![y] = P[y] + 1]
    <2>1. P' = [x \in Ids |-> LogOf(stream', issued', x)]
        BY FeedState
    <2>2. P = [x \in Ids |-> LogOf(stream, issued, x)]
        BY FeedState
    <2>3. \A x \in Ids : LogOf(stream', issued', x)
                         = IF x = y THEN LogOf(stream, issued, x) + 1 ELSE LogOf(stream, issued, x)
        BY DEF OneMore
    <2> HIDE DEF P
    <2> QED
        BY <2>1, <2>2, <2>3
<1>4. y \in Feed!Sessions
    BY DEF Feed!Sessions, Ids
<1> HIDE DEF P
<1>5. Feed!Publish(y)
    BY <1>1, <1>2, <1>3, Zenon DEF Feed!Publish, P
<1> QED
    BY <1>4, <1>5, Zenon DEF Feed!Next

LEMMA FeedOpens ==
    ASSUME LogsShown, NEW c \in Conns, ReadersShown(c), sub[c].session = 0, sub[c].cursor = 0,
           NEW x \in Ids, NEW n \in 0 .. MaxSeq, n <= LogOf(stream, issued, x),
           sub'[c].session = x, sub'[c].cursor = n
    PROVE  [Feed!Next]_Feed!vars
<1> DEFINE P == [y \in Ids |-> LogLength(y)]
           R == [d \in Conns |-> [session |-> sub[d].session, cursor |-> sub[d].cursor]]
<1>1. UNCHANGED P
    BY FeedLogs
<1>2. n <= P[x]
    BY FeedState
<1>3. R[c] = Feed!Off
    BY DEF Feed!Off
<1>4. R' = [R EXCEPT ![c] = [session |-> x, cursor |-> n]]
    BY DEF ReadersShown
<1> HIDE DEF P, R
<1>5. Feed!Open(c, x, n)
    BY <1>1, <1>2, <1>3, <1>4, Zenon DEF Feed!Open, P, R
<1>6. x \in Feed!Sessions
    BY DEF Feed!Sessions, Ids
<1> QED
    BY <1>5, <1>6, Zenon DEF Feed!Next

LEMMA FeedReads ==
    ASSUME LogsShown, NEW c \in Conns, ReadersShown(c), sub[c].session \in Ids,
           sub[c].cursor < LogOf(stream, issued, sub[c].session),
           sub'[c].session = sub[c].session, sub'[c].cursor = sub[c].cursor + 1
    PROVE  [Feed!Next]_Feed!vars
<1> DEFINE P == [y \in Ids |-> LogLength(y)]
           R == [d \in Conns |-> [session |-> sub[d].session, cursor |-> sub[d].cursor]]
<1>1. UNCHANGED P
    BY FeedLogs
<1>2. R[c].session = sub[c].session /\ R[c].cursor = sub[c].cursor
    OBVIOUS
<1>3. R[c].cursor < P[R[c].session]
    BY <1>2, FeedState
<1>4. R[c] # Feed!Off
    BY <1>2 DEF Feed!Off, Ids
<1>5. R' = [R EXCEPT ![c].cursor = R[c].cursor + 1]
    BY DEF ReadersShown
<1> HIDE DEF P, R
<1>6. Feed!Read(c)
    BY <1>1, <1>3, <1>4, <1>5, Zenon DEF Feed!Read, P, R
<1> QED
    BY <1>6, Zenon DEF Feed!Next

LEMMA FeedEnds ==
    ASSUME LogsShown, NEW c \in Conns, ReadersShown(c), sub[c].session \in Ids,
           sub'[c].session = 0, sub'[c].cursor = 0
    PROVE  [Feed!Next]_Feed!vars
<1> DEFINE P == [y \in Ids |-> LogLength(y)]
           R == [d \in Conns |-> [session |-> sub[d].session, cursor |-> sub[d].cursor]]
<1>1. UNCHANGED P
    BY FeedLogs
<1>2. R[c] # Feed!Off
    BY DEF Feed!Off, Ids
<1>3. R' = [R EXCEPT ![c] = Feed!Off]
    BY DEF ReadersShown, Feed!Off
<1> HIDE DEF P, R
<1>4. Feed!End(c)
    BY <1>1, <1>2, <1>3, Zenon DEF Feed!End, P, R
<1> QED
    BY <1>4, Zenon DEF Feed!Next

-----------------------------------------------------------------------------
FeedInv == DeliveryInv /\ Apart(stream) /\ Within(stream, sub, issued)

LEMMA ViewIssued ==
    ASSUME NEW T, NEW S, NEW U, NEW W, NEW N, Structure(T, S, U, W, N)
    PROVE  Issued(S, N) /\ U \in [Conns -> SubType] /\ N \in Nat
<1>1. S \in [Ids -> StreamType] /\ N \in 0 .. MaxSessions /\ U \in [Conns -> SubType]
    BY DEF Structure, Typed
<1>2. \A s \in Ids : S[s].session <= N
    BY DEF Structure, Allocated
<1>3. N \in Nat
    BY <1>1, Constants
<1> QED
    BY <1>1, <1>2, <1>3, Zenon DEF Issued

LEMMA FeedView ==
    ASSUME FeedInv
    PROVE  /\ StructureInv /\ Issued(stream, issued) /\ Apart(stream)
           /\ sub \in [Conns -> SubType] /\ issued \in Nat /\ Within(stream, sub, issued)
<1>1. StructureInv /\ Structure(table, stream, sub, worker, issued)
    BY DEF FeedInv, DeliveryInv, SafeInv, StructureInv
<1> QED
    BY <1>1, ViewIssued DEF FeedInv

\* Logs that stay or grow keep a reader within when it sees nothing of the step.
LEMMA WithinKept ==
    ASSUME NEW S, NEW U \in [Conns -> SubType], NEW N, Issued(S, N), Apart(S), Within(S, U, N),
           NEW S2, NEW N2, Issued(S2, N2), Apart(S2), N <= N2,
           \/ SameLogs(S, N, S2, N2)
           \/ \E y \in Ids : OneMore(S, N, S2, N2, y),
           NEW c \in Conns, NEW v, Quiet(U[c], v)
    PROVE  Fed(S2, N2, v)
<1>1. N \in Nat /\ N2 \in Nat /\ N \in 0 .. MaxSessions
    BY Constants DEF Issued
<1>2. \A x \in Ids : LogOf(S, N, x) \in Int /\ LogOf(S2, N2, x) \in Int
    BY LogFacts, Constants
<1>3. \A x \in Ids : LogOf(S, N, x) <= LogOf(S2, N2, x)
    <2>1. CASE SameLogs(S, N, S2, N2)
        BY <1>2, <2>1 DEF SameLogs
    <2>2. ASSUME NEW y \in Ids, OneMore(S, N, S2, N2, y)
          PROVE  \A x \in Ids : LogOf(S, N, x) <= LogOf(S2, N2, x)
        BY <1>2, <2>2 DEF OneMore
    <2> QED
        BY <2>1, <2>2
<1>4. U[c] \in SubType /\ Fed(S, N, U[c])
    BY DEF Within
<1> QED
    BY <1>1, <1>2, <1>3, <1>4, QuietKeeps

\* collectGarbageLocked, the eviction and the creation of a stream show nothing.
LEMMA EnsuredFeed ==
    ASSUME FeedInv, NEW a \in Agents, NEW h \in Ensured(a)
    PROVE  /\ Issued(h.stream, h.issued) /\ Apart(h.stream) /\ issued <= h.issued
           /\ h.sub \in [Conns -> SubType]
           /\ SameLogs(stream, issued, h.stream, h.issued)
           /\ \A c \in Conns : Quiet(sub[c], h.sub[c])
           /\ Within(h.stream, h.sub, h.issued)
<1>1. /\ Structure(h.table, h.stream, h.sub, worker, h.issued)
      /\ \/ h.stream = stream /\ h.sub = sub /\ h.issued = issued
         \/ Collected[a] = 0 /\ issued < MaxSessions /\ h \in Created(a)
      /\ KeptSubs(sub, h.sub)
    BY FeedView, EnsuredStructure
<1>2. /\ Issued(h.stream, h.issued) /\ h.sub \in [Conns -> SubType] /\ h.issued \in Nat
      /\ Issued(stream, issued) /\ Apart(stream) /\ issued \in Nat
      /\ sub \in [Conns -> SubType] /\ Within(stream, sub, issued)
    BY <1>1, ViewIssued, FeedView
<1>3. \A c \in Conns : Quiet(sub[c], h.sub[c])
    <2> SUFFICES ASSUME NEW c \in Conns PROVE Quiet(sub[c], h.sub[c])
        OBVIOUS
    <2>1. CASE h.sub[c] = sub[c]
        BY <2>1 DEF Quiet
    <2>2. CASE /\ sub[c].state = "open" /\ h.sub[c].state = "closed"
               /\ h.sub[c].session = sub[c].session /\ h.sub[c].cursor = sub[c].cursor
               /\ h.sub[c].replay = sub[c].replay /\ h.sub[c].events = sub[c].events
        BY <2>2 DEF Quiet, Reach
    <2> QED
        BY <1>1, <2>1, <2>2 DEF KeptSubs
<1>4. Apart(h.stream) /\ SameLogs(stream, issued, h.stream, h.issued) /\ issued <= h.issued
    <2>1. CASE h.stream = stream /\ h.sub = sub /\ h.issued = issued
        BY <1>2, <2>1 DEF SameLogs
    <2>2. CASE Collected[a] = 0 /\ issued < MaxSessions /\ h \in Created(a)
        <3>1. /\ h.id = issued + 1 /\ h.issued = issued + 1
              /\ h.stream[h.id] = [NoStream EXCEPT !.session = h.id, !.last = clock]
            <4>1. StructureInv /\ Collected[a] = 0 /\ issued < MaxSessions /\ h \in Created(a)
                BY <2>2, FeedView
            <4> QED
                BY <4>1, CreatedStructure, Zenon
        <3>2. PICK vs \in Victims(Collected) : h = Evicting(a, vs)
            BY <2>2 DEF Created
        <3> DEFINE evicted == {Collected[v] : v \in vs}
        <3>e. h.stream = [s \in Ids |->
                  IF s = issued + 1 THEN [NoStream EXCEPT !.session = s, !.last = clock]
                  ELSE IF s \in evicted THEN [stream[s] EXCEPT !.members = {}]
                  ELSE stream[s]]
            BY <3>2, Zenon DEF Evicting
        <3> HIDE DEF evicted
        <3>3. issued + 1 \in Ids
            BY <1>2, <2>2, Constants DEF Ids
        <3>4. Others(stream, h.stream, issued + 1)
            <4> SUFFICES ASSUME NEW s \in Ids, s # issued + 1
                         PROVE  /\ h.stream[s].session = stream[s].session
                                /\ h.stream[s].sequence = stream[s].sequence
                BY DEF Others
            <4>1. h.stream[s] = [stream[s] EXCEPT !.members = {}] \/ h.stream[s] = stream[s]
                BY <3>e, Zenon
            <4>2. stream[s] \in StreamType
                BY <1>2 DEF Issued
            <4> QED
                BY <4>1, <4>2 DEF StreamType
        <3>5. stream[issued + 1] = NoStream
            <4>1. issued + 1 > issued
                BY <1>2
            <4> QED
                BY <3>3, <4>1, FeedView DEF StructureInv, Structure, Allocated
        <3>6. stream[issued + 1].session = 0
            BY <3>5 DEF NoStream
        <3>7. h.stream[issued + 1].session = issued + 1 /\ h.stream[issued + 1].sequence = 0
            BY <3>1 DEF NoStream
        <3>8. Issued(h.stream, issued + 1)
            BY <1>2, <3>1
        <3>9. Apart(h.stream) /\ SameLogs(stream, issued, h.stream, issued + 1)
            BY <1>2, <3>3, <3>4, <3>6, <3>7, <3>8, LogBegins
        <3> QED
            BY <1>2, <3>1, <3>9
    <2> QED
        BY <1>1, <2>1, <2>2
<1>5. Within(h.stream, h.sub, h.issued)
    BY <1>2, <1>3, <1>4, WithinKept DEF Within
<1> QED
    BY <1>2, <1>3, <1>4, <1>5

\* A step that leaves the sessions, the sequences and the readers alone.
LEMMA QuietStep ==
    ASSUME FeedInv, StructureInv', issued' = issued,
           \A s \in Ids : /\ stream'[s].session = stream[s].session
                          /\ stream'[s].sequence = stream[s].sequence,
           \A c \in Conns : Quiet(sub[c], sub'[c])
    PROVE  Apart(stream') /\ Within(stream', sub', issued') /\ [Feed!Next]_Feed!vars
<1>1. Structure(table', stream', sub', worker', issued')
    BY DEF StructureInv
<1>2. /\ Issued(stream', issued') /\ Issued(stream, issued) /\ Apart(stream)
      /\ issued \in Nat /\ sub \in [Conns -> SubType] /\ Within(stream, sub, issued)
    BY <1>1, ViewIssued, FeedView
<1>3. Apart(stream') /\ SameLogs(stream, issued, stream', issued')
    BY <1>2, LogsStay
<1>4. issued <= issued'
    BY <1>2
<1>5. Within(stream', sub', issued')
    BY <1>2, <1>3, <1>4, WithinKept DEF Within
<1>6. \A d \in Conns : sub'[d].session = sub[d].session /\ sub'[d].cursor = sub[d].cursor
    BY DEF Quiet
<1>7. [Feed!Next]_Feed!vars
    BY <1>3, <1>6, FeedStutters DEF LogsShown
<1> QED
    BY <1>3, <1>5, <1>7

\* The reader of a subscriber that is closed sees nothing of it.
LEMMA CloseQuiet ==
    ASSUME NEW u \in SubType, NEW reason \in Reasons
    PROVE  Quiet(u, Close(u, reason))
BY CloseKeepsType DEF Quiet, Reach

\* Taking the mutex, the next delivery and the marking of overruns show nothing.
LEMMA DrainFeed ==
    ASSUME FeedInv, StructureInv', NEW p \in Publishers,
           TakeFanout(p) \/ Unlock(p) \/ Pop(p) \/ MarkOverruns(p)
    PROVE  Apart(stream') /\ Within(stream', sub', issued') /\ [Feed!Next]_Feed!vars
<1>1. stream \in [Ids -> StreamType] /\ sub \in [Conns -> SubType]
    BY FeedView DEF Issued
<1>2. issued' = issued
    BY DEF TakeFanout, Unlock, Pop, MarkOverruns
<1>3. \A s \in Ids : stream'[s].session = stream[s].session /\ stream'[s].sequence = stream[s].sequence
    <2>1. CASE TakeFanout(p) \/ Unlock(p)
        <3>1. \E f : stream' = [stream EXCEPT ![worker[p].id].fanout = f]
            BY <2>1 DEF TakeFanout, Unlock
        <3> QED
            BY <1>1, <3>1 DEF StreamType
    <2>2. CASE Pop(p)
        <3>1. stream' = stream \/ \E q : stream' = [stream EXCEPT ![worker[p].id].pending = q]
            BY <2>2 DEF Pop
        <3>2. ASSUME NEW q, stream' = [stream EXCEPT ![worker[p].id].pending = q]
              PROVE  \A s \in Ids : /\ stream'[s].session = stream[s].session
                                    /\ stream'[s].sequence = stream[s].sequence
            BY <1>1, <3>2 DEF StreamType
        <3> QED
            BY <3>1, <3>2
    <2>3. CASE MarkOverruns(p)
        <3>1. \E m : stream' = [stream EXCEPT ![worker[p].id].members = m]
            BY <2>3 DEF MarkOverruns
        <3> QED
            BY <1>1, <3>1 DEF StreamType
    <2> QED
        BY <2>1, <2>2, <2>3
<1>4. \A c \in Conns : Quiet(sub[c], sub'[c])
    <2>1. CASE TakeFanout(p) \/ Unlock(p) \/ Pop(p)
        BY <2>1 DEF TakeFanout, Unlock, Pop, Quiet
    <2>2. CASE MarkOverruns(p)
        <3> DEFINE lost == worker[p].overran \cap stream[worker[p].id].members
        <3>1. sub' = CloseAll(sub, lost, "subscriber_overrun")
            BY <2>2 DEF MarkOverruns
        <3> HIDE DEF lost
        <3>2. \A c \in Conns : sub'[c] = Close(sub[c], "subscriber_overrun") \/ sub'[c] = sub[c]
            BY <3>1 DEF CloseAll
        <3> SUFFICES ASSUME NEW c \in Conns PROVE Quiet(sub[c], sub'[c])
            OBVIOUS
        <3>3. Quiet(sub[c], Close(sub[c], "subscriber_overrun"))
            BY <1>1, CloseQuiet DEF Reasons
        <3> QED
            BY <3>2, <3>3 DEF Quiet
    <2> QED
        BY <2>1, <2>2
<1> QED
    BY <1>2, <1>3, <1>4, QuietStep

\* A view in which one reader takes a step and the others see nothing of it.
LEMMA OneReader ==
    ASSUME FeedInv, StructureInv', issued' = issued,
           \A s \in Ids : /\ stream'[s].session = stream[s].session
                          /\ stream'[s].sequence = stream[s].sequence,
           NEW c \in Conns, \A d \in Conns : d # c => sub'[d] = sub[d]
    PROVE  /\ Apart(stream') /\ LogsShown /\ ReadersShown(c)
           /\ Fed(stream, issued, sub[c])
           /\ Fed(stream', issued', sub'[c]) => Within(stream', sub', issued')
<1>1. Structure(table', stream', sub', worker', issued')
    BY DEF StructureInv
<1>2. /\ Issued(stream', issued') /\ Issued(stream, issued) /\ Apart(stream)
      /\ issued \in Nat /\ sub \in [Conns -> SubType] /\ Within(stream, sub, issued)
    BY <1>1, ViewIssued, FeedView
<1>3. Apart(stream') /\ SameLogs(stream, issued, stream', issued')
    BY <1>2, LogsStay
<1>4. issued <= issued'
    BY <1>2
<1>5. ASSUME NEW d \in Conns, d # c PROVE Fed(stream', issued', sub'[d])
    <2>1. Quiet(sub[d], sub'[d])
        BY <1>5 DEF Quiet
    <2> QED
        BY <1>2, <1>3, <1>4, <2>1, WithinKept
<1> QED
    BY <1>2, <1>3, <1>5 DEF Within, LogsShown, ReadersShown

\* The log of its session, and how far an open subscriber that is not overrun
\* reaches while a drainer holds its next event: not to the end.
LEMMA HeldShort ==
    ASSUME FeedInv, NEW c \in Conns, sub[c].state = "open",
           \A q \in Publishers : c \notin worker[q].overran,
           NEW p \in Publishers, c \in worker[p].todo
    PROVE  Reach(sub[c]) + 1 <= LogOf(stream, issued, sub[c].session)
<1> DEFINE st == stream[sub[c].id]
           h == \E q \in Publishers : c \in worker[q].todo
<1>1. Accounted(st, sub[c], worker, c)
    BY DEF FeedInv, DeliveryInv, Account
<1>2. sub[c].id \in Ids /\ st \in StreamType
    BY FeedView DEF StructureInv, Structure, Typed, Allocated
<1>3. sub[c].session \in Ids /\ sub[c] \in SubType
    <2>1. sub[c].session \in 1 .. issued /\ issued \in 0 .. MaxSessions /\ sub[c] \in SubType
        BY FeedView DEF Within, Fed, Issued
    <2> QED
        BY <2>1, Constants DEF Ids
<1>4. st.session = sub[c].session /\ Queued(st, c, Due(st, sub[c], h))
    BY <1>1 DEF Accounted
<1>5. h
    OBVIOUS
<1>6. LogOf(stream, issued, sub[c].session) = st.sequence
    BY <1>2, <1>3, <1>4, FeedView, LogFacts
<1> HIDE DEF st, h
<1>7. st.sequence \in Int /\ Reach(sub[c]) \in Int
    <2>1. st.sequence \in Int
        BY <1>2, Constants DEF StreamType
    <2>2. sub[c] \in SubType
        BY <1>3
    <2>3. Reach(sub[c]) \in Int
        BY <2>2, SubFields DEF Reach
    <2> QED
        BY <2>1, <2>3
<1>8. Due(st, sub[c], h) \in 0 .. Len(st.pending) /\ Len(st.pending) \in Nat
    BY <1>2, <1>4, LenProperties DEF Queued, StreamType
<1>9. Due(st, sub[c], h) = st.sequence - Reach(sub[c]) - 1
    BY <1>5 DEF Due
<1> QED
    BY <1>6, <1>7, <1>8, <1>9

\* The fields of a subscriber, as a record.
LEMMA SubShape ==
    ASSUME NEW u \in SubType
    PROVE  \E states, reasons :
              u \in [state : states, agent : Agents \cup {Nobody}, id : 0 .. MaxSessions,
                     session : 0 .. MaxSessions, cursor : 0 .. MaxSeq, replay : Seq(Event),
                     events : Seq(Event), resync : reasons, gone : BOOLEAN]
BY Zenon DEF SubType, SubRecord

\* A subscriber with another channel.
LEMMA ChannelSet ==
    ASSUME NEW u \in SubType, NEW q, NEW v, v = [u EXCEPT !.events = q]
    PROVE  /\ v.events = q /\ v.replay = u.replay /\ v.cursor = u.cursor
           /\ v.session = u.session /\ v.state = u.state
<1>1. PICK states, reasons :
        u \in [state : states, agent : Agents \cup {Nobody}, id : 0 .. MaxSessions,
               session : 0 .. MaxSessions, cursor : 0 .. MaxSeq, replay : Seq(Event),
               events : Seq(Event), resync : reasons, gone : BOOLEAN]
    BY SubShape
<1> QED
    BY <1>1

\* What trySend changes.
LEMMA SendShows ==
    ASSUME StructureInv, NEW p \in Publishers, NEW c \in Conns, Send(p, c)
    PROVE  /\ c \in worker[p].todo /\ stream' = stream /\ issued' = issued
           /\ worker[p].item \in Event /\ c \notin worker[p].overran
           /\ \/ sub' = sub
              \/ /\ sub[c].state = "open"
                 /\ sub' = [sub EXCEPT ![c] =
                              [sub[c] EXCEPT !.events = Append(sub[c].events, worker[p].item)]]
<1>1. worker[p].pc = "send" /\ c \in worker[p].todo /\ stream' = stream /\ issued' = issued
    BY Zenon DEF Send
<1>2. worker[p].item \in Event /\ c \notin worker[p].overran
    BY <1>1 DEF StructureInv, Structure, Drained
<1>3. \/ sub' = sub
      \/ /\ sub[c].state = "open"
         /\ sub' = [sub EXCEPT ![c] =
                      [sub[c] EXCEPT !.events = Append(sub[c].events, worker[p].item)]]
    BY Zenon DEF Send
<1> QED
    BY <1>1, <1>2, <1>3

\* trySend puts the next event of its session in the channel of a subscriber.
LEMMA SendFeed ==
    ASSUME FeedInv, StructureInv', NEW p \in Publishers, NEW c \in Conns, Send(p, c)
    PROVE  Apart(stream') /\ Within(stream', sub', issued') /\ [Feed!Next]_Feed!vars
<1> DEFINE u == sub[c]
           e == worker[p].item
           v == [u EXCEPT !.events = Append(u.events, e)]
<1>1. /\ c \in worker[p].todo /\ stream' = stream /\ issued' = issued
      /\ e \in Event /\ c \notin worker[p].overran
      /\ u \in SubType /\ sub \in [Conns -> SubType]
    BY FeedView, SendShows
<1>2. \/ sub' = sub
      \/ u.state = "open" /\ sub' = [sub EXCEPT ![c] = v]
    BY FeedView, SendShows
<1>3. CASE sub' = sub
    BY <1>1, <1>3, QuietStep DEF Quiet
<1>4. CASE u.state = "open" /\ sub' = [sub EXCEPT ![c] = v]
    <2>1. /\ v.events = Append(u.events, e) /\ v.replay = u.replay /\ v.cursor = u.cursor
          /\ v.session = u.session /\ v.state = u.state
        <3> HIDE DEF u, e
        <3> QED
            BY <1>1, ChannelSet
    <2>2. Len(v.events) = Len(u.events) + 1
        <3>1. u.events \in Seq(Event)
            BY <1>1, SubFields
        <3> HIDE DEF v, e
        <3> QED
            BY <1>1, <2>1, <3>1, AppendProperties
    <2> HIDE DEF v, e
    <2>3. Reach(v) = Reach(u) + 1 /\ Reach(u) \in Int
        BY <1>1, <2>1, <2>2, ReachAppend
    <2>4. \A q \in Publishers : c \notin worker[q].overran
        <3> SUFFICES ASSUME NEW q \in Publishers, c \in worker[q].overran PROVE FALSE
            OBVIOUS
        <3>1. StructureInv
            BY FeedView
        <3>2. q = p
            BY <1>1, <1>4, <3>1, OneHolder
        <3> QED
            BY <1>1, <3>2
    <2>5. Reach(u) + 1 <= LogOf(stream, issued, u.session)
        BY <1>1, <1>4, <2>4, HeldShort
    <2>6. sub'[c] = v /\ \A d \in Conns : d # c => sub'[d] = sub[d]
        BY <1>1, <1>4
    <2>7. /\ Apart(stream') /\ LogsShown /\ ReadersShown(c) /\ Fed(stream, issued, u)
          /\ Fed(stream', issued', sub'[c]) => Within(stream', sub', issued')
        BY <1>1, <2>6, OneReader
    <2>8. Fed(stream', issued', sub'[c])
        BY <1>1, <1>4, <2>1, <2>3, <2>5, <2>6, <2>7 DEF Fed
    <2>9. \A d \in Conns : sub'[d].session = sub[d].session /\ sub'[d].cursor = sub[d].cursor
        BY <2>1, <2>6, <2>7 DEF ReadersShown
    <2>10. [Feed!Next]_Feed!vars
        BY <2>7, <2>9, FeedStutters
    <2> QED
        BY <2>7, <2>8, <2>10
<1> QED
    BY <1>2, <1>3, <1>4

\* The next thing a subscriber can read is the event after its cursor, and it
\* is not past what the subscriber reaches.
LEMMA NextRead ==
    ASSUME NEW u \in SubType, Ordered(u), NEW v,
           \/ /\ u.replay # <<>>
              /\ v = [u EXCEPT !.replay = Tail(u.replay), !.cursor = Head(u.replay).seq]
           \/ /\ u.replay = <<>> /\ u.events # <<>>
              /\ v = [u EXCEPT !.events = Tail(u.events), !.cursor = Head(u.events).seq]
    PROVE  /\ v.cursor = u.cursor + 1 /\ v.session = u.session /\ v.state = u.state
           /\ u.cursor < Reach(u) /\ Reach(u) \in Int /\ u.cursor \in Int
<1>1. /\ u.replay \in Seq(Event) /\ u.events \in Seq(Event) /\ u.cursor \in Int
      /\ Len(u.replay) \in Nat /\ Len(u.events) \in Nat
    BY SubFields
<1>2. Reach(u) = u.cursor + Len(u.replay) + Len(u.events)
    BY DEF Reach
<1>s. PICK states, reasons :
        u \in [state : states, agent : Agents \cup {Nobody}, id : 0 .. MaxSessions,
               session : 0 .. MaxSessions, cursor : 0 .. MaxSeq, replay : Seq(Event),
               events : Seq(Event), resync : reasons, gone : BOOLEAN]
    BY SubShape
<1>3. CASE /\ u.replay # <<>>
           /\ v = [u EXCEPT !.replay = Tail(u.replay), !.cursor = Head(u.replay).seq]
    <2>1. v.cursor = Head(u.replay).seq /\ v.session = u.session /\ v.state = u.state
        BY <1>s, <1>3
    <2>2. Len(u.replay) > 0 /\ Head(u.replay) = u.replay[1]
        BY <1>1, <1>3, TakeFirst
    <2>3. u.replay[1].seq = u.cursor + 1
        BY <1>1, <2>2 DEF Ordered
    <2> QED
        BY <1>1, <1>2, <2>1, <2>2, <2>3
<1>4. CASE /\ u.replay = <<>> /\ u.events # <<>>
           /\ v = [u EXCEPT !.events = Tail(u.events), !.cursor = Head(u.events).seq]
    <2>1. v.cursor = Head(u.events).seq /\ v.session = u.session /\ v.state = u.state
        BY <1>s, <1>4
    <2>2. Len(u.events) > 0 /\ Head(u.events) = u.events[1] /\ Len(u.replay) = 0
        BY <1>1, <1>4, TakeFirst, EmptySeq
    <2>3. u.events[1].seq = u.cursor + Len(u.replay) + 1
        BY <1>1, <2>2 DEF Ordered
    <2> QED
        BY <1>1, <1>2, <2>1, <2>2, <2>3
<1> QED
    BY <1>3, <1>4

\* The session of a subscriber in use is a session of the feed.
LEMMA InUse ==
    ASSUME FeedInv, NEW c \in Conns, sub[c].state # "free"
    PROVE  sub[c].session \in Ids
<1>1. sub[c].session \in 1 .. issued /\ issued \in 0 .. MaxSessions
    BY FeedView DEF Within, Fed, Issued
<1> QED
    BY <1>1, Constants DEF Ids

LEMMA ReceiveFeed ==
    ASSUME FeedInv, StructureInv', NEW c \in Conns, Receive(c)
    PROVE  Apart(stream') /\ Within(stream', sub', issued') /\ [Feed!Next]_Feed!vars
<1> DEFINE u == sub[c]
           v == sub'[c]
<1>1. /\ issued' = issued /\ stream' = stream /\ u.state # "free"
      /\ \A d \in Conns : d # c => sub'[d] = sub[d]
    BY FeedView DEF Receive
<1>2. u \in SubType /\ Ordered(u)
    BY <1>1, FeedView DEF FeedInv, DeliveryInv, Order
<1>3. \/ /\ u.replay # <<>>
         /\ v = [u EXCEPT !.replay = Tail(u.replay), !.cursor = Head(u.replay).seq]
      \/ /\ u.replay = <<>> /\ u.events # <<>>
         /\ v = [u EXCEPT !.events = Tail(u.events), !.cursor = Head(u.events).seq]
    <2>1. sub \in [Conns -> SubType]
        BY FeedView
    <2> QED
        BY <2>1 DEF Receive
<1>4. /\ Apart(stream') /\ LogsShown /\ ReadersShown(c) /\ Fed(stream, issued, u)
      /\ Fed(stream', issued', v) => Within(stream', sub', issued')
    BY <1>1, OneReader
<1>5. u.session \in Ids
    BY <1>1, InUse
<1>6. v \in SubType
    BY DEF StructureInv, Structure, Typed
<1> HIDE DEF u, v
<1>7. /\ v.cursor = u.cursor + 1 /\ v.session = u.session /\ v.state = u.state
      /\ u.cursor < Reach(u) /\ Reach(u) \in Int /\ u.cursor \in Int
    BY <1>2, <1>3, NextRead, Zenon
<1>8. Reach(v) = Reach(u)
    BY <1>2, <1>3, <1>6, ReadNext, Zenon
<1>9. u.session \in 1 .. issued /\ Reach(u) <= LogOf(stream, issued, u.session)
    BY <1>1, <1>4 DEF Fed, u
<1>10. Fed(stream', issued', v)
    BY <1>1, <1>7, <1>8, <1>9 DEF Fed, u
<1>11. LogOf(stream, issued, u.session) \in Int
    BY <1>5, FeedView, LogFacts, Constants
<1>12. u.cursor < LogOf(stream, issued, u.session)
    BY <1>7, <1>9, <1>11
<1>13. [Feed!Next]_Feed!vars
    BY <1>4, <1>5, <1>7, <1>12, FeedReads DEF u, v
<1> QED
    BY <1>4, <1>10, <1>13

\* A subscription that ends.
LEMMA EndFeed ==
    ASSUME FeedInv, StructureInv', NEW c \in Conns, Stop(c) \/ RemoveSubscriber(c)
    PROVE  Apart(stream') /\ Within(stream', sub', issued') /\ [Feed!Next]_Feed!vars
<1>1. /\ sub[c] \in SubType /\ sub \in [Conns -> SubType] /\ stream \in [Ids -> StreamType]
    BY FeedView DEF Issued
<1>2. sub' = [sub EXCEPT ![c] = NoSub] /\ issued' = issued
    BY Zenon DEF Stop, RemoveSubscriber
<1>3. sub[c].state # "free"
    <2>1. CASE Stop(c)
        BY <2>1, Zenon DEF Stop
    <2>2. CASE RemoveSubscriber(c)
        <3>1. sub[c].gone
            BY <2>2, Zenon DEF RemoveSubscriber
        <3> QED
            BY <1>1, <3>1 DEF SubType
    <2> QED
        BY <2>1, <2>2
<1>4. /\ sub'[c].state = "free" /\ sub'[c].session = 0 /\ sub'[c].cursor = 0
      /\ \A d \in Conns : d # c => sub'[d] = sub[d]
    <2>1. sub'[c] = NoSub /\ \A d \in Conns : d # c => sub'[d] = sub[d]
        BY <1>1, <1>2
    <2>2. NoSub.state = "free" /\ NoSub.session = 0 /\ NoSub.cursor = 0
        BY DEF NoSub
    <2> QED
        BY <2>1, <2>2
<1>5. \/ stream' = stream
      \/ \E id, m : stream' = [stream EXCEPT ![id].members = m, ![id].last = clock]
    BY Zenon DEF Stop, RemoveSubscriber
<1>6. \A s \in Ids : /\ stream'[s].session = stream[s].session
                     /\ stream'[s].sequence = stream[s].sequence
    <2>1. ASSUME NEW id, NEW m, stream' = [stream EXCEPT ![id].members = m, ![id].last = clock]
          PROVE  \A s \in Ids : /\ stream'[s].session = stream[s].session
                                /\ stream'[s].sequence = stream[s].sequence
        BY <1>1, <2>1, MembersOnly
    <2> QED
        BY <1>5, <2>1
<1>7. /\ Apart(stream') /\ LogsShown /\ ReadersShown(c)
      /\ Fed(stream', issued', sub'[c]) => Within(stream', sub', issued')
    BY <1>2, <1>4, <1>6, OneReader
<1>8. Fed(stream', issued', sub'[c])
    BY <1>4 DEF Fed
<1>9. sub[c].session \in Ids
    BY <1>3, InUse
<1>10. [Feed!Next]_Feed!vars
    BY <1>4, <1>7, <1>9, FeedEnds
<1> QED
    BY <1>7, <1>8, <1>10

\* A reader whose context ends, the clock, and the collection show nothing.
LEMMA IdleFeed ==
    ASSUME FeedInv, StructureInv',
           \/ \E c \in Conns : Leave(c)
           \/ Sweep \/ Tick \/ UNCHANGED vars
    PROVE  Apart(stream') /\ Within(stream', sub', issued') /\ [Feed!Next]_Feed!vars
<1>1. stream' = stream /\ issued' = issued
    BY DEF Leave, Sweep, Tick, vars
<1>2. ASSUME NEW c \in Conns, Leave(c), NEW d \in Conns
      PROVE  Quiet(sub[d], sub'[d])
    <2>1. sub[c] \in SubType /\ sub \in [Conns -> SubType]
        BY FeedView
    <2>2. sub' = [sub EXCEPT ![c] = [sub[c] EXCEPT !.gone = TRUE]] /\ sub[c].state # "free"
        BY <1>2 DEF Leave
    <2>3. PICK v : v = [sub[c] EXCEPT !.gone = TRUE]
        OBVIOUS
    <2>4. /\ v.state = sub[c].state /\ v.session = sub[c].session /\ v.cursor = sub[c].cursor
          /\ v.replay = sub[c].replay /\ v.events = sub[c].events
        BY <2>1, <2>3, SubShape
    <2>5. sub'[d] = v \/ sub'[d] = sub[d]
        BY <2>1, <2>2, <2>3
    <2>6. d = c \/ sub'[d] = sub[d]
        BY <2>1, <2>2
    <2> QED
        BY <2>2, <2>4, <2>5, <2>6 DEF Quiet, Reach
<1>3. ASSUME sub' = sub, NEW d \in Conns PROVE Quiet(sub[d], sub'[d])
    BY <1>3 DEF Quiet
<1>4. \A d \in Conns : Quiet(sub[d], sub'[d])
    BY <1>2, <1>3 DEF Sweep, Tick, vars
<1> QED
    BY <1>1, <1>4, QuietStep

\* A subscription that is accepted, after the stream was found or created.
LetIn(h, c, a) ==
    /\ h.id # 0
    /\ \E m, l : stream' = [h.stream EXCEPT ![h.id].members = m, ![h.id].last = l]
    /\ \E n, replay :
          sub' = [h.sub EXCEPT ![c] =
                    [NoSub EXCEPT !.state = "open", !.agent = a, !.id = h.id,
                                  !.session = h.stream[h.id].session,
                                  !.cursor = n, !.replay = replay]]

LEMMA SubscribeShows ==
    ASSUME NEW c \in Conns, NEW a \in Agents, NEW x, NEW after, Subscribe(c, a, x, after)
    PROVE  \E h \in Ensured(a) : /\ issued' = h.issued
                                 /\ \/ stream' = h.stream /\ sub' = h.sub
                                    \/ LetIn(h, c, a)
<1>1. PICK h \in Ensured(a) :
         /\ issued' = h.issued
         /\ IF h.id = 0 \/ Refusal(h.stream[h.id], x, after) # ""
            THEN stream' = h.stream /\ sub' = h.sub
            ELSE LET st == h.stream[h.id]
                 IN  /\ stream' = [h.stream EXCEPT ![h.id].members = @ \cup {c},
                                                   ![h.id].last = clock]
                     /\ sub' = [h.sub EXCEPT ![c] =
                           [NoSub EXCEPT
                               !.state = "open", !.agent = a, !.id = h.id,
                               !.session = st.session,
                               !.cursor = IF after >= 0 THEN after ELSE st.sequence,
                               !.replay = IF after >= 0 THEN After(st.ring, after) ELSE <<>>]]
    BY Zenon DEF Subscribe
<1>2. CASE h.id = 0 \/ Refusal(h.stream[h.id], x, after) # ""
    BY <1>1, <1>2, Zenon
<1>3. CASE ~ (h.id = 0 \/ Refusal(h.stream[h.id], x, after) # "")
    <2>1. /\ h.id # 0
          /\ stream' = [h.stream EXCEPT ![h.id].members = @ \cup {c}, ![h.id].last = clock]
          /\ sub' = [h.sub EXCEPT ![c] =
                       [NoSub EXCEPT
                           !.state = "open", !.agent = a, !.id = h.id,
                           !.session = h.stream[h.id].session,
                           !.cursor = IF after >= 0 THEN after ELSE h.stream[h.id].sequence,
                           !.replay = IF after >= 0 THEN After(h.stream[h.id].ring, after) ELSE <<>>]]
        BY <1>1, <1>3, Zenon
    <2>2. LetIn(h, c, a)
        BY <2>1, Zenon DEF LetIn
    <2> QED
        BY <1>1, <2>2, Zenon
<1> QED
    BY <1>2, <1>3, Zenon

LEMMA NotReferenced ==
    ASSUME NEW c \in Conns, c \notin Referenced
    PROVE  \A q \in Publishers : c \notin worker[q].todo /\ c \notin worker[q].overran
<1>1. \A q \in Publishers : c \notin worker[q].todo \cup worker[q].overran
    BY DEF Referenced
<1> QED
    BY <1>1

\* A reader that is let in starts at its cursor, which its log has reached.
LEMMA SubscribeFeed ==
    ASSUME FeedInv, DeliveryInv', NEW c \in Conns, NEW a \in Agents, NEW x, NEW after,
           Subscribe(c, a, x, after)
    PROVE  Apart(stream') /\ Within(stream', sub', issued') /\ [Feed!Next]_Feed!vars
<1>1. PICK h \in Ensured(a) :
         /\ issued' = h.issued
         /\ \/ stream' = h.stream /\ sub' = h.sub
            \/ LetIn(h, c, a)
    BY SubscribeShows
<1>i. issued' = h.issued
    BY <1>1
<1>2. sub[c].state = "free" /\ c \notin Referenced /\ worker' = worker
    BY Zenon DEF Subscribe
<1>3. /\ Issued(h.stream, h.issued) /\ Apart(h.stream) /\ issued <= h.issued
      /\ h.sub \in [Conns -> SubType]
      /\ SameLogs(stream, issued, h.stream, h.issued)
      /\ \A d \in Conns : Quiet(sub[d], h.sub[d])
      /\ Within(h.stream, h.sub, h.issued)
    BY EnsuredFeed
<1>4. CASE stream' = h.stream /\ sub' = h.sub
    <2>1. /\ LogsShown
          /\ \A d \in Conns : sub'[d].session = sub[d].session /\ sub'[d].cursor = sub[d].cursor
        BY <1>1, <1>3, <1>4 DEF LogsShown, Quiet
    <2> QED
        BY <1>1, <1>3, <1>4, <2>1, FeedStutters
<1>5. ASSUME h.id # 0,
             NEW m, NEW l, stream' = [h.stream EXCEPT ![h.id].members = m, ![h.id].last = l],
             NEW n, NEW replay,
             sub' = [h.sub EXCEPT ![c] =
                       [NoSub EXCEPT !.state = "open", !.agent = a, !.id = h.id,
                                     !.session = h.stream[h.id].session,
                                     !.cursor = n, !.replay = replay]]
      PROVE  Apart(stream') /\ Within(stream', sub', issued') /\ [Feed!Next]_Feed!vars
    <2>1. /\ h.id \in Ids /\ h.stream[h.id].session # 0 /\ h.stream \in [Ids -> StreamType]
        BY <1>3, <1>5, FeedView, EnsuredStructure DEF Issued
    <2>2. \A s \in Ids : /\ stream'[s].session = h.stream[s].session
                         /\ stream'[s].sequence = h.stream[s].sequence
        BY <1>5, <2>1, MembersOnly
    <2>3. /\ sub'[c].state = "open" /\ sub'[c].id = h.id
          /\ sub'[c].session = h.stream[h.id].session
          /\ \A d \in Conns : d # c => sub'[d] = h.sub[d]
        <3> DEFINE u == [NoSub EXCEPT !.state = "open", !.agent = a, !.id = h.id,
                                      !.session = h.stream[h.id].session,
                                      !.cursor = n, !.replay = replay]
        <3>1. u.state = "open" /\ u.id = h.id /\ u.session = h.stream[h.id].session
            BY DEF NoSub
        <3>2. sub'[c] = u /\ \A d \in Conns : d # c => sub'[d] = h.sub[d]
            BY <1>3, <1>5
        <3> HIDE DEF u
        <3> QED
            BY <3>1, <3>2
    <2>4. /\ Structure(table', stream', sub', worker', issued')
          /\ Account(stream', sub', worker')
        BY DEF DeliveryInv, SafeInv, StructureInv
    <2>5. Issued(stream', h.issued) /\ sub' \in [Conns -> SubType]
        BY <1>i, <2>4, ViewIssued
    <2>6. Apart(stream') /\ SameLogs(h.stream, h.issued, stream', h.issued)
        BY <1>3, <2>2, <2>5, LogsStay
    <2>7. LogsShown
        BY <1>i, <1>3, <2>6 DEF LogsShown, SameLogs
    <2>8. PICK y \in Ids : y = h.stream[h.id].session
        <3>1. h.stream[h.id].session \in 0 .. MaxSessions
            BY <2>1 DEF StreamType
        <3> QED
            BY <2>1, <3>1, Constants DEF Ids
    <2>9. y \in 1 .. h.issued
        BY <1>3, <2>1, <2>8, Constants DEF Issued, Ids
    <2>10. LogOf(stream', h.issued, y) = stream'[h.id].sequence
        BY <2>1, <2>2, <2>5, <2>6, <2>8, LogFacts
    <2>11. Reach(sub'[c]) <= stream'[h.id].sequence /\ Reach(sub'[c]) \in Int
        <3> DEFINE st == stream'[h.id]
                   u == sub'[c]
        <3>1. \A q \in Publishers : c \notin worker'[q].todo /\ c \notin worker'[q].overran
            BY <1>2, NotReferenced
        <3>2. Accounted(st, u, worker', c)
            BY <2>3, <2>4, <3>1 DEF Account
        <3>3. st \in StreamType /\ u \in SubType
            BY <2>1, <2>5 DEF Issued
        <3> HIDE DEF st, u
        <3>4. Due(st, u, \E q \in Publishers : c \in worker'[q].todo) \in 0 .. Len(st.pending)
            BY <3>2 DEF Accounted, Queued
        <3>5. st.sequence \in Int /\ Len(st.pending) \in Nat
            BY <3>3, LenProperties, Constants DEF StreamType
        <3>6. Reach(u) \in Int
            BY <3>3, SubFields DEF Reach
        <3>7. st.sequence - Reach(u) \in 0 .. Len(st.pending)
            BY <3>1, <3>4, <3>5, <3>6 DEF Due
        <3> QED
            BY <3>5, <3>6, <3>7 DEF st, u
    <2>12. sub'[c].cursor \in 0 .. MaxSeq /\ sub'[c].cursor <= Reach(sub'[c])
        <3>1. sub'[c] \in SubType
            BY <2>5
        <3>2. sub'[c].cursor \in 0 .. MaxSeq
            BY <3>1, SubShape
        <3>3. sub'[c].cursor \in Int /\ Len(sub'[c].replay) \in Nat /\ Len(sub'[c].events) \in Nat
            BY <3>1, SubFields
        <3> QED
            BY <3>2, <3>3 DEF Reach
    <2>13. Fed(stream', issued', sub'[c])
        BY <1>i, <2>3, <2>8, <2>9, <2>10, <2>11 DEF Fed
    <2>14. ASSUME NEW d \in Conns, d # c
           PROVE  /\ Fed(stream', issued', sub'[d])
                  /\ sub'[d].session = sub[d].session /\ sub'[d].cursor = sub[d].cursor
        <3>1. sub'[d] = h.sub[d] /\ Quiet(sub[d], h.sub[d])
            BY <1>3, <2>3, <2>14
        <3>2. Quiet(h.sub[d], sub'[d])
            BY <3>1 DEF Quiet
        <3>3. h.issued <= h.issued
            BY <1>3, Constants DEF Issued
        <3>4. Fed(stream', h.issued, sub'[d])
            BY <1>3, <2>5, <2>6, <3>2, <3>3, WithinKept
        <3> QED
            BY <1>i, <3>1, <3>4 DEF Quiet
    <2>15. Within(stream', sub', issued') /\ ReadersShown(c)
        BY <2>13, <2>14 DEF Within, ReadersShown
    <2>16. sub[c].session = 0 /\ sub[c].cursor = 0
        BY <1>2, FeedView DEF Within, Fed
    <2>17. sub'[c].cursor <= LogOf(stream, issued, y)
        <3>1. LogOf(stream', h.issued, y) = LogOf(stream, issued, y)
            BY <1>i, <2>7 DEF LogsShown, SameLogs
        <3>2. stream'[h.id].sequence \in Int
            <4>1. stream'[h.id] \in StreamType
                BY <2>1, <2>5 DEF Issued
            <4> QED
                BY <4>1, Constants DEF StreamType
        <3>3. sub'[c].cursor \in Int
            BY <2>12, Constants
        <3> QED
            BY <2>10, <2>11, <2>12, <3>1, <3>2, <3>3
    <2>18. [Feed!Next]_Feed!vars
        BY <2>3, <2>7, <2>8, <2>12, <2>15, <2>16, <2>17, FeedOpens
    <2> QED
        BY <2>6, <2>15, <2>18
<1> QED
    <2>1. LetIn(h, c, a) => Apart(stream') /\ Within(stream', sub', issued') /\ [Feed!Next]_Feed!vars
        BY <1>5, Zenon DEF LetIn
    <2> QED
        BY <1>1, <1>4, <2>1
\* A stream at the start of its next session.
LEMMA WrappedType ==
    ASSUME NEW st \in StreamType, NEW n \in 1 .. MaxSessions, NEW r, r = Wrapped(st, n)
    PROVE  r \in StreamType /\ r.session = n /\ r.sequence = 0
<1>1. <<>> \in Seq(Event) /\ 0 \in 0 .. MaxSeq /\ n \in 0 .. MaxSessions
    BY EmptySeq, Constants
<1> QED
    BY <1>1 DEF Wrapped, StreamType

\* What Publish does to the stream it goes to.
Appends(h, st, kind, size) ==
    \E k \in EvictCounts(Append(st.ring, NextEvent(st, kind, size))) :
        stream' = [h.stream EXCEPT ![h.id] = Admit(st, NextEvent(st, kind, size), k)]

LEMMA PublishShows ==
    ASSUME NEW p \in Publishers, NEW a \in Agents, NEW kind \in Kinds, NEW size \in Sizes,
           Publish(p, a, kind, size)
    PROVE  \E h \in Ensured(a) :
              \/ UNCHANGED <<issued, stream, sub>>
              \/ /\ h.id # 0 /\ h.stream[h.id].sequence < MaxSeq
                 /\ Appends(h, h.stream[h.id], kind, size)
                 /\ sub' = h.sub /\ issued' = h.issued
              \/ /\ h.id # 0 /\ h.stream[h.id].sequence = MaxSeq /\ h.issued < MaxSessions
                 /\ Appends(h, Wrapped(h.stream[h.id], h.issued + 1), kind, size)
                 /\ sub' = CloseAll(h.sub, h.stream[h.id].members, "session_mismatch")
                 /\ issued' = h.issued + 1
BY DEF Publish, Appends

\* The stream an event was appended to, and the others.
LEMMA AppendsFacts ==
    ASSUME NEW h, h.stream \in [Ids -> StreamType], h.id \in Ids, clock \in 0 .. MaxClock,
           NEW st \in StreamType, st.session # 0, st.sequence < MaxSeq,
           NEW kind \in Kinds, NEW size \in Sizes, Appends(h, st, kind, size)
    PROVE  /\ stream'[h.id].session = st.session
           /\ stream'[h.id].sequence = st.sequence + 1
           /\ Others(h.stream, stream', h.id)
<1>1. PICK k \in EvictCounts(Append(st.ring, NextEvent(st, kind, size))) :
        stream' = [h.stream EXCEPT ![h.id] = Admit(st, NextEvent(st, kind, size), k)]
    BY DEF Appends
<1>2. PICK r : r = Admit(st, NextEvent(st, kind, size), k)
    OBVIOUS
<1>3. r.session = st.session /\ r.sequence = st.sequence + 1
    BY <1>2, AdmitType
<1>4. stream'[h.id] = r /\ \A s \in Ids : s # h.id => stream'[s] = h.stream[s]
    BY <1>1, <1>2
<1> QED
    BY <1>3, <1>4 DEF Others

\* A published event makes one log longer by one, whatever streams had to be
\* collected, evicted, created or wrapped for it.
LEMMA PublishFeed ==
    ASSUME FeedInv, StructureInv', NEW p \in Publishers, NEW a \in Agents, NEW kind \in Kinds,
           NEW size \in Sizes, Publish(p, a, kind, size)
    PROVE  Apart(stream') /\ Within(stream', sub', issued') /\ [Feed!Next]_Feed!vars
<1>1. PICK h \in Ensured(a) :
        \/ UNCHANGED <<issued, stream, sub>>
        \/ /\ h.id # 0 /\ h.stream[h.id].sequence < MaxSeq
           /\ Appends(h, h.stream[h.id], kind, size)
           /\ sub' = h.sub /\ issued' = h.issued
        \/ /\ h.id # 0 /\ h.stream[h.id].sequence = MaxSeq /\ h.issued < MaxSessions
           /\ Appends(h, Wrapped(h.stream[h.id], h.issued + 1), kind, size)
           /\ sub' = CloseAll(h.sub, h.stream[h.id].members, "session_mismatch")
           /\ issued' = h.issued + 1
    BY PublishShows
<1>2. /\ Issued(h.stream, h.issued) /\ Apart(h.stream) /\ h.stream \in [Ids -> StreamType]
      /\ h.sub \in [Conns -> SubType] /\ h.issued \in 0 .. MaxSessions
      /\ SameLogs(stream, issued, h.stream, h.issued)
      /\ \A d \in Conns : Quiet(sub[d], h.sub[d])
      /\ Within(h.stream, h.sub, h.issued)
    BY EnsuredFeed DEF Issued
<1>3. /\ h.id # 0 => h.id \in Ids /\ h.stream[h.id].session # 0
      /\ clock \in 0 .. MaxClock
    BY FeedView, EnsuredStructure DEF StructureInv
<1>4. Issued(stream', issued')
    <2>1. Structure(table', stream', sub', worker', issued')
        BY DEF StructureInv
    <2> QED
        BY <2>1, ViewIssued
<1>5. ASSUME NEW y \in Ids, OneMore(h.stream, h.issued, stream', issued', y), Apart(stream'),
             h.issued <= issued', \A d \in Conns : Quiet(h.sub[d], sub'[d])
      PROVE  Within(stream', sub', issued') /\ [Feed!Next]_Feed!vars
    <2>1. OneMore(stream, issued, stream', issued', y)
        BY <1>2, <1>5 DEF OneMore, SameLogs
    <2>2. \A d \in Conns : sub'[d].session = sub[d].session /\ sub'[d].cursor = sub[d].cursor
        BY <1>2, <1>5 DEF Quiet
    <2>3. Within(stream', sub', issued')
        BY <1>2, <1>4, <1>5, WithinKept DEF Within
    <2> QED
        BY <2>1, <2>2, <2>3, FeedGrows
<1>6. CASE UNCHANGED <<issued, stream, sub>>
    BY <1>6, QuietStep DEF Quiet
<1>7. CASE /\ h.id # 0 /\ h.stream[h.id].sequence < MaxSeq
           /\ Appends(h, h.stream[h.id], kind, size)
           /\ sub' = h.sub /\ issued' = h.issued
    <2>1. /\ stream'[h.id].session = h.stream[h.id].session
          /\ stream'[h.id].sequence = h.stream[h.id].sequence + 1
          /\ Others(h.stream, stream', h.id)
        <3>1. h.stream[h.id] \in StreamType
            BY <1>2, <1>3, <1>7
        <3> QED
            BY <1>2, <1>3, <1>7, <3>1, AppendsFacts
    <2>2. Issued(stream', h.issued) /\ h.issued <= issued'
        BY <1>2, <1>4, <1>7, Constants
    <2>3. PICK y \in Ids : OneMore(h.stream, h.issued, stream', h.issued, y) /\ Apart(stream')
        BY <1>2, <1>3, <1>7, <2>1, <2>2, LogGrows
    <2>4. \A d \in Conns : Quiet(h.sub[d], sub'[d])
        BY <1>7 DEF Quiet
    <2>5. OneMore(h.stream, h.issued, stream', issued', y)
        BY <1>7, <2>3
    <2> QED
        BY <1>5, <2>2, <2>3, <2>4, <2>5
<1>8. CASE /\ h.id # 0 /\ h.stream[h.id].sequence = MaxSeq /\ h.issued < MaxSessions
           /\ Appends(h, Wrapped(h.stream[h.id], h.issued + 1), kind, size)
           /\ sub' = CloseAll(h.sub, h.stream[h.id].members, "session_mismatch")
           /\ issued' = h.issued + 1
    <2>1. PICK st : st = Wrapped(h.stream[h.id], h.issued + 1)
        OBVIOUS
    <2>2. h.stream[h.id] \in StreamType /\ h.issued + 1 \in 1 .. MaxSessions /\ h.issued <= h.issued + 1
        BY <1>2, <1>3, <1>8, Constants
    <2>3. st \in StreamType /\ st.session = h.issued + 1 /\ st.sequence = 0
        BY <2>1, <2>2, WrappedType
    <2>4. st.session # 0 /\ st.sequence < MaxSeq /\ st.sequence + 1 = 1
        BY <2>2, <2>3, Constants
    <2>5. Appends(h, st, kind, size)
        BY <1>8, <2>1
    <2>6. /\ stream'[h.id].session = h.issued + 1 /\ stream'[h.id].sequence = 1
          /\ Others(h.stream, stream', h.id)
        BY <1>2, <1>3, <1>8, <2>3, <2>4, <2>5, AppendsFacts
    <2>7. Issued(stream', h.issued + 1)
        BY <1>4, <1>8
    <2>8. PICK y \in Ids : OneMore(h.stream, h.issued, stream', h.issued + 1, y) /\ Apart(stream')
        BY <1>2, <1>3, <1>8, <2>6, <2>7, LogWraps
    <2>9. \A d \in Conns : Quiet(h.sub[d], sub'[d])
        <3> SUFFICES ASSUME NEW d \in Conns PROVE Quiet(h.sub[d], sub'[d])
            OBVIOUS
        <3>1. sub'[d] = Close(h.sub[d], "session_mismatch") \/ sub'[d] = h.sub[d]
            BY <1>8 DEF CloseAll
        <3>2. Quiet(h.sub[d], Close(h.sub[d], "session_mismatch"))
            BY <1>2, CloseQuiet DEF Reasons
        <3> QED
            BY <3>1, <3>2 DEF Quiet
    <2>10. OneMore(h.stream, h.issued, stream', issued', y) /\ h.issued <= issued'
        BY <1>8, <2>2, <2>8
    <2> QED
        BY <1>5, <2>8, <2>9, <2>10
<1> QED
    BY <1>1, <1>6, <1>7, <1>8

\* Every step of the hub is a step of the feed, or shows nothing.
LEMMA FeedStep ==
    ASSUME FeedInv, [Next]_vars
    PROVE  FeedInv' /\ [Feed!Next]_Feed!vars
<1>1. DeliveryInv'
    BY DeliveryStep DEF FeedInv
<1>2. StructureInv'
    BY <1>1 DEF DeliveryInv, SafeInv
<1> DEFINE Goal == Apart(stream') /\ Within(stream', sub', issued') /\ [Feed!Next]_Feed!vars
<1>3. ASSUME NEW p \in Publishers, NEW a \in Agents, NEW kind \in Kinds, NEW size \in Sizes,
             Publish(p, a, kind, size)
      PROVE  Goal
    BY <1>2, <1>3, PublishFeed
<1>4. ASSUME NEW p \in Publishers, Fanout(p)
      PROVE  Goal
    BY <1>2, <1>4, DrainFeed, SendFeed DEF Fanout
<1>5. ASSUME NEW c \in Conns, NEW a \in Agents, NEW cur \in Cursors,
             Subscribe(c, a, cur[1], cur[2])
      PROVE  Goal
    BY <1>1, <1>5, SubscribeFeed
<1>6. ASSUME NEW c \in Conns, Receive(c) \/ Stop(c) \/ Leave(c) \/ RemoveSubscriber(c)
      PROVE  Goal
    BY <1>2, <1>6, ReceiveFeed, EndFeed, IdleFeed
<1>7. ASSUME NEW a \in Agents, Watermark(a)
      PROVE  Goal
    <2>1. PICK h \in Ensured(a) : stream' = h.stream /\ sub' = h.sub /\ issued' = h.issued
        BY <1>7 DEF Watermark
    <2>2. /\ Apart(h.stream) /\ SameLogs(stream, issued, h.stream, h.issued)
          /\ \A d \in Conns : Quiet(sub[d], h.sub[d])
          /\ Within(h.stream, h.sub, h.issued)
        BY EnsuredFeed
    <2>3. LogsShown
        BY <2>1, <2>2 DEF LogsShown
    <2>4. \A d \in Conns : sub'[d].session = sub[d].session /\ sub'[d].cursor = sub[d].cursor
        BY <2>1, <2>2 DEF Quiet
    <2> QED
        BY <2>1, <2>2, <2>3, <2>4, FeedStutters
<1>8. ASSUME Sweep \/ Tick \/ UNCHANGED vars
      PROVE  Goal
    BY <1>2, <1>8, IdleFeed
<1> HIDE DEF Goal
<1>9. Goal
    BY <1>3, <1>4, <1>5, <1>6, <1>7, <1>8, Zenon DEF Next
<1>10. Apart(stream') /\ Within(stream', sub', issued') /\ [Feed!Next]_Feed!vars
    BY <1>9 DEF Goal
<1> QED
    BY <1>1, <1>10, Zenon DEF FeedInv, Apart, Within, Fed, LogOf, Reach

\* The hub has no log and no reader before it starts.
LEMMA FeedStart == Init => Feed!Init /\ Apart(stream) /\ Within(stream, sub, issued)
<1> SUFFICES ASSUME Init PROVE Feed!Init /\ Apart(stream) /\ Within(stream, sub, issued)
    OBVIOUS
<1>1. /\ NoStream.session = 0 /\ NoSub.state = "free" /\ NoSub.session = 0 /\ NoSub.cursor = 0
    BY DEF NoStream, NoSub
<1>2. /\ \A s \in Ids : stream[s].session = 0
      /\ \A c \in Conns : sub[c].state = "free" /\ sub[c].session = 0 /\ sub[c].cursor = 0
      /\ issued = 0
    BY <1>1, Zenon DEF Init
<1>3. Apart(stream) /\ Within(stream, sub, issued)
    BY <1>2 DEF Apart, Within, Fed
<1>4. \A x \in Ids : LogLength(x) = 0
    BY <1>2 DEF LogLength, Ids
<1>5. [x \in Ids |-> LogLength(x)] = [x \in Feed!Sessions |-> 0]
    BY <1>4 DEF Feed!Sessions, Ids
<1>6. [c \in Conns |-> [session |-> sub[c].session, cursor |-> sub[c].cursor]]
      = [c \in Conns |-> Feed!Off]
    BY <1>2 DEF Feed!Off
<1> QED
    BY <1>3, <1>5, <1>6, Zenon DEF Feed!Init

\* Through all the streams, locks and buffers a subscriber sees an EventFeed:
\* the events of one session, each exactly once and in order, from its cursor.
THEOREM FeedImplemented == Spec => ImplementsFeed
<1>1. DeliveryInv /\ Init => FeedInv
    BY FeedStart DEF FeedInv
<1>2. FeedInv /\ [Next]_vars => FeedInv' /\ [Feed!Next]_Feed!vars
    BY FeedStep
<1>3. Init => Feed!Init
    BY FeedStart
<1> QED
    BY <1>1, <1>2, <1>3, DeliveryInvariant, PTL DEF Spec, ImplementsFeed, Feed!Spec

=============================================================================
