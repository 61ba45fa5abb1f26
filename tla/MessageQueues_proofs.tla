------------------------ MODULE MessageQueues_proofs ------------------------
(***************************************************************************)
(* The safety of the message queues, for every number of processes, of     *)
(* queues and of slots, and that they implement the abstract channel.      *)
(*                                                                         *)
(* The inductive invariant MqInv says of each queue that its lists hold    *)
(* those blocked in mq_send and in mq_receive on it (MqSound), and that    *)
(* its ring is in order (QueueOK).  Like SemInv it does not say that       *)
(* nobody blocks on anything else.                                         *)
(***************************************************************************)
EXTENDS MessageQueues, Kernel_proofs

\* What a slot or an inbox holds.
Contents == Messages \cup {NoMessage}

\* The queue is one of its capacity, its indices are as far apart as its count says, and
\* nobody waits for the messages it holds.
QueueOK(q) ==
    /\ q \in MqType
    /\ q.capacity \in Capacities \cup {0}
    /\ q.slots \in [0 .. q.capacity - 1 -> Contents]
    /\ q.count \in 0 .. q.capacity
    /\ IF q.capacity = 0 THEN q.head = 0 /\ q.tail = 0
                         ELSE /\ q.head \in 0 .. q.capacity - 1
                              /\ q.tail = (q.head + q.count) % q.capacity
    /\ q.wait_recv # <<>> => q.count = 0
    /\ IsInjective(q.wait_send) /\ IsInjective(q.wait_recv)

MqTypes ==
    /\ mq_rids \subseteq MqRids
    /\ mq \in [MqRids -> MqType]
    /\ last_mq_rid \in FirstMqRid .. MaxMqRid + 1
    /\ inbox \in [Pids -> Contents]

\* A rid that was not handed out yet is no queue's.
MqRidsFresh == \A rid \in mq_rids : rid < last_mq_rid

\* Whoever is blocked on a queue named a rid that was handed out.
MqWaitsNameRids == \A p \in Pids : InCall(sched, p, MqCalls) => sched.call[p].arg \in MqRids

\* Those blocked in the call num of queue rid.
BlockedInMq(s, num, rid) == {p \in Pids : InCall(s, p, {num}) /\ s.call[p].arg = rid}

MqSound(rid) ==
    /\ QueueOK(mq[rid])
    /\ ToSet(mq[rid].wait_send) = BlockedInMq(sched, "mq_send", rid)
    /\ ToSet(mq[rid].wait_recv) = BlockedInMq(sched, "mq_receive", rid)
    /\ rid \notin mq_rids => mq[rid] = NoQueue

MqInv ==
    /\ MqTypes
    /\ MqRidsFresh
    /\ MqWaitsNameRids
    /\ \A rid \in MqRids : MqSound(rid)

-----------------------------------------------------------------------------
(* The ring                                                                *)

\* A position of the ring, up to one turn further.
LEMMA OneTurn ==
    ASSUME NEW c \in Nat, NEW x \in Nat, x < c + c
    PROVE  x % c = IF x < c THEN x ELSE x - c
OBVIOUS

\* The write index, n positions after the read index h, moves with the count, and the
\* distance to it shrinks as the read index moves.
LEMMA RingMoves ==
    ASSUME NEW c \in Nat, NEW h \in 0 .. c - 1, NEW n \in 0 .. c
    PROVE  /\ (h + n) % c \in 0 .. c - 1
           /\ n < c => /\ (((h + n) % c) + 1) % c \in 0 .. c - 1
                       /\ (((h + n) % c) + 1) % c = (h + (n + 1)) % c
           /\ n > 0 => /\ (h + 1) % c \in 0 .. c - 1
                       /\ (((h + 1) % c) + (n - 1)) % c = (h + n) % c
<1> DEFINE t == (h + n) % c
           u == (h + 1) % c
<1>1. c > 0 /\ h \in Nat /\ h < c /\ n \in Nat /\ n <= c
  OBVIOUS
<1>2. t = IF h + n < c THEN h + n ELSE h + n - c
  BY <1>1, OneTurn
<1>3. u = IF h + 1 < c THEN h + 1 ELSE h + 1 - c
  BY <1>1, OneTurn
<1> HIDE DEF t, u
<1>4. t \in Nat /\ t < c /\ u \in Nat /\ u < c
  BY <1>1, <1>2, <1>3
<1>5. n < c => (t + 1) % c \in 0 .. c - 1 /\ (t + 1) % c = (h + (n + 1)) % c
  <2> SUFFICES ASSUME n < c PROVE (t + 1) % c \in 0 .. c - 1 /\ (t + 1) % c = (h + (n + 1)) % c
    OBVIOUS
  <2>1. (t + 1) % c = IF t + 1 < c THEN t + 1 ELSE t + 1 - c
    BY <1>1, <1>4, OneTurn
  <2>2. (h + (n + 1)) % c = IF h + (n + 1) < c THEN h + (n + 1) ELSE h + (n + 1) - c
    BY <1>1, OneTurn
  <2> QED
    BY <2>1, <2>2, <1>1, <1>2, <1>4
<1>6. n > 0 => (u + (n - 1)) % c = t
  <2> SUFFICES ASSUME n > 0 PROVE (u + (n - 1)) % c = t
    OBVIOUS
  <2>1. (u + (n - 1)) % c = IF u + (n - 1) < c THEN u + (n - 1) ELSE u + (n - 1) - c
    BY <1>1, <1>4, OneTurn
  <2> QED
    BY <2>1, <1>1, <1>2, <1>3
<1> QED
  BY <1>4, <1>5, <1>6 DEF t, u

\* The parts of a queue.
LEMMA QueueParts ==
    ASSUME NEW q, QueueOK(q)
    PROVE  /\ q.capacity \in Nat /\ q.count \in Nat /\ q.head \in Nat /\ q.tail \in Nat
           /\ q.count <= q.capacity
           /\ q.wait_send \in Seq(Pids) /\ q.wait_recv \in Seq(Pids)
           /\ q = [capacity |-> q.capacity, slots |-> q.slots, head |-> q.head, tail |-> q.tail,
                   count |-> q.count, wait_send |-> q.wait_send, wait_recv |-> q.wait_recv]
BY MessageQueuesAssumption DEF QueueOK, MqType

\* A queue just opened, and what is left where there is none, is in order.
LEMMA NewQueueOK ==
    ASSUME NEW c \in Capacities \cup {0}
    PROVE  /\ QueueOK(NewQueue(c))
           /\ NewQueue(c).wait_send = <<>> /\ NewQueue(c).wait_recv = <<>>
           /\ NewQueue(c).count = 0 /\ NewQueue(c).capacity = c
<1> DEFINE slots == [i \in 0 .. c - 1 |-> NoMessage]
           q == NewQueue(c)
<1>1. c \in Nat /\ slots \in [0 .. c - 1 -> Contents]
  BY MessageQueuesAssumption DEF Contents
<1>2. slots \in UNION {[0 .. x - 1 -> Contents] : x \in Capacities \cup {0}}
  BY <1>1
<1>3. <<>> \in Seq(Pids) /\ IsInjective(<<>>) /\ 0 \in Nat
  BY DEF IsInjective
<1>4. q = [capacity |-> c, slots |-> slots, head |-> 0, tail |-> 0, count |-> 0,
           wait_send |-> <<>>, wait_recv |-> <<>>]
  BY DEF NewQueue
<1> HIDE DEF slots, q
<1>5. q \in MqType
  BY <1>1, <1>2, <1>3, <1>4 DEF MqType, Contents
<1>6. c # 0 => 0 \in 0 .. c - 1 /\ 0 = (0 + 0) % c
  BY <1>1
<1>7. QueueOK(q)
  BY <1>1, <1>3, <1>4, <1>5, <1>6 DEF QueueOK
<1> QED
  BY <1>4, <1>7 DEF q

\* The same ring in two queues.
SameRing(q, r) ==
    /\ r.capacity = q.capacity /\ r.slots = q.slots /\ r.head = q.head /\ r.tail = q.tail
    /\ r.count = q.count

\* New senders.
LEMMA SendersSet ==
    ASSUME NEW q, QueueOK(q), NEW t \in Seq(Pids), IsInjective(t),
           NEW r, r = [q EXCEPT !.wait_send = t]
    PROVE  /\ QueueOK(r) /\ SameRing(q, r)
           /\ r.wait_send = t /\ r.wait_recv = q.wait_recv
<1>1. /\ r \in MqType /\ SameRing(q, r) /\ r.wait_send = t /\ r.wait_recv = q.wait_recv
  BY DEF QueueOK, MqType, SameRing
<1> QED
  BY <1>1 DEF QueueOK, SameRing

\* New receivers.
LEMMA ReceiversSet ==
    ASSUME NEW q, QueueOK(q), NEW t \in Seq(Pids), IsInjective(t), t # <<>> => q.count = 0,
           NEW r, r = [q EXCEPT !.wait_recv = t]
    PROVE  /\ QueueOK(r) /\ SameRing(q, r)
           /\ r.wait_send = q.wait_send /\ r.wait_recv = t
<1>1. /\ r \in MqType /\ SameRing(q, r) /\ r.wait_send = q.wait_send /\ r.wait_recv = t
  BY DEF QueueOK, MqType, SameRing
<1> QED
  BY <1>1 DEF QueueOK, SameRing

\* Put fills the slot at the write index and moves that on.
LEMMA PutOK ==
    ASSUME NEW q, QueueOK(q), ~IsFull(q), q.wait_recv = <<>>, NEW m \in Messages,
           NEW r, r = Put(q, m)
    PROVE  /\ QueueOK(r)
           /\ r.capacity = q.capacity /\ r.head = q.head /\ r.count = q.count + 1
           /\ q.tail \in 0 .. q.capacity - 1
           /\ r.slots = [q.slots EXCEPT ![q.tail] = m]
           /\ r.wait_send = q.wait_send /\ r.wait_recv = q.wait_recv
<1> DEFINE slots == [q.slots EXCEPT ![q.tail] = m]
           tail == (q.tail + 1) % q.capacity
           c == q.capacity
<1>1. /\ c \in Nat \ {0} /\ q.count \in Nat /\ q.count < c /\ c \in Capacities
      /\ q.head \in 0 .. c - 1 /\ q.tail = (q.head + q.count) % c
      /\ q.slots \in [0 .. c - 1 -> Contents]
  BY QueueParts DEF QueueOK, IsFull
<1>2. /\ q.tail \in 0 .. c - 1 /\ tail \in 0 .. c - 1
      /\ tail = (q.head + (q.count + 1)) % c
  <2> DEFINE h == q.head
             n == q.count
  <2>1. c \in Nat /\ h \in 0 .. c - 1 /\ n \in 0 .. c /\ n < c /\ q.tail = (h + n) % c
    BY <1>1
  <2> SUFFICES /\ (h + n) % c \in 0 .. c - 1 /\ (((h + n) % c) + 1) % c \in 0 .. c - 1
               /\ (((h + n) % c) + 1) % c = (h + (n + 1)) % c
    BY <2>1
  <2> HIDE DEF c, h, n
  <2> QED
    BY <2>1, RingMoves
<1>3. slots \in [0 .. c - 1 -> Contents]
  BY <1>1, <1>2 DEF Contents
<1>4. r = [q EXCEPT !.slots = slots, !.tail = tail, !.count = q.count + 1]
  BY DEF Put
<1>5. slots \in UNION {[0 .. x - 1 -> Contents] : x \in Capacities \cup {0}}
  BY <1>1, <1>3
<1> HIDE DEF slots, tail
<1>5a. r = [capacity |-> q.capacity, slots |-> slots, head |-> q.head, tail |-> tail,
            count |-> q.count + 1, wait_send |-> q.wait_send, wait_recv |-> q.wait_recv]
  BY <1>4, QueueParts
<1>6. /\ r \in MqType /\ r.capacity = q.capacity /\ r.head = q.head /\ r.count = q.count + 1
      /\ r.slots = slots /\ r.tail = tail
      /\ r.wait_send = q.wait_send /\ r.wait_recv = q.wait_recv
  BY <1>1, <1>2, <1>5a, <1>5, QueueParts DEF MqType, Contents
<1>7. QueueOK(r)
  <2>1. r.count \in 0 .. r.capacity
    BY <1>1, <1>6
  <2> QED
    BY <2>1, <1>1, <1>2, <1>3, <1>6 DEF QueueOK
<1> QED
  BY <1>2, <1>6, <1>7 DEF slots

\* Take moves the read index on.
LEMMA TakeOK ==
    ASSUME NEW q, QueueOK(q), ~IsEmpty(q),
           NEW r, r = Take(q)
    PROVE  /\ QueueOK(r)
           /\ r.capacity = q.capacity /\ r.slots = q.slots /\ r.count = q.count - 1
           /\ q.capacity > 0 /\ q.head \in 0 .. q.capacity - 1
           /\ r.head = (q.head + 1) % q.capacity
           /\ r.wait_send = q.wait_send /\ q.wait_recv = <<>> /\ r.wait_recv = <<>>
<1> DEFINE head == (q.head + 1) % q.capacity
           c == q.capacity
<1>1. /\ c \in Nat \ {0} /\ q.count \in Nat /\ q.count <= c /\ q.count > 0
      /\ q.head \in 0 .. c - 1 /\ q.tail = (q.head + q.count) % c
      /\ q.slots \in [0 .. c - 1 -> Contents]
  BY QueueParts DEF QueueOK, IsEmpty
<1>2. head \in 0 .. c - 1 /\ (head + (q.count - 1)) % c = (q.head + q.count) % c
  <2> DEFINE h == q.head
             n == q.count
  <2>1. c \in Nat /\ h \in 0 .. c - 1 /\ n \in 0 .. c /\ n > 0
    BY <1>1
  <2> SUFFICES (h + 1) % c \in 0 .. c - 1 /\ (((h + 1) % c) + (n - 1)) % c = (h + n) % c
    OBVIOUS
  <2> HIDE DEF c, h, n
  <2> QED
    BY <2>1, RingMoves
<1>3. r = [q EXCEPT !.head = head, !.count = q.count - 1]
  BY DEF Take
<1>4. q.wait_recv = <<>>
  <2>1. q.count # 0
    BY <1>1
  <2>2. q.wait_recv # <<>> => q.count = 0
    BY DEF QueueOK
  <2> QED
    BY <2>1, <2>2
<1> HIDE DEF head
<1>4a. r = [capacity |-> q.capacity, slots |-> q.slots, head |-> head, tail |-> q.tail,
            count |-> q.count - 1, wait_send |-> q.wait_send, wait_recv |-> q.wait_recv]
  <2> DEFINE n == q.count - 1
  <2>1. r = [q EXCEPT !.head = head, !.count = n] /\ q \in MqType
    BY <1>3 DEF QueueOK
  <2> HIDE DEF n
  <2>2. r = [capacity |-> q.capacity, slots |-> q.slots, head |-> head, tail |-> q.tail,
             count |-> n, wait_send |-> q.wait_send, wait_recv |-> q.wait_recv]
    BY <2>1 DEF MqType
  <2> QED
    BY <2>2 DEF n
<1>5. /\ r \in MqType /\ r.capacity = q.capacity /\ r.head = head /\ r.count = q.count - 1
      /\ r.slots = q.slots /\ r.tail = q.tail
      /\ r.wait_send = q.wait_send /\ r.wait_recv = q.wait_recv
  BY <1>1, <1>2, <1>4a, QueueParts, SMTT(30) DEF QueueOK, MqType
<1>6. QueueOK(r)
  <2>1. r.count \in 0 .. r.capacity
    BY <1>1, <1>5
  <2> QED
    BY <2>1, <1>1, <1>2, <1>4, <1>5 DEF QueueOK
<1> QED
  BY <1>1, <1>4, <1>5, <1>6 DEF head

-----------------------------------------------------------------------------
(* What a step does to one queue                                           *)

\* The step makes queue rid the record r.
MqBecomes(rid, r) ==
    /\ mq' \in [MqRids -> MqType]
    /\ mq'[rid] = r
    /\ \A x \in MqRids \ {rid} : mq'[x] = mq[x]

\* The types of the parts of the invariant.
LEMMA MqFacts ==
    ASSUME MqInv, NEW rid \in MqRids
    PROVE  /\ mq \in [MqRids -> MqType] /\ mq[rid] \in MqType
           /\ mq[rid].wait_send \in Seq(Pids) /\ mq[rid].wait_recv \in Seq(Pids)
           /\ mq_rids \subseteq MqRids /\ MqRids \subseteq Nat /\ last_mq_rid \in Nat
           /\ inbox \in [Pids -> Contents]
           /\ MqSound(rid) /\ QueueOK(mq[rid])
<1>1. /\ mq \in [MqRids -> MqType] /\ mq_rids \subseteq MqRids /\ last_mq_rid \in Nat
      /\ MqRids \subseteq Nat /\ MqSound(rid) /\ inbox \in [Pids -> Contents]
  BY MessageQueuesAssumption DEF MqInv, MqTypes, MqRids
<1>2. mq[rid] \in MqType /\ QueueOK(mq[rid])
  BY <1>1 DEF MqSound
<1> QED
  BY <1>1, <1>2, QueueParts

\* The step that gives queue rid the value r.
LEMMA MqSet ==
    ASSUME MqInv, NEW rid \in MqRids, NEW r, QueueOK(r), mq' = [mq EXCEPT ![rid] = r]
    PROVE  MqBecomes(rid, r)
BY MqFacts DEF MqBecomes, QueueOK

\* A step that leaves those blocked on a queue alone.
LEMMA MqWaitersStay ==
    ASSUME MqInv, KeepsCalls(sched, sched', MqCalls)
    PROVE  /\ \A rid \in MqRids : \A num \in MqCalls :
                BlockedInMq(sched', num, rid) = BlockedInMq(sched, num, rid)
           /\ MqWaitsNameRids'
<1>1. \A p \in Pids : \A num \in MqCalls : InCall(sched', p, {num}) <=> InCall(sched, p, {num})
  BY DEF KeepsCalls, InCall
<1>2. \A p \in Pids : \A num \in MqCalls : InCall(sched, p, {num}) => sched'.call[p] = sched.call[p]
  BY DEF KeepsCalls, InCall
<1>3. MqWaitsNameRids'
  BY DEF MqInv, KeepsCalls, MqWaitsNameRids
<1> QED
  BY <1>1, <1>2, <1>3 DEF BlockedInMq

\* The two calls that block on a queue.
LEMMA MqCallsAre == "mq_send" \in MqCalls /\ "mq_receive" \in MqCalls
BY DEF MqCalls

\* A step of somebody else's keeps the invariant.
LEMMA OthersKeepMqInv ==
    ASSUME MqInv, KeepsCalls(sched, sched', MqCalls), UNCHANGED mqVars
    PROVE  MqInv'
<1>1. MqTypes' /\ MqRidsFresh'
  BY DEF MqInv, MqTypes, MqRidsFresh, mqVars
<1>2. ASSUME NEW rid \in MqRids PROVE MqSound(rid)'
  BY MqFacts, MqWaitersStay, MqCallsAre DEF MqSound, mqVars
<1> QED
  BY <1>1, <1>2, MqWaitersStay DEF MqInv

\* A step that changes one open queue keeps the invariant if the queue is left in order,
\* with those blocked on it on its lists.
LEMMA MqChangeKeepsInv ==
    ASSUME MqInv, NEW rid \in mq_rids, NEW r, MqBecomes(rid, r), QueueOK(r),
           UNCHANGED <<mq_rids, last_mq_rid>>, inbox' \in [Pids -> Contents],
           ToSet(r.wait_send) = BlockedInMq(sched', "mq_send", rid),
           ToSet(r.wait_recv) = BlockedInMq(sched', "mq_receive", rid),
           \A x \in MqRids \ {rid} : \A num \in MqCalls :
             BlockedInMq(sched', num, x) = BlockedInMq(sched, num, x),
           MqWaitsNameRids'
    PROVE  MqInv'
<1>1. MqTypes' /\ MqRidsFresh'
  BY DEF MqInv, MqTypes, MqRidsFresh, MqBecomes
<1>2. ASSUME NEW x \in MqRids PROVE MqSound(x)'
  <2>1. CASE x = rid
    BY <2>1 DEF MqBecomes, MqSound
  <2>2. CASE x # rid
    BY <2>2, MqFacts, MqCallsAre DEF MqBecomes, MqSound
  <2> QED
    BY <2>1, <2>2
<1> QED
  BY <1>1, <1>2 DEF MqInv

\* Whoever blocks on a queue joins those blocked on that side of it, and on nothing else.
LEMMA MqBlocked ==
    ASSUME MqInv, NEW rid \in MqRids, NEW m \in Pids, ~BlockedOnResource(sched, m),
           NEW num \in MqCalls, Blocks(sched, sched', m, [num |-> num, arg |-> rid])
    PROVE  /\ BlockedInMq(sched', num, rid) = BlockedInMq(sched, num, rid) \cup {m}
           /\ m \notin BlockedInMq(sched, num, rid)
           /\ \A x \in MqRids : \A n \in MqCalls :
                x # rid \/ n # num => BlockedInMq(sched', n, x) = BlockedInMq(sched, n, x)
           /\ MqWaitsNameRids'
           /\ KeepsCalls(sched, sched', SemCalls)
<1> DEFINE c == [num |-> num, arg |-> rid]
<1>1. c.num = num /\ c.arg = rid /\ c.num \notin SemCalls
  BY CallKinds
<1> HIDE DEF c
<1>2. Blocks(sched, sched', m, c)
  BY DEF c
<1>3. KeepsCalls(sched, sched', SemCalls)
  BY <1>1, <1>2, CallKinds, BlocksKeepsCalls
<1>4. \A p \in Pids : \A n \in MqCalls :
        p # m => /\ InCall(sched', p, {n}) <=> InCall(sched, p, {n})
                 /\ InCall(sched, p, {n}) => sched'.call[p] = sched.call[p]
  BY <1>2, CallKinds DEF Blocks, InCall, BlockedOnResource
<1>5. /\ sched'.call[m].arg = rid
      /\ \A n \in MqCalls : /\ ~InCall(sched, m, {n})
                            /\ InCall(sched', m, {n}) <=> n = num
  BY <1>1, <1>2, CallKinds DEF Blocks, InCall, BlockedOnResource
<1>6. ASSUME NEW p \in Pids, InCall(sched', p, MqCalls) PROVE sched'.call[p].arg \in MqRids
  <2>1. PICK n \in MqCalls : InCall(sched', p, {n})
    BY <1>6 DEF InCall
  <2> QED
    BY <2>1, <1>4, <1>5 DEF MqInv, MqWaitsNameRids, InCall
<1>7. MqWaitsNameRids'
  BY <1>6 DEF MqWaitsNameRids
<1> QED
  BY <1>3, <1>4, <1>5, <1>7 DEF BlockedInMq

\* Whoever is woken from one queue leaves those blocked on it, and no others.
LEMMA MqUnblocked ==
    ASSUME MqInv, NEW rid \in MqRids, NEW w,
           w \subseteq BlockedInMq(sched, "mq_send", rid) \cup BlockedInMq(sched, "mq_receive", rid),
           Unblocks(sched, sched', w)
    PROVE  /\ \A n \in MqCalls : BlockedInMq(sched', n, rid) = BlockedInMq(sched, n, rid) \ w
           /\ \A x \in MqRids \ {rid} : \A n \in MqCalls :
                BlockedInMq(sched', n, x) = BlockedInMq(sched, n, x)
           /\ MqWaitsNameRids'
           /\ KeepsCalls(sched, sched', SemCalls)
<1>1. \A p \in w : p \in Pids /\ InCall(sched, p, MqCalls) /\ sched.call[p].arg = rid
  BY MqCallsAre DEF BlockedInMq, InCall
<1>2. \A p \in w : ~InCall(sched, p, SemCalls)
  BY <1>1, CallKinds DEF InCall
<1>3. KeepsCalls(sched, sched', SemCalls)
  BY <1>2, CallKinds, UnblocksKeepsCalls
<1>4. \A p \in Pids : \A n \in MqCalls :
        /\ InCall(sched', p, {n}) <=> InCall(sched, p, {n}) /\ p \notin w
        /\ InCall(sched', p, {n}) => sched'.call[p] = sched.call[p]
  BY CallKinds DEF Unblocks, InCall, BlockedOnResource
<1>5. ASSUME NEW p \in Pids, InCall(sched', p, MqCalls) PROVE sched'.call[p].arg \in MqRids
  <2>1. PICK n \in MqCalls : InCall(sched', p, {n})
    BY <1>5 DEF InCall
  <2> QED
    BY <2>1, <1>4 DEF MqInv, MqWaitsNameRids, InCall
<1>6. MqWaitsNameRids'
  BY <1>5 DEF MqWaitsNameRids
<1> QED
  BY <1>1, <1>3, <1>4, <1>6 DEF BlockedInMq

-----------------------------------------------------------------------------
(* The calls                                                               *)

\* What a call keeps: both invariants, and who is blocked on a semaphore.
MqKept == KernelInv' /\ MqInv' /\ KeepsCalls(sched, sched', SemCalls)

\* A call with no queue to act on, or no room for one more.
LEMMA MqRefusalsKeep ==
    ASSUME KernelInv, MqInv, MqOpenFails \/ \E rid \in MqRids : MqUnknown(rid)
    PROVE  MqKept
<1>1. EINVAL \in Int /\ ENOMEM \in Int
  BY DEF EINVAL, ENOMEM
<1>2. /\ Return(EINVAL) \/ Return(ENOMEM)
      /\ UNCHANGED <<processVars, ptrs, mqVars>>
  BY DEF MqUnknown, MqOpenFails
<1> QED
  BY <1>1, <1>2, ReturnKeepsCalls, OthersKeepMqInv DEF MqKept

\* A call that finds no block for its caller.
LEMMA MqStopsKeep ==
    ASSUME KernelInv, MqInv, NEW rid \in MqRids, MqBlocksWithoutPtr(rid)
    PROVE  MqKept
<1>1. "pool_exhausted" \in Halts /\ Stop("pool_exhausted") /\ UNCHANGED mqVars
  BY DEF MqBlocksWithoutPtr, Halts
<1> QED
  BY <1>1, StopKeepsCalls, OthersKeepMqInv DEF MqKept

\* mq_open makes an empty queue nobody waits for.
LEMMA MqOpenKeeps ==
    ASSUME KernelInv, MqInv, NEW c \in Capacities, MqOpen(c)
    PROVE  MqKept
<1> DEFINE rid == last_mq_rid
           r == NewQueue(c)
<1>1. /\ rid \in MqRids /\ rid \in Nat /\ rid \notin mq_rids
      /\ mq' = [mq EXCEPT ![rid] = r] /\ mq_rids' = mq_rids \cup {rid}
      /\ last_mq_rid' = rid + 1 /\ inbox' = inbox
      /\ Return(rid) /\ UNCHANGED <<processVars, ptrs>>
  BY MessageQueuesAssumption DEF MqOpen, MqInv, MqTypes, MqRidsFresh, MqRids
<1>2. KernelInv' /\ KeepsCalls(sched, sched', SemCalls) /\ KeepsCalls(sched, sched', MqCalls)
  BY <1>1, ReturnKeepsCalls
<1>3. \A x \in MqRids : \A num \in MqCalls : BlockedInMq(sched', num, x) = BlockedInMq(sched, num, x)
  BY <1>2, MqWaitersStay
<1>4. QueueOK(r) /\ r.wait_send = <<>> /\ r.wait_recv = <<>>
  BY NewQueueOK
<1>5. QueueOK(NoQueue) /\ NoQueue.wait_send = <<>> /\ NoQueue.wait_recv = <<>>
  BY NewQueueOK DEF NoQueue
<1> HIDE DEF r
<1>6. MqBecomes(rid, r)
  BY <1>1, <1>4, MqSet
<1>7. MqTypes' /\ MqRidsFresh'
  <2>1. last_mq_rid' \in FirstMqRid .. MaxMqRid + 1
    BY <1>1, MessageQueuesAssumption DEF MqRids
  <2>2. \A x \in mq_rids \cup {rid} : x < rid + 1
    <3> SUFFICES ASSUME NEW x \in mq_rids PROVE x < rid + 1
      BY <1>1
    <3>1. x \in Nat /\ x < rid
      BY MessageQueuesAssumption DEF MqInv, MqTypes, MqRidsFresh, MqRids
    <3> QED
      BY <3>1, <1>1
  <2> HIDE DEF rid
  <2> QED
    BY <2>1, <2>2, <1>1, <1>6 DEF MqInv, MqTypes, MqRidsFresh, MqBecomes
<1>8. ASSUME NEW x \in MqRids PROVE MqSound(x)'
  <2>1. CASE x = rid
    <3>1. /\ BlockedInMq(sched, "mq_send", rid) = ToSet(<<>>)
          /\ BlockedInMq(sched, "mq_receive", rid) = ToSet(<<>>)
      BY <1>1, <1>5, MqFacts DEF MqSound
    <3> QED
      BY <2>1, <3>1, <1>1, <1>3, <1>4, <1>6, MqCallsAre DEF MqSound, MqBecomes
  <2>2. CASE x # rid
    BY <2>2, <1>1, <1>3, <1>6, MqFacts, MqCallsAre DEF MqSound, MqBecomes
  <2> QED
    BY <2>1, <2>2
<1> QED
  BY <1>2, <1>7, <1>8, MqWaitersStay DEF MqInv, MqKept

\* mq_send puts its message into the ring.
LEMMA MqSendStoresKeeps ==
    ASSUME KernelInv, MqInv, NEW rid \in MqRids, NEW m \in Messages, MqSendStores(rid, m)
    PROVE  MqKept
<1> DEFINE r == Put(mq[rid], m)
<1>1. /\ rid \in mq_rids /\ mq[rid].wait_recv = <<>> /\ ~IsFull(mq[rid]) /\ 0 \in Int
      /\ mq' = [mq EXCEPT ![rid] = r]
      /\ Return(0) /\ UNCHANGED <<processVars, ptrs, mq_rids, last_mq_rid, inbox>>
  BY DEF MqSendStores
<1>2. KernelInv' /\ KeepsCalls(sched, sched', SemCalls) /\ KeepsCalls(sched, sched', MqCalls)
  BY <1>1, ReturnKeepsCalls
<1>3. QueueOK(r) /\ r.wait_send = mq[rid].wait_send /\ r.wait_recv = mq[rid].wait_recv
  <2> DEFINE q == mq[rid]
  <2>1. QueueOK(q) /\ r = Put(q, m) /\ q.wait_recv = <<>> /\ ~IsFull(q)
    BY <1>1, MqFacts
  <2> HIDE DEF q, r
  <2>2. QueueOK(r) /\ r.wait_send = q.wait_send /\ r.wait_recv = q.wait_recv
    BY <2>1, PutOK, ZenonT(30)
  <2> QED
    BY <2>2 DEF q
<1> HIDE DEF r
<1>4. MqBecomes(rid, r)
  BY <1>1, <1>3, MqSet
<1>5. /\ \A x \in MqRids : \A num \in MqCalls :
           BlockedInMq(sched', num, x) = BlockedInMq(sched, num, x)
      /\ MqWaitsNameRids'
  BY <1>2, MqWaitersStay
<1>6. /\ ToSet(r.wait_send) = BlockedInMq(sched', "mq_send", rid)
      /\ ToSet(r.wait_recv) = BlockedInMq(sched', "mq_receive", rid)
      /\ inbox' \in [Pids -> Contents]
  BY <1>1, <1>3, <1>5, MqFacts, MqCallsAre DEF MqSound
<1> QED
  BY <1>1, <1>2, <1>3, <1>4, <1>5, <1>6, MqChangeKeepsInv DEF MqKept

\* mq_send with a receiver waiting: the first receiver gets the message and leaves.
LEMMA MqSendHandsOverKeeps ==
    ASSUME KernelInv, MqInv, NEW rid \in MqRids, NEW m \in Messages, MqSendHandsOver(rid, m)
    PROVE  MqKept
<1> DEFINE s == mq[rid].wait_recv
           q == Tail(s)
           h == Head(s)
           w == <<h>>
           r == [mq[rid] EXCEPT !.wait_recv = q]
<1>1. /\ InUserCode /\ rid \in mq_rids /\ s # <<>>
      /\ mq' = [mq EXCEPT ![rid] = r]
      /\ inbox' = [inbox EXCEPT ![h] = m] /\ ret' = [ret EXCEPT ![h] = 0, ![me] = 0]
      /\ ptrs' = ptrs - 1 /\ EndTrap(WakeAll(sched, w))
      /\ UNCHANGED <<processVars, mq_rids, last_mq_rid>>
  BY DEF MqSendHandsOver, FreePtrs
<1>2. /\ QueueOK(mq[rid]) /\ s \in Seq(Pids) /\ IsInjective(s) /\ mq[rid].count = 0
      /\ ToSet(s) = BlockedInMq(sched, "mq_receive", rid)
      /\ ToSet(mq[rid].wait_send) = BlockedInMq(sched, "mq_send", rid)
  BY <1>1, MqFacts DEF MqSound, QueueOK
<1> HIDE DEF s
<1>3. /\ h \in ToSet(s) /\ h \in Pids /\ q \in Seq(Pids) /\ ToSet(q) = ToSet(s) \ {h} /\ IsInjective(q)
  BY <1>1, <1>2, SeqTail
<1>4. w \in Seq(Pids) /\ IsInjective(w) /\ ToSet(w) = {h} /\ Len(w) = 1
  BY <1>3 DEF IsInjective, ToSet
<1>5. \A p \in ToSet(w) : BlockedOnResource(sched, p)
  BY <1>2, <1>3, <1>4, CallKinds, MqCallsAre DEF BlockedInMq, InCall, BlockedOnResource
<1>6. ret' \in [Pids -> Int] /\ inbox' \in [Pids -> Contents]
  <2>1. ret \in [Pids -> Int] /\ 0 \in Int /\ inbox \in [Pids -> Contents] /\ m \in Contents
    BY MqFacts DEF KernelInv, KernelTypeOK, Contents
  <2> HIDE DEF h, w, q, r
  <2> QED
    BY <2>1, <1>1
<1> HIDE DEF q, h, w
<1>7. KernelInv' /\ Unblocks(sched, sched', ToSet(w))
  BY <1>1, <1>4, <1>5, <1>6, UnblockKeepsInv DEF processVars
<1>8. /\ \A n \in MqCalls : BlockedInMq(sched', n, rid) = BlockedInMq(sched, n, rid) \ ToSet(w)
      /\ \A x \in MqRids \ {rid} : \A n \in MqCalls :
           BlockedInMq(sched', n, x) = BlockedInMq(sched, n, x)
      /\ MqWaitsNameRids' /\ KeepsCalls(sched, sched', SemCalls)
  BY <1>2, <1>3, <1>4, <1>7, MqUnblocked
<1>9. QueueOK(r) /\ r.wait_send = mq[rid].wait_send /\ r.wait_recv = q
  BY <1>2, <1>3, ReceiversSet
<1> HIDE DEF r
<1>10. MqBecomes(rid, r)
  BY <1>1, <1>9, MqSet
<1>11. BlockedInMq(sched, "mq_send", rid) \cap ToSet(w) = {}
  BY <1>2, <1>3, <1>4 DEF BlockedInMq, InCall
<1>12. /\ ToSet(r.wait_send) = BlockedInMq(sched', "mq_send", rid)
       /\ ToSet(r.wait_recv) = BlockedInMq(sched', "mq_receive", rid)
  BY <1>2, <1>3, <1>4, <1>8, <1>9, <1>11, MqCallsAre
<1> QED
  BY <1>1, <1>6, <1>7, <1>8, <1>9, <1>10, <1>12, MqChangeKeepsInv DEF MqKept

\* mq_send on a full ring: the caller joins the senders.
LEMMA MqSendBlocksKeeps ==
    ASSUME KernelInv, MqInv, NEW rid \in MqRids, MqSendBlocks(rid)
    PROVE  MqKept
<1> DEFINE s == mq[rid].wait_send
           q == Append(s, me)
           r == [mq[rid] EXCEPT !.wait_send = q]
<1>1. /\ InUserCode /\ rid \in mq_rids /\ ptrs < MaxProcs
      /\ mq' = [mq EXCEPT ![rid] = r]
      /\ ptrs' = ptrs + 1 /\ EndTrap(ParkAndPop(sched, "mq_send", rid))
      /\ UNCHANGED <<processVars, ret, mq_rids, last_mq_rid, inbox>>
  BY DEF MqSendBlocks
<1>2. /\ QueueOK(mq[rid]) /\ s \in Seq(Pids) /\ IsInjective(s) /\ inbox \in [Pids -> Contents]
      /\ ToSet(s) = BlockedInMq(sched, "mq_send", rid)
      /\ ToSet(mq[rid].wait_recv) = BlockedInMq(sched, "mq_receive", rid)
  BY <1>1, MqFacts DEF MqSound, QueueOK
<1>3. rid \in Nat /\ "mq_send" \in ResourceCalls
  BY MqFacts, CallKinds, MqCallsAre
<1> HIDE DEF s
<1>4. /\ KernelInv' /\ me \in Pids /\ ~BlockedOnResource(sched, me)
      /\ Blocks(sched, sched', me, [num |-> "mq_send", arg |-> rid])
  BY <1>1, <1>3, BlockKeepsInv DEF processVars
<1>5. /\ BlockedInMq(sched', "mq_send", rid) = BlockedInMq(sched, "mq_send", rid) \cup {me}
      /\ me \notin BlockedInMq(sched, "mq_send", rid)
      /\ \A x \in MqRids : \A n \in MqCalls :
           x # rid \/ n # "mq_send" => BlockedInMq(sched', n, x) = BlockedInMq(sched, n, x)
      /\ MqWaitsNameRids' /\ KeepsCalls(sched, sched', SemCalls)
  BY <1>4, MqBlocked, MqCallsAre
<1>6. q \in Seq(Pids) /\ ToSet(q) = BlockedInMq(sched', "mq_send", rid) /\ IsInjective(q)
  <2>1. s \in Seq(Pids) /\ IsInjective(s) /\ me \in Pids /\ me \notin ToSet(s)
    BY <1>2, <1>4, <1>5
  <2>2. q \in Seq(Pids) /\ ToSet(q) = ToSet(s) \cup {me} /\ IsInjective(q)
    BY <2>1, SeqAppend
  <2> QED
    BY <2>2, <1>2, <1>5
<1> HIDE DEF q
<1>7. QueueOK(r) /\ r.wait_send = q /\ r.wait_recv = mq[rid].wait_recv
  BY <1>2, <1>6, SendersSet
<1> HIDE DEF r
<1>8. MqBecomes(rid, r)
  BY <1>1, <1>7, MqSet
<1>9. /\ ToSet(r.wait_send) = BlockedInMq(sched', "mq_send", rid)
      /\ ToSet(r.wait_recv) = BlockedInMq(sched', "mq_receive", rid)
      /\ inbox' \in [Pids -> Contents]
  BY <1>1, <1>2, <1>5, <1>6, <1>7, MqCallsAre
<1> QED
  BY <1>1, <1>4, <1>5, <1>7, <1>8, <1>9, MqChangeKeepsInv DEF MqKept

\* mq_receive on an empty ring: the caller joins the receivers.
LEMMA MqReceiveBlocksKeeps ==
    ASSUME KernelInv, MqInv, NEW rid \in MqRids, MqReceiveBlocks(rid)
    PROVE  MqKept
<1> DEFINE s == mq[rid].wait_recv
           q == Append(s, me)
           r == [mq[rid] EXCEPT !.wait_recv = q]
<1>1. /\ InUserCode /\ rid \in mq_rids /\ ptrs < MaxProcs /\ IsEmpty(mq[rid])
      /\ mq' = [mq EXCEPT ![rid] = r]
      /\ ptrs' = ptrs + 1 /\ EndTrap(ParkAndPop(sched, "mq_receive", rid))
      /\ UNCHANGED <<processVars, ret, mq_rids, last_mq_rid, inbox>>
  BY DEF MqReceiveBlocks
<1>2. /\ QueueOK(mq[rid]) /\ s \in Seq(Pids) /\ IsInjective(s) /\ inbox \in [Pids -> Contents]
      /\ ToSet(s) = BlockedInMq(sched, "mq_receive", rid)
      /\ ToSet(mq[rid].wait_send) = BlockedInMq(sched, "mq_send", rid)
  BY <1>1, MqFacts DEF MqSound, QueueOK
<1>2a. mq[rid].count = 0
  BY <1>1, <1>2, QueueParts DEF IsEmpty
<1>3. rid \in Nat /\ "mq_receive" \in ResourceCalls
  BY MqFacts, CallKinds, MqCallsAre
<1> HIDE DEF s
<1>4. /\ KernelInv' /\ me \in Pids /\ ~BlockedOnResource(sched, me)
      /\ Blocks(sched, sched', me, [num |-> "mq_receive", arg |-> rid])
  BY <1>1, <1>3, BlockKeepsInv DEF processVars
<1>5. /\ BlockedInMq(sched', "mq_receive", rid) = BlockedInMq(sched, "mq_receive", rid) \cup {me}
      /\ me \notin BlockedInMq(sched, "mq_receive", rid)
      /\ \A x \in MqRids : \A n \in MqCalls :
           x # rid \/ n # "mq_receive" => BlockedInMq(sched', n, x) = BlockedInMq(sched, n, x)
      /\ MqWaitsNameRids' /\ KeepsCalls(sched, sched', SemCalls)
  BY <1>4, MqBlocked, MqCallsAre
<1>6. q \in Seq(Pids) /\ ToSet(q) = BlockedInMq(sched', "mq_receive", rid) /\ IsInjective(q)
  <2>1. s \in Seq(Pids) /\ IsInjective(s) /\ me \in Pids /\ me \notin ToSet(s)
    BY <1>2, <1>4, <1>5
  <2>2. q \in Seq(Pids) /\ ToSet(q) = ToSet(s) \cup {me} /\ IsInjective(q)
    BY <2>1, SeqAppend
  <2> QED
    BY <2>2, <1>2, <1>5
<1> HIDE DEF q
<1>7. QueueOK(r) /\ r.wait_send = mq[rid].wait_send /\ r.wait_recv = q
  BY <1>2, <1>2a, <1>6, ReceiversSet
<1> HIDE DEF r
<1>8. MqBecomes(rid, r)
  BY <1>1, <1>7, MqSet
<1>9. /\ ToSet(r.wait_send) = BlockedInMq(sched', "mq_send", rid)
      /\ ToSet(r.wait_recv) = BlockedInMq(sched', "mq_receive", rid)
      /\ inbox' \in [Pids -> Contents]
  BY <1>1, <1>2, <1>5, <1>6, <1>7, MqCallsAre
<1> QED
  BY <1>1, <1>4, <1>5, <1>7, <1>8, <1>9, MqChangeKeepsInv DEF MqKept

\* The sender that a receive wakes is the first, and the others stay in their order.
LEMMA FirstSenderLeaves ==
    ASSUME NEW q, QueueOK(q),
           NEW w, w = FirstSender(q),
           NEW t, t = SubSeq(q.wait_send, 1 + Len(w), Len(q.wait_send))
    PROVE  /\ w \in Seq(Pids) /\ IsInjective(w) /\ ToSet(w) \subseteq ToSet(q.wait_send)
           /\ t \in Seq(Pids) /\ IsInjective(t) /\ ToSet(t) = ToSet(q.wait_send) \ ToSet(w)
           /\ Len(w) \in Nat
           /\ t = IF q.wait_send = <<>> THEN <<>> ELSE Tail(q.wait_send)
           /\ w = IF q.wait_send = <<>> THEN <<>> ELSE <<Head(q.wait_send)>>
<1> DEFINE s == q.wait_send
<1>1. s \in Seq(Pids) /\ IsInjective(s)
  BY QueueParts DEF QueueOK
<1>2. w = IF s = <<>> THEN <<>> ELSE <<Head(s)>>
  BY DEF FirstSender
<1>3. t = SubSeq(s, 1 + Len(w), Len(s))
  OBVIOUS
<1> HIDE DEF s
<1>4. CASE s = <<>>
  <2>1. w = <<>> /\ t = s /\ Len(w) = 0
    BY <1>1, <1>2, <1>3, <1>4, SubSeqFull, EmptySeq
  <2>2. ToSet(<<>>) = {} /\ IsInjective(<<>>) /\ <<>> \in Seq(Pids)
    BY SeqEmpty
  <2> QED
    BY <2>1, <2>2, <1>4 DEF s
<1>5. CASE s # <<>>
  <2>1. /\ Head(s) \in Pids /\ Head(s) \in ToSet(s) /\ Tail(s) \in Seq(Pids)
        /\ ToSet(Tail(s)) = ToSet(s) \ {Head(s)} /\ IsInjective(Tail(s))
    BY <1>1, <1>5, SeqTail
  <2>2. w = <<Head(s)>> /\ w \in Seq(Pids) /\ Len(w) = 1
    BY <1>2, <1>5, <2>1
  <2>3. ToSet(w) = {Head(s)} /\ IsInjective(w)
    BY <2>1, <2>2 DEF ToSet, IsInjective
  <2>4. t = Tail(s)
    BY <1>1, <1>3, <1>5, <2>2, TailIsSubSeq, SMTT(30)
  <2> QED
    BY <2>1, <2>2, <2>3, <2>4, <1>5 DEF s
<1> QED
  BY <1>4, <1>5

\* mq_receive takes the oldest message, and the first sender leaves.
LEMMA MqReceiveTakesKeeps ==
    ASSUME KernelInv, MqInv, NEW rid \in MqRids, MqReceiveTakes(rid)
    PROVE  MqKept
<1> DEFINE q == mq[rid]
           w == FirstSender(q)
           t == SubSeq(q.wait_send, 1 + Len(w), Len(q.wait_send))
           k == Take(q)
           r == [k EXCEPT !.wait_send = t]
<1>1. /\ InUserCode /\ rid \in mq_rids /\ ~IsEmpty(q)
      /\ inbox' = [inbox EXCEPT ![me] = q.slots[q.head]]
      /\ ptrs' = ptrs - Len(w) /\ EndTrap(WakeAll(sched, w))
      /\ ret' = [p \in Pids |-> IF p = me \/ p \in ToSet(w) THEN 0 ELSE ret[p]]
      /\ UNCHANGED <<processVars, mq_rids, last_mq_rid>>
  BY DEF MqReceiveTakes, FreePtrs
<1>2. mq' = [mq EXCEPT ![rid] = r]
  <2>1. k.wait_send = q.wait_send
    BY <1>1, MqFacts, TakeOK
  <2>2. mq' = [mq EXCEPT ![rid] = [k EXCEPT !.wait_send = SubSeq(k.wait_send, 1 + Len(w), Len(k.wait_send))]]
    BY DEF MqReceiveTakes
  <2> HIDE DEF k, w
  <2> QED
    BY <2>1, <2>2
<1>3. /\ QueueOK(q)
      /\ ToSet(q.wait_send) = BlockedInMq(sched, "mq_send", rid)
      /\ ToSet(q.wait_recv) = BlockedInMq(sched, "mq_receive", rid)
  BY MqFacts DEF MqSound
<1> HIDE DEF q
<1>4. /\ w \in Seq(Pids) /\ IsInjective(w) /\ ToSet(w) \subseteq BlockedInMq(sched, "mq_send", rid)
      /\ t \in Seq(Pids) /\ IsInjective(t) /\ ToSet(t) = BlockedInMq(sched, "mq_send", rid) \ ToSet(w)
      /\ Len(w) \in Nat
  BY <1>3, FirstSenderLeaves
<1>5. /\ QueueOK(k) /\ k.wait_recv = q.wait_recv
      /\ q.slots[q.head] \in Contents
  <2>1. /\ QueueOK(k) /\ k.wait_recv = q.wait_recv /\ q.head \in 0 .. q.capacity - 1
    BY <1>1, <1>3, TakeOK
  <2>2. q.slots \in [0 .. q.capacity - 1 -> Contents]
    BY <1>3 DEF QueueOK
  <2> QED
    BY <2>1, <2>2
<1>6. ret' \in [Pids -> Int] /\ inbox' \in [Pids -> Contents]
  <2>1. ret \in [Pids -> Int] /\ 0 \in Int /\ inbox \in [Pids -> Contents]
    BY MqFacts DEF KernelInv, KernelTypeOK
  <2> HIDE DEF w, t, k, r
  <2> QED
    BY <2>1, <1>1, <1>5
<1> HIDE DEF w, t, k
<1>7. QueueOK(r) /\ r.wait_send = t /\ r.wait_recv = q.wait_recv
  BY <1>4, <1>5, SendersSet
<1> HIDE DEF r
<1>8. MqBecomes(rid, r)
  BY <1>2, <1>7, MqSet
<1>9. \A p \in ToSet(w) : BlockedOnResource(sched, p)
  BY <1>4, CallKinds, MqCallsAre DEF BlockedInMq, InCall, BlockedOnResource
<1>10. KernelInv' /\ Unblocks(sched, sched', ToSet(w))
  BY <1>1, <1>4, <1>6, <1>9, UnblockKeepsInv DEF processVars
<1>11. /\ \A n \in MqCalls : BlockedInMq(sched', n, rid) = BlockedInMq(sched, n, rid) \ ToSet(w)
       /\ \A x \in MqRids \ {rid} : \A n \in MqCalls :
            BlockedInMq(sched', n, x) = BlockedInMq(sched, n, x)
       /\ MqWaitsNameRids' /\ KeepsCalls(sched, sched', SemCalls)
  BY <1>4, <1>10, MqUnblocked
<1>12. BlockedInMq(sched, "mq_receive", rid) \cap ToSet(w) = {}
  BY <1>4 DEF BlockedInMq, InCall
<1>13. /\ ToSet(r.wait_send) = BlockedInMq(sched', "mq_send", rid)
       /\ ToSet(r.wait_recv) = BlockedInMq(sched', "mq_receive", rid)
  BY <1>3, <1>4, <1>7, <1>11, <1>12, MqCallsAre
<1> QED
  BY <1>1, <1>6, <1>7, <1>8, <1>10, <1>11, <1>13, MqChangeKeepsInv DEF MqKept

\* Those whom a close wakes are those on either list, each once.
LEMMA BothListsWake ==
    ASSUME MqInv, NEW rid \in MqRids,
           NEW w, w = MqWokenByClose(mq[rid])
    PROVE  /\ w \in Seq(Pids) /\ IsInjective(w) /\ Len(w) \in Nat
           /\ ToSet(w) = BlockedInMq(sched, "mq_send", rid) \cup BlockedInMq(sched, "mq_receive", rid)
<1> DEFINE s == mq[rid].wait_send
           t == mq[rid].wait_recv
<1>1. /\ s \in Seq(Pids) /\ IsInjective(s) /\ ToSet(s) = BlockedInMq(sched, "mq_send", rid)
      /\ t \in Seq(Pids) /\ IsInjective(t) /\ ToSet(t) = BlockedInMq(sched, "mq_receive", rid)
      /\ w = s \o t
  BY MqFacts DEF MqSound, QueueOK, MqWokenByClose
<1> HIDE DEF s, t
<1>2. ToSet(s) \cap ToSet(t) = {}
  BY <1>1 DEF BlockedInMq, InCall
<1> QED
  BY <1>1, <1>2, SeqConcat, LenProperties

\* mq_close wakes everybody on either list, and leaves none behind.
LEMMA MqCloseKeeps ==
    ASSUME KernelInv, MqInv, NEW rid \in MqRids, MqClose(rid)
    PROVE  MqKept
<1> DEFINE w == MqWokenByClose(mq[rid])
<1>1. /\ InUserCode /\ rid \in mq_rids /\ mq_rids' = mq_rids \ {rid}
      /\ mq' = [mq EXCEPT ![rid] = NoQueue] /\ inbox' = inbox
      /\ ptrs' = ptrs - Len(w) /\ EndTrap(WakeAll(sched, w))
      /\ ret' = [p \in Pids |-> MqCloseResult(ToSet(w), p)]
      /\ UNCHANGED <<processVars, last_mq_rid>>
  BY DEF MqClose, FreePtrs
<1>2. /\ w \in Seq(Pids) /\ IsInjective(w)
      /\ ToSet(w) = BlockedInMq(sched, "mq_send", rid) \cup BlockedInMq(sched, "mq_receive", rid)
  BY BothListsWake
<1>3. \A p \in ToSet(w) : BlockedOnResource(sched, p)
  BY <1>2, CallKinds, MqCallsAre DEF BlockedInMq, InCall, BlockedOnResource
<1>4. ret' \in [Pids -> Int]
  BY <1>1 DEF KernelInv, KernelTypeOK, MqCloseResult, EMQ_CLOSED
<1> HIDE DEF w
<1>5. KernelInv' /\ Unblocks(sched, sched', ToSet(w))
  BY <1>1, <1>2, <1>3, <1>4, UnblockKeepsInv DEF processVars
<1>6. /\ \A n \in MqCalls : BlockedInMq(sched', n, rid) = BlockedInMq(sched, n, rid) \ ToSet(w)
      /\ \A x \in MqRids \ {rid} : \A n \in MqCalls :
           BlockedInMq(sched', n, x) = BlockedInMq(sched, n, x)
      /\ MqWaitsNameRids' /\ KeepsCalls(sched, sched', SemCalls)
  BY <1>2, <1>5, MqUnblocked
<1>7. BlockedInMq(sched', "mq_send", rid) = {} /\ BlockedInMq(sched', "mq_receive", rid) = {}
  BY <1>2, <1>6, MqCallsAre
<1>8. QueueOK(NoQueue) /\ NoQueue.wait_send = <<>> /\ NoQueue.wait_recv = <<>>
  BY NewQueueOK DEF NoQueue
<1>9. MqBecomes(rid, NoQueue)
  BY <1>1, <1>8, MqSet
<1>10. MqTypes' /\ MqRidsFresh'
  BY <1>1, <1>9 DEF MqInv, MqTypes, MqRidsFresh, MqBecomes
<1>11. ASSUME NEW x \in MqRids PROVE MqSound(x)'
  <2>1. CASE x = rid
    BY <2>1, <1>7, <1>8, <1>9, SeqEmpty DEF MqSound, MqBecomes
  <2>2. CASE x # rid
    <3>1. mq'[x] = mq[x] /\ (x \in mq_rids' <=> x \in mq_rids)
      BY <2>2, <1>1, <1>9 DEF MqBecomes
    <3> QED
      BY <2>2, <3>1, <1>6, MqFacts, MqCallsAre DEF MqSound
  <2> QED
    BY <2>1, <2>2
<1> QED
  BY <1>5, <1>6, <1>10, <1>11 DEF MqInv, MqKept

\* Every call on a queue keeps both invariants.
LEMMA MqCallKeeps ==
    ASSUME KernelInv, MqInv, MqCall
    PROVE  MqKept
<1>1. ASSUME NEW c \in Capacities, MqOpen(c) PROVE MqKept
  BY <1>1, MqOpenKeeps
<1>2. ASSUME MqOpenFails \/ \E rid \in MqRids : MqUnknown(rid) PROVE MqKept
  BY <1>2, MqRefusalsKeep
<1>3. ASSUME NEW rid \in MqRids, NEW m \in Messages,
             MqSendHandsOver(rid, m) \/ MqSendStores(rid, m)
      PROVE  MqKept
  BY <1>3, MqSendHandsOverKeeps, MqSendStoresKeeps
<1>4. ASSUME NEW rid \in MqRids,
             MqSendBlocks(rid) \/ MqReceiveBlocks(rid) \/ MqBlocksWithoutPtr(rid)
      PROVE  MqKept
  BY <1>4, MqSendBlocksKeeps, MqReceiveBlocksKeeps, MqStopsKeep
<1>5. ASSUME NEW rid \in MqRids, MqReceiveTakes(rid) \/ MqClose(rid) PROVE MqKept
  BY <1>5, MqReceiveTakesKeeps, MqCloseKeeps
<1> QED
  BY <1>1, <1>2, <1>3, <1>4, <1>5 DEF MqCall

-----------------------------------------------------------------------------
(* The theorems                                                            *)

\* At the start there are no queues, and nobody is blocked.
LEMMA MqInitEstablishesInv ==
    ASSUME KernelInit, MqInit
    PROVE  MqInv
<1>1. \A p \in Pids : sched.status[p] # "Waiting"
  BY DEF KernelInit
<1>2. /\ MqWaitsNameRids
      /\ \A rid \in MqRids : \A n \in MqCalls : BlockedInMq(sched, n, rid) = {}
  BY <1>1 DEF MqWaitsNameRids, BlockedInMq, InCall
<1>3. QueueOK(NoQueue) /\ NoQueue.wait_send = <<>> /\ NoQueue.wait_recv = <<>>
  BY NewQueueOK DEF NoQueue
<1>4. mq_rids = {} /\ mq = [rid \in MqRids |-> NoQueue] /\ last_mq_rid = FirstMqRid
      /\ inbox = [p \in Pids |-> NoMessage]
  BY DEF MqInit
<1>5. MqTypes /\ MqRidsFresh
  BY <1>3, <1>4, MessageQueuesAssumption DEF MqTypes, MqRidsFresh, QueueOK, Contents
<1>6. ASSUME NEW rid \in MqRids PROVE MqSound(rid)
  <2>1. mq[rid] = NoQueue
    BY <1>4
  <2> QED
    BY <2>1, <1>2, <1>3, SeqEmpty, MqCallsAre DEF MqSound
<1> QED
  BY <1>2, <1>5, <1>6 DEF MqInv

\* Every step keeps the invariant.
LEMMA MqNextKeepsInv ==
    ASSUME KernelInv, MqInv, [QueuesNext]_queuesVars
    PROVE  KernelInv' /\ MqInv'
<1>1. CASE MqCall
  BY <1>1, MqCallKeeps DEF MqKept
<1>2. CASE [KernelNext]_kernelVars /\ UNCHANGED mqVars
  <2>1. KernelInv' /\ KeepsCalls(sched, sched', MqCalls)
    BY <1>2, KernelStepKeeps, CallKinds, BlockedKeepCalls
  <2> QED
    BY <1>2, <2>1, OthersKeepMqInv
<1> QED
  BY <1>1, <1>2 DEF QueuesNext, queuesVars

\* The invariants of the kernel and of the queues hold in every behaviour.
THEOREM QueuesInvariant == QueuesSpec => [](KernelInv /\ MqInv)
<1>1. QueuesInit => KernelInv /\ MqInv
  BY InitEstablishesInv, MqInitEstablishesInv DEF QueuesInit
<1>2. KernelInv /\ MqInv /\ [QueuesNext]_queuesVars => (KernelInv /\ MqInv)'
  BY MqNextKeepsInv
<1> QED
  BY <1>1, <1>2, PTL DEF QueuesSpec

\* What the two invariants say in the words of MqWaitersAreBlocked.
LEMMA MqInvTellsWaiters ==
    ASSUME KernelInv, MqInv
    PROVE  MqWaitersAreBlocked
<1>1. MqTypeOK
  BY DEF KernelInv, MqInv, MqTypes, MqTypeOK, Contents
<1>2. ASSUME NEW rid \in MqRids, NEW num \in MqCalls
      PROVE  BlockedInMq(sched, num, rid) = BlockedIn(num, rid)
  BY InvTypes DEF BlockedInMq, BlockedIn, InCall, Calls
<1>3. ASSUME NEW rid \in MqRids PROVE IsInjective(Waiters(mq[rid]))
  <2>1. Waiters(mq[rid]) = MqWokenByClose(mq[rid])
    BY DEF Waiters, MqWokenByClose
  <2> QED
    BY <2>1, BothListsWake
<1>4. ASSUME NEW rid \in MqRids, rid \notin mq_rids PROVE Waiters(mq[rid]) = <<>>
  <2>1. mq[rid].wait_send = <<>> /\ mq[rid].wait_recv = <<>>
    BY <1>4, MqFacts, NewQueueOK DEF MqSound, NoQueue
  <2> QED
    BY <2>1, ConcatEmptySeq, EmptySeq DEF Waiters
<1> QED
  BY <1>1, <1>2, <1>3, <1>4, MqFacts, MqCallsAre DEF MqWaitersAreBlocked, MqSound

\* A process is blocked in mq_send or mq_receive exactly while it is on that list of that
\* queue, once.
THEOREM MqWaitersAreRight == QueuesSpec => []MqWaitersAreBlocked
<1>1. KernelInv /\ MqInv => MqWaitersAreBlocked
  BY MqInvTellsWaiters
<1> QED
  BY <1>1, QueuesInvariant, PTL

\* The indices stay in the ring and the count is the distance between them, and no message
\* lies in the ring while a receiver waits.
THEOREM RingsAreConsistent == QueuesSpec => []RingConsistent
<1>1. ASSUME MqInv, NEW rid \in mq_rids
      PROVE  /\ mq[rid].count \in 0 .. mq[rid].capacity
             /\ mq[rid].capacity > 0 =>
                  /\ mq[rid].head \in 0 .. mq[rid].capacity - 1
                  /\ mq[rid].tail = (mq[rid].head + mq[rid].count) % mq[rid].capacity
             /\ mq[rid].wait_recv # <<>> => mq[rid].count = 0
  <2>1. QueueOK(mq[rid]) /\ (mq[rid].capacity > 0 => mq[rid].capacity # 0)
    BY <1>1, MqFacts, QueueParts DEF MqInv, MqTypes
  <2> QED
    BY <2>1 DEF QueueOK
<1>2. MqInv => RingConsistent
  BY <1>1 DEF RingConsistent
<1> QED
  BY <1>2, QueuesInvariant, PTL

\* Those who wait for a queue.
LEMMA WaitersOf ==
    ASSUME NEW q, QueueOK(q)
    PROVE  ToSet(Waiters(q)) = ToSet(q.wait_send) \cup ToSet(q.wait_recv)
BY QueueParts, SeqConcat DEF Waiters

\* The lists lose somebody only in a hand-over, in a receive and in a close.
LEMMA OnlyTheseWake ==
    ASSUME KernelInv, MqInv, [QueuesNext]_queuesVars,
           \A rid \in MqRids : /\ \A m \in Messages : ~MqSendHandsOver(rid, m)
                               /\ ~MqReceiveTakes(rid) /\ ~MqClose(rid),
           NEW x \in MqRids
    PROVE  ToSet(Waiters(mq[x])) \subseteq ToSet(Waiters(mq'[x]))
<1>1. MqInv'
  BY MqNextKeepsInv
<1>2. /\ ToSet(Waiters(mq[x])) = BlockedInMq(sched, "mq_send", x)
                                   \cup BlockedInMq(sched, "mq_receive", x)
      /\ ToSet(Waiters(mq'[x])) = BlockedInMq(sched', "mq_send", x)
                                    \cup BlockedInMq(sched', "mq_receive", x)
  <2>1. /\ QueueOK(mq'[x])
        /\ ToSet(mq'[x].wait_send) = BlockedInMq(sched', "mq_send", x)
        /\ ToSet(mq'[x].wait_recv) = BlockedInMq(sched', "mq_receive", x)
    BY <1>1 DEF MqInv, MqSound
  <2> QED
    BY <2>1, MqFacts, WaitersOf DEF MqSound
<1> SUFFICES \A n \in MqCalls : BlockedInMq(sched, n, x) \subseteq BlockedInMq(sched', n, x)
  BY <1>2, MqCallsAre
<1>3. CASE KeepsCalls(sched, sched', MqCalls)
  BY <1>3, MqWaitersStay
<1>4. ASSUME Return(EINVAL) \/ Return(ENOMEM) \/ Return(0)
             \/ (last_mq_rid <= MaxMqRid /\ Return(last_mq_rid)),
             UNCHANGED <<processVars, ptrs>>
      PROVE  KeepsCalls(sched, sched', MqCalls)
  <2>1. EINVAL \in Int /\ ENOMEM \in Int /\ 0 \in Int /\ last_mq_rid \in Int
    BY MqFacts DEF EINVAL, ENOMEM
  <2> QED
    BY <1>4, <2>1, ReturnKeepsCalls
<1>5. ASSUME Stop("pool_exhausted") PROVE KeepsCalls(sched, sched', MqCalls)
  BY <1>5, StopKeepsCalls DEF Halts
<1>6. ASSUME [KernelNext]_kernelVars PROVE KeepsCalls(sched, sched', MqCalls)
  BY <1>6, KernelStepKeeps, CallKinds, BlockedKeepCalls
<1>7. ASSUME NEW rid \in MqRids, MqSendBlocks(rid) \/ MqReceiveBlocks(rid)
      PROVE  \A n \in MqCalls : BlockedInMq(sched, n, x) \subseteq BlockedInMq(sched', n, x)
  <2>1. PICK num \in MqCalls : EndTrap(ParkAndPop(sched, num, rid))
    BY <1>7, MqCallsAre DEF MqSendBlocks, MqReceiveBlocks
  <2>2. /\ InUserCode /\ ptrs < MaxProcs /\ ptrs' = ptrs + 1 /\ UNCHANGED <<processVars, ret>>
    BY <1>7 DEF MqSendBlocks, MqReceiveBlocks
  <2>3. rid \in Nat /\ num \in ResourceCalls
    BY MqFacts, CallKinds
  <2>4. me \in Pids /\ ~BlockedOnResource(sched, me)
        /\ Blocks(sched, sched', me, [num |-> num, arg |-> rid])
    BY <2>1, <2>2, <2>3, BlockKeepsInv DEF processVars
  <2> QED
    BY <2>4, MqBlocked
<1> QED
  BY <1>3, <1>4, <1>5, <1>6, <1>7
     DEF QueuesNext, queuesVars, MqCall, MqOpen, MqOpenFails, MqUnknown, MqSendStores,
         MqBlocksWithoutPtr

\* A process leaves mq_send or mq_receive with 0 or, when the queue was closed, with the error.
THEOREM MqCallsTellOfClose == QueuesSpec => MqResultTellsClose
<1> DEFINE Told == \A rid \in MqRids : \A p \in ToSet(Waiters(mq[rid])) :
                     p \notin ToSet(Waiters(mq'[rid])) =>
                       ret'[p] = IF rid \in mq_rids' THEN 0 ELSE EMQ_CLOSED
<1>1. ASSUME KernelInv, MqInv, [QueuesNext]_queuesVars,
             NEW x \in MqRids, NEW p \in ToSet(Waiters(mq[x])), p \notin ToSet(Waiters(mq'[x]))
      PROVE  ret'[p] = IF x \in mq_rids' THEN 0 ELSE EMQ_CLOSED
  <2>0. /\ p \in Pids /\ ret \in [Pids -> Int] /\ mq \in [MqRids -> MqType]
        /\ ToSet(Waiters(mq[x])) = ToSet(mq[x].wait_send) \cup ToSet(mq[x].wait_recv)
    <3>1. ToSet(Waiters(mq[x])) = ToSet(mq[x].wait_send) \cup ToSet(mq[x].wait_recv)
      BY <1>1, MqFacts, WaitersOf
    <3> QED
      BY <1>1, <3>1, MqFacts DEF MqSound, BlockedInMq, KernelInv, KernelTypeOK
  <2>1. PICK rid \in MqRids : \/ \E m \in Messages : MqSendHandsOver(rid, m)
                              \/ MqReceiveTakes(rid) \/ MqClose(rid)
    BY <1>1, OnlyTheseWake
  <2>2. ASSUME NEW m \in Messages, MqSendHandsOver(rid, m)
        PROVE  ret'[p] = IF x \in mq_rids' THEN 0 ELSE EMQ_CLOSED
    <3> DEFINE s == mq[rid].wait_recv
               q == Tail(s)
               h == Head(s)
               r == [mq[rid] EXCEPT !.wait_recv = q]
    <3>1. /\ mq' = [mq EXCEPT ![rid] = r] /\ s # <<>>
          /\ ret' = [ret EXCEPT ![h] = 0, ![me] = 0]
          /\ rid \in mq_rids'
      BY <2>2 DEF MqSendHandsOver
    <3>2. /\ mq[rid].count = 0 /\ QueueOK(mq[rid])
          /\ s \in Seq(Pids) /\ q \in Seq(Pids) /\ ToSet(q) = ToSet(s) \ {h} /\ IsInjective(q)
      BY <1>1, <3>1, MqFacts, SeqTail DEF QueueOK
    <3> HIDE DEF q, h, s
    <3>3. QueueOK(r) /\ r.wait_send = mq[rid].wait_send /\ r.wait_recv = q
      BY <3>2, ReceiversSet
    <3> HIDE DEF r
    <3>4. MqBecomes(rid, r)
      BY <1>1, <3>1, <3>3, MqSet
    <3>5. x = rid
      BY <3>4, <1>1 DEF MqBecomes
    <3>6. p = h
      <4>1. ToSet(Waiters(r)) = ToSet(mq[rid].wait_send) \cup (ToSet(s) \ {h})
        BY <3>2, <3>3, WaitersOf
      <4>2. p \in ToSet(mq[rid].wait_send) \cup ToSet(s) /\ p \notin ToSet(Waiters(r))
        BY <2>0, <1>1, <3>4, <3>5 DEF MqBecomes, s
      <4> QED
        BY <4>1, <4>2
    <3>7. ret'[p] = 0
      BY <3>1, <3>6, <2>0
    <3> QED
      BY <3>1, <3>5, <3>7
  <2>3. CASE MqReceiveTakes(rid)
    <3> DEFINE q == mq[rid]
               w == FirstSender(q)
               t == SubSeq(q.wait_send, 1 + Len(w), Len(q.wait_send))
               k == Take(q)
               r == [k EXCEPT !.wait_send = t]
    <3>0. QueueOK(q) /\ ~IsEmpty(q) /\ rid \in mq_rids'
      BY <1>1, <2>3, MqFacts DEF MqReceiveTakes
    <3>1. /\ ret' = [y \in Pids |-> IF y = me \/ y \in ToSet(w) THEN 0 ELSE ret[y]]
          /\ mq' = [mq EXCEPT ![rid] = [k EXCEPT !.wait_send = SubSeq(@, 1 + Len(w), Len(@))]]
      BY <2>3 DEF MqReceiveTakes
    <3> HIDE DEF q
    <3>2. QueueOK(k) /\ k.wait_send = q.wait_send /\ k.wait_recv = q.wait_recv
      BY <3>0, TakeOK
    <3>3. mq' = [mq EXCEPT ![rid] = r]
      <4> HIDE DEF k, w
      <4> QED
        BY <3>1, <3>2
    <3>4. t \in Seq(Pids) /\ IsInjective(t) /\ ToSet(t) = ToSet(q.wait_send) \ ToSet(w)
      BY <3>0, FirstSenderLeaves
    <3> HIDE DEF k, w, t
    <3>5. QueueOK(r) /\ r.wait_send = t /\ r.wait_recv = q.wait_recv
      BY <3>2, <3>4, SendersSet
    <3> HIDE DEF r
    <3>6. MqBecomes(rid, r)
      BY <1>1, <3>3, <3>5, MqSet
    <3>7. x = rid
      BY <3>6, <1>1 DEF MqBecomes
    <3>8. p \in ToSet(w)
      <4>1. ToSet(Waiters(r)) = (ToSet(q.wait_send) \ ToSet(w)) \cup ToSet(q.wait_recv)
        BY <3>4, <3>5, WaitersOf
      <4>2. p \in ToSet(q.wait_send) \cup ToSet(q.wait_recv) /\ p \notin ToSet(Waiters(r))
        BY <2>0, <1>1, <3>6, <3>7 DEF MqBecomes, q
      <4> QED
        BY <4>1, <4>2
    <3> QED
      BY <3>0, <3>1, <3>7, <3>8, <2>0
  <2>4. CASE MqClose(rid)
    <3>1. /\ mq' = [mq EXCEPT ![rid] = NoQueue] /\ rid \notin mq_rids'
          /\ ret' = [y \in Pids |-> MqCloseResult(ToSet(Waiters(mq[rid])), y)]
      BY <2>4 DEF MqClose, MqWokenByClose, Waiters
    <3>2. x = rid
      BY <3>1, <1>1, <2>0
    <3> QED
      BY <3>1, <3>2, <2>0, <1>1 DEF MqCloseResult
  <2> QED
    BY <2>1, <2>2, <2>3, <2>4
<1>2. KernelInv /\ MqInv /\ [QueuesNext]_queuesVars => [Told]_queuesVars
  BY <1>1
<1> QED
  BY <1>2, QueuesInvariant, PTL DEF QueuesSpec, MqResultTellsClose

-----------------------------------------------------------------------------
(* The refinement                                                          *)

\* The n-th of the ring's positions from h.
LEMMA RingPositions ==
    ASSUME NEW c \in Nat, NEW h \in 0 .. c - 1, NEW n \in 0 .. c - 1
    PROVE  /\ (h + n) % c \in 0 .. c - 1
           /\ n = 0 => (h + n) % c = h
           /\ \A k \in 0 .. c - 1 : (h + k) % c = (h + n) % c => k = n
<1>1. \A k \in 0 .. c - 1 : (h + k) % c = IF h + k < c THEN h + k ELSE h + k - c
  <2> SUFFICES ASSUME NEW k \in 0 .. c - 1
               PROVE  (h + k) % c = IF h + k < c THEN h + k ELSE h + k - c
    OBVIOUS
  <2> DEFINE x == h + k
  <2>1. x \in Nat /\ x < c + c
    OBVIOUS
  <2> HIDE DEF x
  <2>2. x % c = IF x < c THEN x ELSE x - c
    BY <2>1, OneTurn
  <2> QED
    BY <2>2 DEF x
<1> QED
  BY <1>1

\* The messages of a queue in order, as many as it counts.
LEMMA ContentIs ==
    ASSUME NEW q, QueueOK(q)
    PROVE  /\ Content(q) \in Seq(Contents) /\ Len(Content(q)) = q.count
           /\ \A i \in 1 .. q.count :
                /\ (q.head + i - 1) % q.capacity \in 0 .. q.capacity - 1
                /\ Content(q)[i] = q.slots[(q.head + i - 1) % q.capacity]
           /\ q.count = 0 <=> Content(q) = <<>>
<1> DEFINE c == q.capacity
           h == q.head
           n == q.count
           at(i) == (h + i - 1) % c
<1>1. n \in Nat /\ c \in Nat /\ n <= c /\ (c # 0 => h \in 0 .. c - 1)
  BY QueueParts DEF QueueOK
<1>2. ASSUME NEW i \in 1 .. n PROVE at(i) \in 0 .. c - 1
  <2> HIDE DEF c, h, n
  <2> DEFINE k == i - 1
  <2>1. k \in 0 .. c - 1 /\ h \in 0 .. c - 1 /\ h + i - 1 = h + k
    BY <1>1
  <2> HIDE DEF k
  <2>2. (h + k) % c \in 0 .. c - 1
    BY <1>1, <2>1, RingPositions
  <2> QED
    BY <2>1, <2>2
<1>3. \A i \in 1 .. n : at(i) \in 0 .. c - 1 /\ q.slots[at(i)] \in Contents
  BY <1>2 DEF QueueOK
<1>4. Content(q) = [i \in 1 .. n |-> q.slots[at(i)]]
  BY DEF Content
<1> HIDE DEF n, at
<1>5. Content(q) \in [1 .. n -> Contents]
  BY <1>3, <1>4
<1>6. Content(q) \in Seq(Contents)
  BY <1>1, <1>5, SeqDef
<1>7. Len(Content(q)) = n
  <2>1. Len(Content(q)) \in Nat /\ DOMAIN Content(q) = 1 .. Len(Content(q))
    BY <1>6, LenProperties
  <2>2. DOMAIN Content(q) = 1 .. n
    BY <1>5
  <2> DEFINE l == Len(Content(q))
  <2>3. l \in Nat /\ 1 .. l = 1 .. n
    BY <2>1, <2>2
  <2> HIDE DEF l
  <2>4. l = n
    BY <2>3, <1>1
  <2> QED
    BY <2>4 DEF l
<1>8. n = 0 <=> Content(q) = <<>>
  BY <1>6, <1>7, EmptySeq
<1> QED
  BY <1>3, <1>4, <1>6, <1>7, <1>8 DEF n, at

\* A message that is put is the last.
LEMMA PutAppends ==
    ASSUME NEW q, QueueOK(q), ~IsFull(q), q.wait_recv = <<>>, NEW m \in Messages,
           NEW r, r = Put(q, m)
    PROVE  Content(r) = Append(Content(q), m)
<1> DEFINE c == q.capacity
           h == q.head
           n == q.count
           s == Content(q)
           t == Content(r)
<1>1. /\ QueueOK(r) /\ r.capacity = c /\ r.head = h /\ r.count = n + 1
      /\ r.slots = [q.slots EXCEPT ![q.tail] = m]
  BY PutOK
<1>2. /\ n \in Nat /\ c \in Nat /\ n < c /\ h \in 0 .. c - 1
      /\ q.tail = (h + n) % c /\ q.slots \in [0 .. c - 1 -> Contents]
  BY QueueParts DEF QueueOK, IsFull
<1>3. /\ s \in Seq(Contents) /\ Len(s) = n
      /\ \A i \in 1 .. n : /\ (h + i - 1) % c \in 0 .. c - 1
                           /\ s[i] = q.slots[(h + i - 1) % c]
  BY ContentIs
<1>4. /\ t \in Seq(Contents) /\ Len(t) = n + 1
      /\ \A i \in 1 .. n + 1 : /\ (h + i - 1) % c \in 0 .. c - 1
                               /\ t[i] = r.slots[(h + i - 1) % c]
  <2>1. /\ t \in Seq(Contents) /\ Len(t) = r.count
        /\ \A i \in 1 .. r.count : /\ (r.head + i - 1) % r.capacity \in 0 .. r.capacity - 1
                                   /\ t[i] = r.slots[(r.head + i - 1) % r.capacity]
    BY <1>1, ContentIs, ZenonT(30)
  <2> HIDE DEF c, h, n, s, t
  <2> QED
    BY <2>1, <1>1
<1> HIDE DEF c, h, n, s, t
<1>5. ASSUME NEW i \in 1 .. n PROVE t[i] = s[i]
  <2> DEFINE k == i - 1
             p == (h + k) % c
  <2>1. k \in 0 .. c - 1 /\ n \in 0 .. c - 1 /\ k # n /\ h + i - 1 = h + k /\ i \in 1 .. n + 1
    BY <1>2
  <2>2. p # (h + n) % c
    <3> HIDE DEF k
    <3> QED
      BY <1>2, <2>1, RingPositions
  <2>3. p \in 0 .. c - 1 /\ s[i] = q.slots[p] /\ t[i] = r.slots[p]
    BY <1>3, <1>4, <2>1
  <2> HIDE DEF p
  <2> QED
    BY <1>1, <1>2, <2>2, <2>3
<1>6. t[n + 1] = m
  <2>1. n + 1 \in 1 .. n + 1 /\ h + (n + 1) - 1 = h + n
    BY <1>2
  <2>2. t[n + 1] = r.slots[q.tail] /\ q.tail \in 0 .. c - 1
    BY <1>2, <1>4, <2>1
  <2> QED
    BY <1>1, <1>2, <2>2
<1> DEFINE u == Append(s, m)
<1>7. /\ u \in Seq(Contents) /\ Len(u) = n + 1
      /\ \A i \in 1 .. n : u[i] = s[i]
      /\ u[n + 1] = m
  <2>1. m \in Contents
    BY DEF Contents
  <2> QED
    BY <1>3, <2>1, AppendProperties
<1> HIDE DEF u
<1>8. \A i \in 1 .. n + 1 : t[i] = u[i]
  <2> SUFFICES ASSUME NEW i \in 1 .. n + 1 PROVE t[i] = u[i]
    OBVIOUS
  <2>1. i \in 1 .. n \/ i = n + 1
    BY <1>2
  <2> QED
    BY <2>1, <1>5, <1>6, <1>7
<1>9. t = u
  BY <1>4, <1>7, <1>8, SeqEqual
<1> QED
  BY <1>9 DEF s, t, u

\* The message that is taken is the first.
LEMMA TakeIsHead ==
    ASSUME NEW q, QueueOK(q), ~IsEmpty(q),
           NEW r, r = Take(q)
    PROVE  /\ Content(q) # <<>>
           /\ q.slots[q.head] = Head(Content(q))
           /\ Content(r) = Tail(Content(q))
<1> DEFINE c == q.capacity
           h == q.head
           n == q.count
           s == Content(q)
           t == Content(r)
           u == Tail(s)
<1>1. /\ QueueOK(r) /\ r.capacity = c /\ r.head = (h + 1) % c /\ r.count = n - 1
      /\ r.slots = q.slots /\ h \in 0 .. c - 1
  BY TakeOK
<1>2. n \in Nat /\ c \in Nat /\ n > 0 /\ n <= c
  BY QueueParts DEF QueueOK, IsEmpty
<1>3. /\ s \in Seq(Contents) /\ Len(s) = n /\ s # <<>>
      /\ \A i \in 1 .. n : s[i] = q.slots[(h + i - 1) % c]
  BY <1>2, ContentIs
<1>4. /\ t \in Seq(Contents) /\ Len(t) = n - 1
      /\ \A i \in 1 .. n - 1 : t[i] = q.slots[(((h + 1) % c) + i - 1) % c]
  BY <1>1, ContentIs
<1> HIDE DEF c, h, n, s, t
<1>5. q.slots[h] = Head(s)
  <2>1. 1 \in 1 .. n /\ h + 1 - 1 = h /\ h \in Nat /\ h < c /\ h < c + c
    BY <1>1, <1>2
  <2>1a. h % c = h
    BY <2>1, <1>2, OneTurn
  <2>2. s[1] = q.slots[h]
    BY <1>3, <2>1, <2>1a
  <2> QED
    BY <2>2, <1>3
<1>6. /\ u \in Seq(Contents) /\ Len(u) = n - 1
      /\ \A i \in 1 .. n - 1 : u[i] = s[i + 1]
  <2>1. /\ u \in Seq(Contents) /\ Len(u) = Len(s) - 1
        /\ \A i \in 1 .. Len(u) : u[i] = s[i + 1]
    BY <1>3, HeadTailProperties
  <2> HIDE DEF u
  <2> QED
    BY <2>1, <1>3
<1> HIDE DEF u
<1>7. ASSUME NEW i \in 1 .. n - 1 PROVE t[i] = u[i]
  <2> DEFINE g == (h + 1) % c
  <2>1. i \in 0 .. c /\ i > 0 /\ i + 1 \in 1 .. n /\ h + (i + 1) - 1 = h + i
    BY <1>1, <1>2
  <2>2. g \in 0 .. c - 1 /\ (g + (i - 1)) % c = (h + i) % c
    <3>1. 1 \in 0 .. c /\ 1 > 0 /\ h \in 0 .. c - 1
      BY <1>1, <1>2
    <3> QED
      BY <3>1, <1>2, <2>1, RingMoves
  <2>3. t[i] = q.slots[(g + i - 1) % c] /\ u[i] = q.slots[(h + i) % c]
    BY <1>3, <1>4, <1>6, <2>1
  <2> HIDE DEF g
  <2>4. g + i - 1 = g + (i - 1)
    BY <2>1, <2>2
  <2> QED
    BY <2>2, <2>3, <2>4
<1>8. t = u
  BY <1>4, <1>6, <1>7, SeqEqual
<1> QED
  BY <1>3, <1>5, <1>8 DEF h, s, t, u

\* The state of the abstract channels, as the instance Channel maps it.
Sizes == [rid \in MqRids |-> mq[rid].capacity]
Held == [rid \in MqRids |-> Content(mq[rid])]
Senders == [rid \in MqRids |-> mq[rid].wait_send]
Receivers == [rid \in MqRids |-> mq[rid].wait_recv]

\* A step that changes a queue, seen from above.
LEMMA MqBecomesAbove ==
    ASSUME NEW rid \in MqRids, NEW r, MqBecomes(rid, r)
    PROVE  /\ Sizes' = [Sizes EXCEPT ![rid] = r.capacity]
           /\ Held' = [Held EXCEPT ![rid] = Content(r)]
           /\ Senders' = [Senders EXCEPT ![rid] = r.wait_send]
           /\ Receivers' = [Receivers EXCEPT ![rid] = r.wait_recv]
<1>1. mq'[rid] = r /\ \A x \in MqRids \ {rid} : mq'[x] = mq[x]
  BY DEF MqBecomes
<1>2. Content(mq[rid])' = Content(r)
  BY <1>1 DEF Content
<1>3. \A x \in MqRids \ {rid} : Content(mq[x])' = Content(mq[x])
  BY <1>1 DEF Content
<1> QED
  BY <1>1, <1>2, <1>3 DEF Sizes, Held, Senders, Receivers

\* What stays of a queue stays above.
LEMMA MqStaysAbove ==
    ASSUME NEW rid \in MqRids, NEW r, MqBecomes(rid, r)
    PROVE  /\ r.capacity = mq[rid].capacity => Sizes' = Sizes
           /\ Content(r) = Content(mq[rid]) => Held' = Held
           /\ r.wait_send = mq[rid].wait_send => Senders' = Senders
           /\ r.wait_recv = mq[rid].wait_recv => Receivers' = Receivers
<1>1. mq'[rid] = r /\ \A x \in MqRids \ {rid} : mq'[x] = mq[x]
  BY DEF MqBecomes
<1>2. Content(r) = Content(mq[rid]) => \A x \in MqRids : Content(mq[x])' = Content(mq[x])
  <2>1. Content(mq[rid])' = Content(r)
    BY <1>1 DEF Content
  <2>2. \A x \in MqRids \ {rid} : Content(mq[x])' = Content(mq[x])
    BY <1>1 DEF Content
  <2> QED
    BY <2>1, <2>2
<1> QED
  BY <1>1, <1>2 DEF Sizes, Held, Senders, Receivers

\* The messages lie in the ring alone.
LEMMA SameContent ==
    ASSUME NEW q, NEW r, SameRing(q, r)
    PROVE  Content(r) = Content(q)
BY DEF SameRing, Content

\* mq_open opens an empty channel of the capacity it is asked for.
LEMMA MqOpenRefines ==
    ASSUME MqInv, NEW c \in Capacities, MqOpen(c)
    PROVE  Channel!Next
<1> DEFINE rid == last_mq_rid
           r == NewQueue(c)
<1>1. /\ rid \in MqRids /\ rid \notin mq_rids /\ mq_rids' = mq_rids \cup {rid}
      /\ mq' = [mq EXCEPT ![rid] = r] /\ inbox' = inbox
  BY MessageQueuesAssumption DEF MqOpen, MqInv, MqTypes, MqRidsFresh, MqRids
<1> HIDE DEF rid
<1>2. /\ QueueOK(r) /\ r.wait_send = <<>> /\ r.wait_recv = <<>> /\ r.count = 0 /\ r.capacity = c
  BY NewQueueOK
<1>3. /\ mq[rid].wait_send = <<>> /\ mq[rid].wait_recv = <<>>
      /\ QueueOK(mq[rid]) /\ mq[rid].count = 0
  <2>1. mq[rid] = NoQueue
    BY <1>1, MqFacts DEF MqSound
  <2> QED
    BY <2>1, NewQueueOK DEF NoQueue
<1> HIDE DEF r
<1>4. Content(r) = <<>> /\ Content(mq[rid]) = <<>>
  BY <1>2, <1>3, ContentIs
<1>5. MqBecomes(rid, r)
  BY <1>1, <1>2, MqSet
<1>6. /\ Sizes' = [Sizes EXCEPT ![rid] = c]
      /\ Held' = Held /\ Senders' = Senders /\ Receivers' = Receivers
  BY <1>1, <1>2, <1>3, <1>4, <1>5, MqBecomesAbove, MqStaysAbove
<1>7. Channel!Open(rid, c)
  BY <1>1, <1>6 DEF Channel!Open, Sizes, Held, Senders, Receivers
<1> QED
  BY <1>1, <1>7 DEF Channel!Next

\* mq_send with a receiver waiting delivers to the first.
LEMMA DeliverRefines ==
    ASSUME MqInv, NEW rid \in MqRids, NEW m \in Messages, MqSendHandsOver(rid, m)
    PROVE  Channel!Deliver(rid, m)
<1> DEFINE q == mq[rid]
           t == Tail(q.wait_recv)
           r == [q EXCEPT !.wait_recv = t]
<1>1. /\ rid \in mq_rids /\ mq_rids' = mq_rids /\ q.wait_recv # <<>>
      /\ mq' = [mq EXCEPT ![rid] = r]
      /\ inbox' = [inbox EXCEPT ![Head(q.wait_recv)] = m]
  BY DEF MqSendHandsOver
<1>2. QueueOK(q) /\ q.count = 0 /\ t \in Seq(Pids) /\ IsInjective(t)
  <2>1. QueueOK(q) /\ q.wait_recv \in Seq(Pids)
    BY MqFacts
  <2> HIDE DEF q
  <2>2. IsInjective(q.wait_recv) /\ q.count = 0
    BY <2>1, <1>1 DEF QueueOK
  <2> QED
    BY <2>1, <2>2, <1>1, SeqTail
<1> HIDE DEF t
<1>3. QueueOK(r) /\ SameRing(q, r) /\ r.wait_send = q.wait_send /\ r.wait_recv = t
  <2> HIDE DEF q
  <2> QED
    BY <1>2, ReceiversSet
<1> HIDE DEF r
<1>4. MqBecomes(rid, r) /\ Content(r) = Content(q) /\ r.capacity = q.capacity
  BY <1>1, <1>3, MqSet, SameContent DEF SameRing
<1>5. /\ Sizes' = Sizes /\ Held' = Held /\ Senders' = Senders
      /\ Receivers' = [Receivers EXCEPT ![rid] = Tail(Receivers[rid])]
      /\ Receivers[rid] = q.wait_recv
  <2>1. Receivers' = [Receivers EXCEPT ![rid] = r.wait_recv] /\ Receivers[rid] = q.wait_recv
    BY <1>4, MqBecomesAbove DEF Receivers
  <2> QED
    BY <2>1, <1>3, <1>4, MqStaysAbove DEF t
<1> QED
  BY <1>1, <1>5 DEF Channel!Deliver, Sizes, Held, Senders, Receivers

\* mq_send with room in the ring puts its message behind the others.
LEMMA PutRefines ==
    ASSUME MqInv, NEW rid \in MqRids, NEW m \in Messages, MqSendStores(rid, m)
    PROVE  Channel!Put(rid, m)
<1> DEFINE q == mq[rid]
           r == Put(q, m)
<1>1. /\ rid \in mq_rids /\ mq_rids' = mq_rids /\ q.wait_recv = <<>> /\ ~IsFull(q)
      /\ mq' = [mq EXCEPT ![rid] = r] /\ inbox' = inbox
  BY DEF MqSendStores
<1>2. QueueOK(q)
  BY MqFacts
<1>3. /\ QueueOK(r) /\ r.capacity = q.capacity /\ Content(r) = Append(Content(q), m)
      /\ r.wait_send = q.wait_send /\ r.wait_recv = q.wait_recv
      /\ Len(Content(q)) < q.capacity
  <2> HIDE DEF q, r
  <2>1. r = Put(q, m) /\ QueueOK(q) /\ ~IsFull(q) /\ q.wait_recv = <<>>
    BY <1>1, <1>2 DEF r
  <2>2. Len(Content(q)) = q.count /\ q.count \in Nat /\ q.capacity \in Nat
    BY <1>2, ContentIs, QueueParts
  <2>3. Len(Content(q)) < q.capacity
    BY <2>2, <1>1 DEF IsFull
  <2>4. Content(r) = Append(Content(q), m)
    BY ONLY <2>1, m \in Messages, PutAppends
  <2>5. QueueOK(r) /\ r.wait_send = q.wait_send /\ r.wait_recv = q.wait_recv
    BY <2>1, PutOK, ZenonT(30)
  <2>6. r.capacity = q.capacity
    BY <2>1, PutOK, ZenonT(30)
  <2> QED
    BY <2>3, <2>4, <2>5, <2>6
<1> HIDE DEF r
<1>4. MqBecomes(rid, r)
  BY <1>1, <1>3, MqSet
<1>5. /\ Sizes' = Sizes /\ Senders' = Senders /\ Receivers' = Receivers
      /\ Held' = [Held EXCEPT ![rid] = Append(Held[rid], m)] /\ Held[rid] = Content(q)
      /\ Sizes[rid] = q.capacity /\ Receivers[rid] = <<>>
  <2>1. Held' = [Held EXCEPT ![rid] = Content(r)] /\ Held[rid] = Content(q)
    BY <1>4, MqBecomesAbove DEF Held
  <2>2. Sizes[rid] = q.capacity /\ Receivers[rid] = <<>>
    BY <1>1 DEF Sizes, Receivers
  <2> QED
    BY <2>1, <2>2, <1>3, <1>4, MqStaysAbove
<1> QED
  BY <1>1, <1>3, <1>5 DEF Channel!Put, Sizes, Held, Senders, Receivers

\* mq_send with no room joins the senders.
LEMMA MqBlockRefines ==
    ASSUME MqInv, MqInv', NEW rid \in MqRids, MqSendBlocks(rid), NEW u \in Pids, u = me
    PROVE  Channel!Block(rid, u)
<1> DEFINE q == mq[rid]
           t == Append(q.wait_send, u)
           r == [q EXCEPT !.wait_send = t]
<1>1. /\ rid \in mq_rids /\ mq_rids' = mq_rids /\ q.wait_recv = <<>> /\ IsFull(q)
      /\ mq' = [mq EXCEPT ![rid] = r] /\ inbox' = inbox
  BY DEF MqSendBlocks
<1>2. QueueOK(q) /\ mq'[rid] = r /\ QueueOK(mq'[rid]) /\ t \in Seq(Pids)
  BY <1>1, MqFacts, SeqAppend DEF MqInv, MqSound
<1>3. QueueOK(r) /\ SameRing(q, r) /\ r.wait_send = t /\ r.wait_recv = q.wait_recv
  <2> HIDE DEF t, q
  <2>1. r.wait_send = t
    BY <1>2 DEF QueueOK, MqType
  <2>2. IsInjective(t)
    BY <2>1, <1>2 DEF QueueOK
  <2> QED
    BY <2>2, <1>2, SendersSet
<1>4. Len(Content(q)) >= q.capacity
  <2> HIDE DEF q
  <2>1. Len(Content(q)) = q.count /\ q.count \in Nat /\ q.capacity \in Nat
    BY <1>2, ContentIs, QueueParts
  <2> QED
    BY <2>1, <1>1 DEF IsFull
<1> HIDE DEF r, t
<1>5. MqBecomes(rid, r) /\ Content(r) = Content(q) /\ r.capacity = q.capacity
  BY <1>1, <1>3, MqSet, SameContent DEF SameRing
<1>6. /\ Sizes' = Sizes /\ Held' = Held /\ Receivers' = Receivers
      /\ Senders' = [Senders EXCEPT ![rid] = Append(Senders[rid], u)]
      /\ Sizes[rid] = q.capacity /\ Receivers[rid] = <<>> /\ Held[rid] = Content(q)
  <2>1. Senders' = [Senders EXCEPT ![rid] = r.wait_send] /\ Senders[rid] = q.wait_send
    BY <1>5, MqBecomesAbove DEF Senders
  <2>2. Sizes[rid] = q.capacity /\ Receivers[rid] = <<>> /\ Held[rid] = Content(q)
    BY <1>1 DEF Sizes, Receivers, Held
  <2> QED
    BY <2>1, <2>2, <1>3, <1>5, MqStaysAbove DEF t
<1> QED
  BY <1>1, <1>4, <1>6 DEF Channel!Block, Sizes, Held, Senders, Receivers

\* mq_receive with a message takes the oldest, and lets the first sender go.
LEMMA TakeRefines ==
    ASSUME MqInv, NEW rid \in MqRids, MqReceiveTakes(rid), NEW u \in Pids, u = me
    PROVE  Channel!Take(rid, u)
<1> DEFINE q == mq[rid]
           w == FirstSender(q)
           t == SubSeq(q.wait_send, 1 + Len(w), Len(q.wait_send))
           k == Take(q)
           r == [k EXCEPT !.wait_send = t]
<1>1. /\ rid \in mq_rids /\ mq_rids' = mq_rids /\ ~IsEmpty(q) /\ QueueOK(q)
      /\ inbox' = [inbox EXCEPT ![u] = q.slots[q.head]]
      /\ mq' = [mq EXCEPT ![rid] = [k EXCEPT !.wait_send = SubSeq(@, 1 + Len(w), Len(@))]]
  BY MqFacts DEF MqReceiveTakes
<1>2. /\ QueueOK(k) /\ k.wait_send = q.wait_send /\ k.wait_recv = q.wait_recv
      /\ k.capacity = q.capacity
  <2> HIDE DEF q
  <2>1. QueueOK(k) /\ k.wait_send = q.wait_send /\ k.wait_recv = q.wait_recv
    BY <1>1, TakeOK
  <2>2. k.capacity = q.capacity
    BY <1>1, TakeOK
  <2> QED
    BY <2>1, <2>2
<1>3. mq' = [mq EXCEPT ![rid] = r]
  <2> HIDE DEF k, w
  <2> QED
    BY <1>1, <1>2
<1>4. /\ t \in Seq(Pids) /\ IsInjective(t)
      /\ t = IF q.wait_send = <<>> THEN q.wait_send ELSE Tail(q.wait_send)
  <2> HIDE DEF q
  <2> QED
    BY <1>1, FirstSenderLeaves
<1>5. /\ Content(q) # <<>> /\ q.slots[q.head] = Head(Content(q))
      /\ Content(k) = Tail(Content(q))
  <2> HIDE DEF q
  <2> QED
    BY <1>1, TakeIsHead
<1> HIDE DEF k, w, t
<1>6. QueueOK(r) /\ SameRing(k, r) /\ r.wait_send = t /\ r.wait_recv = k.wait_recv
  <2> HIDE DEF q
  <2>1. QueueOK(k) /\ t \in Seq(Pids) /\ IsInjective(t)
    BY <1>2, <1>4
  <2> QED
    BY <2>1, SendersSet
<1> HIDE DEF r
<1>7. /\ MqBecomes(rid, r) /\ Content(r) = Tail(Content(q)) /\ r.capacity = q.capacity
      /\ r.wait_recv = q.wait_recv
  BY <1>2, <1>3, <1>5, <1>6, MqSet, SameContent DEF SameRing
<1>8. /\ Sizes' = Sizes /\ Receivers' = Receivers
      /\ Held' = [Held EXCEPT ![rid] = Tail(Held[rid])] /\ Held[rid] = Content(q)
      /\ Senders' = [Senders EXCEPT ![rid] = IF Senders[rid] = <<>> THEN Senders[rid]
                                                                    ELSE Tail(Senders[rid])]
  <2>1. /\ Held' = [Held EXCEPT ![rid] = Content(r)] /\ Held[rid] = Content(q)
        /\ Senders' = [Senders EXCEPT ![rid] = r.wait_send] /\ Senders[rid] = q.wait_send
    BY <1>7, MqBecomesAbove DEF Held, Senders
  <2> QED
    BY <2>1, <1>4, <1>6, <1>7, MqStaysAbove
<1> QED
  BY <1>1, <1>5, <1>8 DEF Channel!Take, Sizes, Held, Senders, Receivers

\* mq_receive with no message joins the receivers.
LEMMA AwaitRefines ==
    ASSUME MqInv, MqInv', NEW rid \in MqRids, MqReceiveBlocks(rid), NEW u \in Pids, u = me
    PROVE  Channel!Await(rid, u)
<1> DEFINE q == mq[rid]
           t == Append(q.wait_recv, u)
           r == [q EXCEPT !.wait_recv = t]
<1>1. /\ rid \in mq_rids /\ mq_rids' = mq_rids /\ IsEmpty(q)
      /\ mq' = [mq EXCEPT ![rid] = r] /\ inbox' = inbox
  BY DEF MqReceiveBlocks
<1>2. QueueOK(q) /\ mq'[rid] = r /\ QueueOK(mq'[rid]) /\ t \in Seq(Pids)
  BY <1>1, MqFacts, SeqAppend DEF MqInv, MqSound
<1>3. q.count = 0 /\ Content(q) = <<>>
  <2> HIDE DEF q
  <2>1. q.count = 0
    BY <1>1, <1>2, QueueParts DEF IsEmpty
  <2> QED
    BY <2>1, <1>2, ContentIs
<1>4. QueueOK(r) /\ SameRing(q, r) /\ r.wait_send = q.wait_send /\ r.wait_recv = t
  <2> HIDE DEF t, q
  <2>1. r.wait_recv = t
    BY <1>2 DEF QueueOK, MqType
  <2>2. IsInjective(t)
    BY <2>1, <1>2 DEF QueueOK
  <2> QED
    BY <2>2, <1>2, <1>3, ReceiversSet
<1> HIDE DEF r, t
<1>5. MqBecomes(rid, r) /\ Content(r) = Content(q) /\ r.capacity = q.capacity
  BY <1>1, <1>4, MqSet, SameContent DEF SameRing
<1>6. /\ Sizes' = Sizes /\ Held' = Held /\ Senders' = Senders
      /\ Receivers' = [Receivers EXCEPT ![rid] = Append(Receivers[rid], u)]
      /\ Held[rid] = <<>>
  <2>1. Receivers' = [Receivers EXCEPT ![rid] = r.wait_recv] /\ Receivers[rid] = q.wait_recv
    BY <1>5, MqBecomesAbove DEF Receivers
  <2>2. Held[rid] = <<>>
    BY <1>3 DEF Held
  <2> QED
    BY <2>1, <2>2, <1>4, <1>5, MqStaysAbove DEF t
<1> QED
  BY <1>1, <1>6 DEF Channel!Await, Sizes, Held, Senders, Receivers

\* mq_close closes.
LEMMA MqCloseRefines ==
    ASSUME MqInv, NEW rid \in MqRids, MqClose(rid)
    PROVE  Channel!Close(rid)
<1> DEFINE r == NoQueue
           zero == 0
           none == <<>>
<1>1. /\ rid \in mq_rids /\ mq_rids' = mq_rids \ {rid} /\ mq' = [mq EXCEPT ![rid] = r]
      /\ inbox' = inbox
  BY DEF MqClose
<1>2. /\ QueueOK(r) /\ r.wait_send = none /\ r.wait_recv = none /\ r.count = 0 /\ r.capacity = zero
  BY NewQueueOK DEF NoQueue
<1> HIDE DEF r
<1>3. Content(r) = none
  BY <1>2, ContentIs
<1> HIDE DEF zero, none
<1>4. MqBecomes(rid, r)
  BY <1>1, <1>2, MqSet
<1>5. /\ Sizes' = [Sizes EXCEPT ![rid] = zero] /\ Held' = [Held EXCEPT ![rid] = none]
      /\ Senders' = [Senders EXCEPT ![rid] = none] /\ Receivers' = [Receivers EXCEPT ![rid] = none]
  BY <1>2, <1>3, <1>4, MqBecomesAbove
<1> QED
  BY <1>1, <1>5 DEF zero, none, Channel!Close, Sizes, Held, Senders, Receivers

\* Every call on a queue is a step of the abstract channels or, refused or the system's
\* last, none.
LEMMA MqCallRefines ==
    ASSUME KernelInv, MqInv, MqCall
    PROVE  [Channel!Next]_(Channel!vars)
<1>1. MqInv'
  BY MqCallKeeps DEF MqKept
<1>2. ASSUME NEW c \in Capacities, MqOpen(c) PROVE Channel!Next
  BY <1>2, MqOpenRefines
<1>3. ASSUME NEW rid \in MqRids, NEW m \in Messages,
             MqSendHandsOver(rid, m) \/ MqSendStores(rid, m)
      PROVE  Channel!Next
  <2>1. CASE MqSendHandsOver(rid, m)
    BY <2>1, DeliverRefines DEF Channel!Next
  <2>2. CASE MqSendStores(rid, m)
    BY <2>2, PutRefines DEF Channel!Next
  <2> QED
    BY <1>3, <2>1, <2>2
<1>4. ASSUME NEW rid \in MqRids,
             MqSendBlocks(rid) \/ MqReceiveBlocks(rid) \/ MqReceiveTakes(rid)
      PROVE  Channel!Next
  <2>1. PICK u \in Pids : u = me
    BY <1>4, InvTypes
       DEF MqSendBlocks, MqReceiveBlocks, MqReceiveTakes, InUserCode, me
  <2>2. CASE MqSendBlocks(rid)
    <3>1. Channel!Block(rid, u)
      BY <1>1, <2>1, <2>2, MqBlockRefines
    <3> QED
      BY <3>1 DEF Channel!Next
  <2>3. CASE MqReceiveBlocks(rid)
    <3>1. Channel!Await(rid, u)
      BY <1>1, <2>1, <2>3, AwaitRefines
    <3> QED
      BY <3>1 DEF Channel!Next
  <2>4. CASE MqReceiveTakes(rid)
    <3>1. Channel!Take(rid, u)
      BY <2>1, <2>4, TakeRefines
    <3> QED
      BY <3>1 DEF Channel!Next
  <2> QED
    BY <1>4, <2>2, <2>3, <2>4
<1>5. ASSUME NEW rid \in MqRids, MqClose(rid) PROVE Channel!Next
  BY <1>5, MqCloseRefines DEF Channel!Next
<1>6. ASSUME UNCHANGED mqVars PROVE UNCHANGED Channel!vars
  BY <1>6 DEF mqVars, Channel!vars, Content
<1> QED
  BY <1>2, <1>3, <1>4, <1>5, <1>6 DEF MqCall, MqOpenFails, MqUnknown, MqBlocksWithoutPtr

\* At the start no abstract channel is open.
LEMMA MqInitRefines ==
    ASSUME MqInit
    PROVE  Channel!Init
<1>1. Content(NoQueue) = <<>>
  BY NewQueueOK, ContentIs DEF NoQueue
<1>2. /\ NoQueue.capacity = 0 /\ NoQueue.wait_send = <<>> /\ NoQueue.wait_recv = <<>>
  BY NewQueueOK DEF NoQueue
<1>3. /\ mq_rids = {} /\ inbox = [p \in Pids |-> NoMessage]
      /\ Sizes = [rid \in MqRids |-> 0] /\ Held = [rid \in MqRids |-> <<>>]
      /\ Senders = [rid \in MqRids |-> <<>>]
      /\ Receivers = [rid \in MqRids |-> <<>>]
  BY <1>1, <1>2 DEF MqInit, Sizes, Held, Senders, Receivers
<1> QED
  BY <1>3 DEF Channel!Init, Sizes, Held, Senders, Receivers

\* The queues on the kernel implement the abstract channels.
THEOREM QueuesRefine == QueuesSpec => ImplementsMessageChannel
<1>1. QueuesInit => Channel!Init
  BY MqInitRefines DEF QueuesInit
<1>2. ASSUME KernelInv, MqInv, [QueuesNext]_queuesVars
      PROVE  [Channel!Next]_(Channel!vars)
  <2>1. CASE MqCall
    BY <1>2, <2>1, MqCallRefines
  <2>2. CASE UNCHANGED mqVars
    BY <2>2 DEF mqVars, Channel!vars, Content
  <2> QED
    BY <1>2, <2>1, <2>2 DEF QueuesNext, queuesVars
<1> QED
  BY <1>1, <1>2, QueuesInvariant, PTL
     DEF QueuesSpec, ImplementsMessageChannel, Channel!Spec

=============================================================================
