---------------------------- MODULE MessageQueues ----------------------------
(***************************************************************************)
(* The message queues of disastrOS (queue.c) on top of the kernel:         *)
(* mq_open, mq_send, mq_receive and mq_close.                              *)
(*                                                                         *)
(* A queue is a ring of slots with a waiting list for each side.  Like the *)
(* waiters of a semaphore, its waiters take blocks of the PCBPtr pool.     *)
(***************************************************************************)
EXTENDS Kernel

CONSTANTS
    FirstMqRid,     \* the initial value of last_mq_rid, 100
    MaxMqRid,       \* bound: the largest rid a behaviour hands out
    MaxMqs,         \* MQ_MAX, the blocks of the message queue pool
    Capacities,     \* the capacities processes ask for
    Messages,       \* what they send
    NoMessage       \* the content of memory nothing was written to

ASSUME MessageQueuesAssumption ==
    /\ FirstMqRid \in Nat
    /\ MaxMqRid \in Nat /\ MaxMqRid >= FirstMqRid
    /\ MaxMqs \in Nat \ {0}
    /\ Capacities \subseteq Nat
    /\ NoMessage \notin Messages

VARIABLES
    mq_rids,        \* the rids of the message queues on resources_list
    mq,             \* their ring and waiting lists
    last_mq_rid,    \* the rid internal_mq_open hands out next
    inbox           \* inbox[p]: where p's msg pointer points, after a receive

mqVars == <<mq_rids, mq, last_mq_rid, inbox>>
queuesVars == <<kernelVars, mqVars>>

MqRids == FirstMqRid .. MaxMqRid

\* A queue just opened: malloc leaves the slots as they are.
NewQueue(capacity) ==
    [capacity |-> capacity, slots |-> [i \in 0 .. capacity - 1 |-> NoMessage],
     head |-> 0, tail |-> 0, count |-> 0, wait_send |-> <<>>, wait_recv |-> <<>>]

NoQueue == NewQueue(0)

EMQ_CLOSED == -13

-----------------------------------------------------------------------------
(* The ring                                                                *)

\* Mutant: the write index does not wrap where the read index does.
Put_WrapsLate(q, m) ==
    [q EXCEPT !.slots[q.tail] = m, !.tail = Min({@ + 1, q.capacity - 1}), !.count = @ + 1]

Put(q, m) ==
    [q EXCEPT !.slots[q.tail] = m, !.tail = (@ + 1) % q.capacity, !.count = @ + 1]

\* Mutant: the read index stays.
Take_HeadKept(q) == [q EXCEPT !.count = @ - 1]

Take(q) == [q EXCEPT !.head = (@ + 1) % q.capacity, !.count = @ - 1]

IsFull(q) == q.count >= q.capacity

IsEmpty(q) == q.count <= 0

\* Mutant: the blocks of those who wake are not freed.
FreePtrs_Leaks(n) == ptrs' = ptrs

FreePtrs(n) == ptrs' = ptrs - n

-----------------------------------------------------------------------------
(* System calls                                                            *)

\* The call names no queue.
MqUnknown(rid) ==
    /\ InUserCode
    /\ rid \notin mq_rids
    /\ Return(EINVAL)
    /\ UNCHANGED <<processVars, ptrs, mqVars>>

MqOpen(capacity) ==
    /\ InUserCode
    /\ Cardinality(mq_rids) < MaxMqs
    /\ last_mq_rid <= MaxMqRid
    /\ Return(last_mq_rid)
    /\ mq_rids' = mq_rids \cup {last_mq_rid}
    /\ mq' = [mq EXCEPT ![last_mq_rid] = NewQueue(capacity)]
    /\ last_mq_rid' = last_mq_rid + 1
    /\ UNCHANGED <<processVars, ptrs, inbox>>

MqOpenFails ==
    /\ InUserCode
    /\ Cardinality(mq_rids) = MaxMqs
    /\ Return(ENOMEM)
    /\ UNCHANGED <<processVars, ptrs, mqVars>>

\* send finds a receiver waiting: the message goes where its pointer points.
MqSendHandsOver(rid, m) ==
    LET woken == Head(mq[rid].wait_recv) IN
    /\ InUserCode
    /\ rid \in mq_rids /\ mq[rid].wait_recv # <<>>
    /\ mq' = [mq EXCEPT ![rid].wait_recv = Tail(@)]
    /\ inbox' = [inbox EXCEPT ![woken] = m]
    /\ ret' = [ret EXCEPT ![woken] = 0, ![me] = 0]
    /\ FreePtrs(1)
    /\ EndTrap(WakeAll(sched, <<woken>>))
    /\ UNCHANGED <<processVars, mq_rids, last_mq_rid>>

\* send finds the ring full: the caller waits.  Its message stays behind in its
\* syscall_args, which nobody reads.
MqSendBlocks(rid) ==
    /\ InUserCode
    /\ rid \in mq_rids /\ mq[rid].wait_recv = <<>> /\ IsFull(mq[rid])
    /\ ptrs < MaxProcs
    /\ mq' = [mq EXCEPT ![rid].wait_send = Append(@, me)]
    /\ ptrs' = ptrs + 1
    /\ EndTrap(ParkAndPop(sched, "mq_send", rid))
    /\ UNCHANGED <<processVars, ret, mq_rids, last_mq_rid, inbox>>

MqSendStores(rid, m) ==
    /\ InUserCode
    /\ rid \in mq_rids /\ mq[rid].wait_recv = <<>> /\ ~IsFull(mq[rid])
    /\ mq' = [mq EXCEPT ![rid] = Put(@, m)]
    /\ Return(0)
    /\ UNCHANGED <<processVars, ptrs, mq_rids, last_mq_rid, inbox>>

MqReceiveBlocks(rid) ==
    /\ InUserCode
    /\ rid \in mq_rids /\ IsEmpty(mq[rid])
    /\ ptrs < MaxProcs
    /\ mq' = [mq EXCEPT ![rid].wait_recv = Append(@, me)]
    /\ ptrs' = ptrs + 1
    /\ EndTrap(ParkAndPop(sched, "mq_receive", rid))
    /\ UNCHANGED <<processVars, ret, mq_rids, last_mq_rid, inbox>>

\* PCBPtr_alloc writes through the null pointer of an empty pool.
MqBlocksWithoutPtr(rid) ==
    /\ InUserCode
    /\ rid \in mq_rids
    /\ IsEmpty(mq[rid]) \/ (mq[rid].wait_recv = <<>> /\ IsFull(mq[rid]))
    /\ ptrs = MaxProcs
    /\ Stop("pool_exhausted")
    /\ UNCHANGED mqVars

\* Mutant: a receive wakes nobody.
FirstSender_None(q) == <<>>

\* The sender a receive wakes, if one waits.
FirstSender(q) == IF q.wait_send = <<>> THEN <<>> ELSE <<Head(q.wait_send)>>

MqReceiveTakes(rid) ==
    LET q == mq[rid]
        woken == FirstSender(q)
    IN
    /\ InUserCode
    /\ rid \in mq_rids /\ ~IsEmpty(q)
    /\ inbox' = [inbox EXCEPT ![me] = q.slots[q.head]]
    /\ mq' = [mq EXCEPT ![rid] = [Take(q) EXCEPT !.wait_send = SubSeq(@, 1 + Len(woken), Len(@))]]
    /\ FreePtrs(Len(woken))
    /\ ret' = [p \in Pids |-> IF p = me \/ p \in ToSet(woken) THEN 0 ELSE ret[p]]
    /\ EndTrap(WakeAll(sched, woken))
    /\ UNCHANGED <<processVars, mq_rids, last_mq_rid>>

\* Mutant: the receivers are forgotten.
MqWokenByClose_Senders(q) == q.wait_send

\* Everybody who waits wakes, the senders first.
MqWokenByClose(q) == q.wait_send \o q.wait_recv

\* Mutant: the waiters of a closed queue get the result of a success.
MqCloseResult_Zero(woken, p) == IF p \in woken \cup {me} THEN 0 ELSE ret[p]

\* What a close leaves in syscall_retvalue.
MqCloseResult(woken, p) ==
    IF p \in woken THEN EMQ_CLOSED ELSE IF p = me THEN 0 ELSE ret[p]

MqClose(rid) ==
    LET woken == MqWokenByClose(mq[rid]) IN
    /\ InUserCode
    /\ rid \in mq_rids
    /\ mq_rids' = mq_rids \ {rid}
    /\ mq' = [mq EXCEPT ![rid] = NoQueue]
    /\ FreePtrs(Len(woken))
    /\ ret' = [p \in Pids |-> MqCloseResult(ToSet(woken), p)]
    /\ EndTrap(WakeAll(sched, woken))
    /\ UNCHANGED <<processVars, last_mq_rid, inbox>>

-----------------------------------------------------------------------------
(* The specification                                                       *)

MqInit ==
    /\ mq_rids = {}
    /\ mq = [rid \in MqRids |-> NoQueue]
    /\ last_mq_rid = FirstMqRid
    /\ inbox = [p \in Pids |-> NoMessage]

MqCall ==
    \/ \E capacity \in Capacities : MqOpen(capacity)
    \/ MqOpenFails
    \/ \E rid \in MqRids :
         \/ MqUnknown(rid)
         \/ \E m \in Messages : MqSendHandsOver(rid, m) \/ MqSendStores(rid, m)
         \/ MqSendBlocks(rid)
         \/ MqReceiveBlocks(rid)
         \/ MqBlocksWithoutPtr(rid)
         \/ MqReceiveTakes(rid)
         \/ MqClose(rid)

QueuesInit == KernelInit /\ MqInit
QueuesNext == MqCall \/ (KernelNext /\ UNCHANGED mqVars)
QueuesSpec == QueuesInit /\ [][QueuesNext]_queuesVars

-----------------------------------------------------------------------------
(* Properties                                                              *)

MqType ==
    [capacity : Nat, slots : UNION {[0 .. c - 1 -> Messages \cup {NoMessage}] : c \in Capacities \cup {0}},
     head : Nat, tail : Nat, count : Nat, wait_send : Seq(Pids), wait_recv : Seq(Pids)]

\* Those who wait for q, on either side.
Waiters(q) == q.wait_send \o q.wait_recv

\* Every variable holds a value of its type.
MqTypeOK ==
    /\ KernelTypeOK
    /\ mq_rids \subseteq MqRids
    /\ mq \in [MqRids -> MqType]
    /\ last_mq_rid \in FirstMqRid .. MaxMqRid + 1
    /\ inbox \in [Pids -> Messages \cup {NoMessage}]

\* Those blocked in the call num of rid.
BlockedIn(num, rid) ==
    {p \in Pids : sched.status[p] = "Waiting" /\ sched.call[p] = [num |-> num, arg |-> rid]}

\* A process is blocked in mq_send or mq_receive exactly while it is on that list
\* of that open queue, once: no wake-up hits a process that does not wait, and no
\* close leaves one behind.
MqWaitersAreBlocked ==
    /\ MqTypeOK
    /\ \A rid \in MqRids :
        /\ ToSet(mq[rid].wait_send) = BlockedIn("mq_send", rid)
        /\ ToSet(mq[rid].wait_recv) = BlockedIn("mq_receive", rid)
        /\ IsInjective(Waiters(mq[rid]))
        /\ rid \notin mq_rids => Waiters(mq[rid]) = <<>>

\* The indices of the ring stay in the slots and the count is the distance between
\* them: full and empty, where they are equal, are told apart by the count.  No
\* message lies in the ring while a receiver waits for one.
RingConsistent ==
    \A rid \in mq_rids :
        LET q == mq[rid] IN
        /\ q.count \in 0 .. q.capacity
        /\ q.capacity > 0 => /\ q.head \in 0 .. q.capacity - 1
                             /\ q.tail = (q.head + q.count) % q.capacity
        /\ q.wait_recv # <<>> => q.count = 0

\* A process leaves mq_send or mq_receive with 0 when the queue still exists, with
\* DSOS_EMQ_CLOSED when it was closed under it.
MqResultTellsClose ==
    [][\A rid \in MqRids : \A p \in ToSet(Waiters(mq[rid])) :
          p \notin ToSet(Waiters(mq'[rid])) =>
              ret'[p] = IF rid \in mq_rids' THEN 0 ELSE EMQ_CLOSED]_queuesVars

\* The messages in the ring, oldest first.
Content(q) == [i \in 1 .. q.count |-> q.slots[(q.head + i - 1) % q.capacity]]

Channel == INSTANCE MessageChannel WITH
    Rids <- MqRids,
    Users <- Pids,
    Nothing <- NoMessage,
    open <- mq_rids,
    capacity <- [rid \in MqRids |-> mq[rid].capacity],
    content <- [rid \in MqRids |-> Content(mq[rid])],
    senders <- [rid \in MqRids |-> mq[rid].wait_send],
    receivers <- [rid \in MqRids |-> mq[rid].wait_recv]

\* Messages that enter a queue leave it in order, each once, to the receivers in
\* their order: the ring and the waiting lists implement the abstract channel.
ImplementsMessageChannel == Channel!Spec

=============================================================================
