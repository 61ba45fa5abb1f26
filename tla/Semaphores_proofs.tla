-------------------------- MODULE Semaphores_proofs --------------------------
(***************************************************************************)
(* The safety of the semaphores, for every number of processes and of      *)
(* semaphores, and that they implement the abstract counting semaphore.    *)
(*                                                                         *)
(* The inductive invariant SemInv speaks of one semaphore at a time: its   *)
(* list holds those blocked in sem_wait on it, and its value is what the   *)
(* posts and the waits since sem_open have left of the initial one.  It    *)
(* does not say that nobody blocks on anything else, so that it holds      *)
(* beside the message queues too.                                          *)
(***************************************************************************)
EXTENDS Semaphores, Kernel_proofs

SemRecords == [value : Int, waiting : Seq(Pids)]

SemTypes ==
    /\ sem_rids \subseteq SemRids
    /\ sem \in [SemRids -> SemRecords]
    /\ next_sem_rid \in 1 .. MaxSemRid + 1

\* A rid that was not handed out yet is no semaphore's.
SemRidsFresh == \A rid \in sem_rids : rid < next_sem_rid

\* Whoever is blocked in sem_wait named a rid that was handed out.
SemWaitsNameRids == \A p \in Pids : InCall(sched, p, SemCalls) => sched.call[p].arg \in SemRids

BlockedInSem(s, rid) == {p \in Pids : InCall(s, p, SemCalls) /\ s.call[p].arg = rid}

\* What is left of the initial value v: without a permit it is owed by the waiters, and
\* by nobody if v was negative; only a semaphore opened without a debt gets above zero.
LeftOf(v, semaphore) ==
    IF semaphore.value < 0
    THEN semaphore.value = (IF v < 0 THEN v ELSE 0) - Len(semaphore.waiting)
    ELSE v >= 0 /\ semaphore.waiting = <<>>

SemSound(rid) ==
    /\ SemWaiters(rid) = BlockedInSem(sched, rid)
    /\ IsInjective(sem[rid].waiting)
    /\ IF rid \in sem_rids THEN \E v \in SemValues : LeftOf(v, sem[rid])
                           ELSE sem[rid] = NoSemaphore

SemInv ==
    /\ SemTypes
    /\ SemRidsFresh
    /\ SemWaitsNameRids
    /\ \A rid \in SemRids : SemSound(rid)

-----------------------------------------------------------------------------
(* What a step does to one semaphore                                       *)

\* The step makes semaphore rid the record r.
SemBecomes(rid, r) ==
    /\ sem' \in [SemRids -> SemRecords]
    /\ sem'[rid] = r
    /\ \A x \in SemRids \ {rid} : sem'[x] = sem[x]

\* A debt that grows or shrinks with the list stays what is left of the initial value.
LEMMA DebtFollowsList ==
    ASSUME NEW y \in Int, NEW value \in Int, NEW q \in Seq(Pids),
           NEW v \in Int, NEW t \in Seq(Pids),
           LeftOf(y, [value |-> value, waiting |-> q]),
           value <= 0, value < 0 \/ v < 0,
           v - value = Len(q) - Len(t)
    PROVE  LeftOf(y, [value |-> v, waiting |-> t])
<1> DEFINE debt == IF y < 0 THEN y ELSE 0
<1>1. debt \in Int /\ debt <= 0 /\ (debt = 0 => y >= 0)
  OBVIOUS
<1>2. IF value < 0 THEN value = debt - Len(q) ELSE y >= 0 /\ q = <<>>
  BY DEF LeftOf
<1>3. /\ Len(q) \in Nat /\ Len(t) \in Nat /\ (q = <<>> => Len(q) = 0) /\ (Len(t) = 0 => t = <<>>)
  BY LenProperties, EmptySeq
<1> SUFFICES IF v < 0 THEN v = debt - Len(t) ELSE y >= 0 /\ t = <<>>
  BY DEF LeftOf
<1>4. y >= 0 => debt = 0
  OBVIOUS
<1> HIDE DEF debt
<1>5. CASE value < 0
  <2>1. v = debt - Len(t)
    BY <1>1, <1>2, <1>3, <1>5
  <2>2. v >= 0 => debt = 0 /\ Len(t) = 0
    BY <2>1, <1>1, <1>3
  <2> QED
    BY <2>1, <2>2, <1>1, <1>3
<1>6. CASE value >= 0
  <2>1. v < 0 /\ debt = 0 /\ Len(q) = 0 /\ y >= 0
    BY <1>2, <1>3, <1>4, <1>6
  <2>2. value = 0
    BY <2>1, <1>3, <1>6
  <2> QED
    BY <2>1, <2>2, <1>3
<1> QED
  BY <1>5, <1>6

\* The types of the parts of the invariant.
LEMMA SemFacts ==
    ASSUME SemInv, NEW rid \in SemRids
    PROVE  /\ sem \in [SemRids -> SemRecords] /\ sem[rid] \in SemRecords
           /\ sem[rid].value \in Int /\ sem[rid].waiting \in Seq(Pids)
           /\ sem_rids \subseteq SemRids /\ SemRids \subseteq Nat /\ next_sem_rid \in Nat
           /\ Len(sem[rid].waiting) \in Nat
           /\ SemSound(rid)
<1>1. /\ sem \in [SemRids -> SemRecords] /\ sem_rids \subseteq SemRids /\ next_sem_rid \in Nat
      /\ SemRids \subseteq Nat /\ SemSound(rid)
  BY SemaphoresAssumption DEF SemInv, SemTypes, SemRids
<1>2. sem[rid] \in SemRecords
  BY <1>1
<1>3. sem[rid].value \in Int /\ sem[rid].waiting \in Seq(Pids)
  BY <1>2 DEF SemRecords
<1> QED
  BY <1>1, <1>2, <1>3, LenProperties

\* What is left where there is no semaphore.
LEMMA NoSemaphoreType ==
    /\ NoSemaphore \in SemRecords /\ NoSemaphore.waiting = <<>>
    /\ ToSet(<<>>) = {} /\ IsInjective(<<>>)
<1>1. <<>> \in Seq(Pids) /\ 0 \in Int
  OBVIOUS
<1>2. NoSemaphore \in SemRecords /\ NoSemaphore.waiting = <<>>
  BY <1>1 DEF NoSemaphore, SemRecords
<1> QED
  BY <1>2, SeqEmpty

\* A new value.
LEMMA SemValueSet ==
    ASSUME SemInv, NEW rid \in SemRids, NEW v \in Int,
           sem' = [sem EXCEPT ![rid].value = v]
    PROVE  SemBecomes(rid, [value |-> v, waiting |-> sem[rid].waiting])
<1> DEFINE r == [value |-> v, waiting |-> sem[rid].waiting]
<1>1. r \in SemRecords /\ sem[rid] \in SemRecords /\ sem \in [SemRids -> SemRecords]
  BY SemFacts DEF SemRecords
<1>2. [sem[rid] EXCEPT !.value = v] = r
  BY <1>1 DEF SemRecords
<1>3. sem' = [sem EXCEPT ![rid] = r]
  BY <1>1, <1>2
<1> HIDE DEF r
<1> QED
  BY <1>1, <1>3 DEF SemBecomes, r

\* A new value and a new list.
LEMMA SemBothSet ==
    ASSUME SemInv, NEW rid \in SemRids, NEW v \in Int, NEW q \in Seq(Pids),
           sem' = [sem EXCEPT ![rid].value = v, ![rid].waiting = q]
    PROVE  SemBecomes(rid, [value |-> v, waiting |-> q])
<1> DEFINE r == [value |-> v, waiting |-> q]
           s == [sem[rid] EXCEPT !.value = v]
<1>1. r \in SemRecords /\ sem[rid] \in SemRecords /\ sem \in [SemRids -> SemRecords]
  BY SemFacts DEF SemRecords
<1>2. s \in SemRecords /\ s.value = v
  BY <1>1 DEF SemRecords
<1>3. sem' = [[sem EXCEPT ![rid] = s] EXCEPT ![rid].waiting = q]
  BY <1>1
<1> HIDE DEF s
<1>3a. [s EXCEPT !.waiting = q] = r
  BY <1>2 DEF SemRecords
<1>4. [sem EXCEPT ![rid] = s] \in [SemRids -> SemRecords] /\ [sem EXCEPT ![rid] = s][rid] = s
  BY <1>1, <1>2
<1>5. sem' = [[sem EXCEPT ![rid] = s] EXCEPT ![rid] = r]
  BY <1>3, <1>3a, <1>4
<1> HIDE DEF r
<1> QED
  BY <1>1, <1>4, <1>5 DEF SemBecomes, r

\* A step that leaves those blocked in sem_wait alone.
LEMMA SemWaitersStay ==
    ASSUME SemInv, KeepsCalls(sched, sched', SemCalls)
    PROVE  /\ \A rid \in SemRids : BlockedInSem(sched', rid) = BlockedInSem(sched, rid)
           /\ SemWaitsNameRids'
BY DEF SemInv, KeepsCalls, BlockedInSem, SemWaitsNameRids

\* A step of somebody else's keeps the invariant.
LEMMA OthersKeepSemInv ==
    ASSUME SemInv, KeepsCalls(sched, sched', SemCalls), UNCHANGED semVars
    PROVE  SemInv'
<1>1. SemTypes' /\ SemRidsFresh'
  BY DEF SemInv, SemTypes, SemRidsFresh, semVars
<1>2. ASSUME NEW rid \in SemRids PROVE SemSound(rid)'
  BY SemFacts, SemWaitersStay DEF SemSound, SemWaiters, semVars
<1> QED
  BY <1>1, <1>2, SemWaitersStay DEF SemInv

\* A step that changes one open semaphore keeps the invariant if the list it leaves is
\* that of those blocked on it, and the value still what is left of the initial one.
LEMMA SemChangeKeepsInv ==
    ASSUME SemInv, NEW rid \in sem_rids, NEW r, SemBecomes(rid, r),
           UNCHANGED <<sem_rids, next_sem_rid>>,
           IsInjective(r.waiting), ToSet(r.waiting) = BlockedInSem(sched', rid),
           \A x \in SemRids \ {rid} : BlockedInSem(sched', x) = BlockedInSem(sched, x),
           SemWaitsNameRids',
           \A v \in SemValues : LeftOf(v, sem[rid]) => LeftOf(v, r)
    PROVE  SemInv'
<1>1. SemTypes' /\ SemRidsFresh'
  BY DEF SemInv, SemTypes, SemRidsFresh, SemBecomes
<1>2. ASSUME NEW x \in SemRids PROVE SemSound(x)'
  <2>1. CASE x = rid
    BY <2>1, SemFacts DEF SemBecomes, SemSound, SemWaiters
  <2>2. CASE x # rid
    BY <2>2, SemFacts DEF SemBecomes, SemSound, SemWaiters
  <2> QED
    BY <2>1, <2>2
<1> QED
  BY <1>1, <1>2 DEF SemInv

-----------------------------------------------------------------------------
(* The calls                                                               *)

\* What a call keeps: both invariants, and who is blocked on a message queue.
SemKept == KernelInv' /\ SemInv' /\ KeepsCalls(sched, sched', MqCalls)

\* A call with no semaphore to act on, or no room for one more.
LEMMA SemRefusalsKeep ==
    ASSUME KernelInv, SemInv, SemOpenFails \/ \E rid \in SemRids : SemUnknown(rid)
    PROVE  SemKept
<1>1. EINVAL \in Int /\ ENOMEM \in Int
  BY DEF EINVAL, ENOMEM
<1>2. /\ Return(EINVAL) \/ Return(ENOMEM)
      /\ UNCHANGED <<processVars, ptrs, semVars>>
  BY DEF SemUnknown, SemOpenFails
<1> QED
  BY <1>1, <1>2, ReturnKeepsCalls, OthersKeepSemInv DEF SemKept

\* sem_open makes a semaphore nobody waits for.
LEMMA SemOpenKeeps ==
    ASSUME KernelInv, SemInv, NEW v \in SemValues, SemOpen(v)
    PROVE  SemKept
<1> DEFINE rid == next_sem_rid
           r == [value |-> v, waiting |-> <<>>]
<1>1. /\ rid \in SemRids /\ rid \in Nat /\ rid \notin sem_rids /\ v \in Int
      /\ sem' = [sem EXCEPT ![rid] = r] /\ sem_rids' = sem_rids \cup {rid}
      /\ next_sem_rid' = rid + 1
      /\ Return(rid) /\ UNCHANGED <<processVars, ptrs>>
  BY SemaphoresAssumption DEF SemOpen, SemInv, SemTypes, SemRidsFresh, SemRids
<1>2. KernelInv' /\ KeepsCalls(sched, sched', SemCalls) /\ KeepsCalls(sched, sched', MqCalls)
  BY <1>1, ReturnKeepsCalls
<1>3. \A x \in SemRids : BlockedInSem(sched', x) = BlockedInSem(sched, x)
  BY <1>2, SemWaitersStay
<1>4. r \in SemRecords
  BY <1>1 DEF SemRecords
<1>5. SemTypes' /\ SemRidsFresh'
  <2>1. next_sem_rid' \in 1 .. MaxSemRid + 1
    BY <1>1, SemaphoresAssumption DEF SemRids
  <2>2. \A x \in sem_rids : x < rid + 1
    <3> SUFFICES ASSUME NEW x \in sem_rids PROVE x < rid + 1
      OBVIOUS
    <3>1. x \in Nat /\ x < rid
      BY SemaphoresAssumption DEF SemInv, SemTypes, SemRidsFresh, SemRids
    <3> QED
      BY <3>1, <1>1
  <2>3. rid < rid + 1
    BY <1>1
  <2> HIDE DEF rid, r
  <2>4. sem' \in [SemRids -> SemRecords]
    BY <1>1, <1>4 DEF SemInv, SemTypes
  <2> QED
    BY <2>1, <2>2, <2>3, <2>4, <1>1 DEF SemInv, SemTypes, SemRidsFresh
<1>6. ASSUME NEW x \in SemRids PROVE SemSound(x)'
  <2>1. CASE x = rid
    <3>1. SemWaiters(rid) = BlockedInSem(sched', rid) /\ sem[rid].waiting = <<>>
      BY <1>1, <1>3, SemFacts DEF SemSound, NoSemaphore
    <3>2. sem'[rid] = r /\ IsInjective(<<>>) /\ LeftOf(v, r)
      BY <1>1 DEF SemInv, SemTypes, IsInjective, LeftOf
    <3> QED
      BY <2>1, <3>1, <3>2, <1>1 DEF SemSound, SemWaiters
  <2>2. CASE x # rid
    BY <2>2, <1>1, <1>3, SemFacts DEF SemSound, SemWaiters
  <2> QED
    BY <2>1, <2>2
<1> QED
  BY <1>2, <1>5, <1>6, SemWaitersStay DEF SemInv, SemKept

\* Whoever blocks on a semaphore joins those blocked on it, and on nothing else.
LEMMA SemBlocked ==
    ASSUME SemInv, NEW rid \in SemRids, NEW m \in Pids, ~BlockedOnResource(sched, m),
           Blocks(sched, sched', m, [num |-> "sem_wait", arg |-> rid])
    PROVE  /\ BlockedInSem(sched', rid) = BlockedInSem(sched, rid) \cup {m}
           /\ m \notin BlockedInSem(sched, rid)
           /\ \A x \in SemRids \ {rid} : BlockedInSem(sched', x) = BlockedInSem(sched, x)
           /\ SemWaitsNameRids'
           /\ KeepsCalls(sched, sched', MqCalls)
<1> DEFINE c == [num |-> "sem_wait", arg |-> rid]
<1>1. c.num = "sem_wait" /\ c.arg = rid /\ c.num \in SemCalls /\ c.num \notin MqCalls
  BY DEF SemCalls, MqCalls
<1> HIDE DEF c
<1>2. Blocks(sched, sched', m, c)
  BY DEF c
<1>3. KeepsCalls(sched, sched', MqCalls)
  BY <1>1, <1>2, CallKinds, BlocksKeepsCalls
<1>4. \A p \in Pids : p # m => /\ InCall(sched', p, SemCalls) <=> InCall(sched, p, SemCalls)
                               /\ InCall(sched, p, SemCalls) => sched'.call[p] = sched.call[p]
  BY <1>2, CallKinds DEF Blocks, InCall, BlockedOnResource
<1>5. InCall(sched', m, SemCalls) /\ sched'.call[m].arg = rid /\ ~InCall(sched, m, SemCalls)
  BY <1>1, <1>2, CallKinds DEF Blocks, InCall, BlockedOnResource
<1>6. SemWaitsNameRids'
  BY <1>4, <1>5 DEF SemInv, SemWaitsNameRids
<1> QED
  BY <1>3, <1>4, <1>5, <1>6 DEF BlockedInSem

\* Whoever is woken from one semaphore leaves those blocked on it, and no others.
LEMMA SemUnblocked ==
    ASSUME SemInv, NEW rid \in SemRids, NEW w, w \subseteq BlockedInSem(sched, rid),
           Unblocks(sched, sched', w)
    PROVE  /\ BlockedInSem(sched', rid) = BlockedInSem(sched, rid) \ w
           /\ \A x \in SemRids \ {rid} : BlockedInSem(sched', x) = BlockedInSem(sched, x)
           /\ SemWaitsNameRids'
           /\ KeepsCalls(sched, sched', MqCalls)
<1>1. \A p \in w : p \in Pids /\ InCall(sched, p, SemCalls) /\ sched.call[p].arg = rid
  BY DEF BlockedInSem
<1>2. KeepsCalls(sched, sched', MqCalls)
  BY <1>1, CallKinds, UnblocksKeepsCalls DEF InCall
<1>3. \A p \in Pids :
        /\ InCall(sched', p, SemCalls) <=> InCall(sched, p, SemCalls) /\ p \notin w
        /\ InCall(sched', p, SemCalls) => sched'.call[p] = sched.call[p]
  BY CallKinds DEF Unblocks, InCall, BlockedOnResource
<1>4. SemWaitsNameRids'
  BY <1>3 DEF SemInv, SemWaitsNameRids
<1> QED
  BY <1>1, <1>2, <1>3, <1>4 DEF BlockedInSem

\* sem_wait takes a permit, or sem_post adds one, and nobody waits.
LEMMA SemPermitsKeep ==
    ASSUME KernelInv, SemInv, NEW rid \in SemRids, SemWaitPasses(rid) \/ SemPostCounts(rid)
    PROVE  SemKept
<1>1. sem[rid].value \in Int /\ SemSound(rid)
  BY SemFacts
<1>2. PICK v \in Int : v >= 0 /\ sem' = [sem EXCEPT ![rid].value = v]
  <2>1. CASE SemWaitPasses(rid)
    <3>1. sem[rid].value - 1 \in Int /\ sem[rid].value - 1 >= 0
      BY <2>1, <1>1 DEF SemWaitPasses
    <3>2. sem' = [sem EXCEPT ![rid].value = sem[rid].value - 1]
      BY <2>1 DEF SemWaitPasses
    <3> QED
      BY <3>1, <3>2, Zenon
  <2>2. CASE SemPostCounts(rid)
    <3>1. sem[rid].value + 1 \in Int /\ sem[rid].value + 1 >= 0
      BY <2>2, <1>1 DEF SemPostCounts
    <3>2. sem' = [sem EXCEPT ![rid].value = sem[rid].value + 1]
      BY <2>2 DEF SemPostCounts
    <3> QED
      BY <3>1, <3>2, Zenon
  <2> QED
    BY <2>1, <2>2
<1> DEFINE r == [value |-> v, waiting |-> sem[rid].waiting]
<1>3. /\ rid \in sem_rids /\ sem[rid].value >= 0 /\ 0 \in Int
      /\ Return(0) /\ UNCHANGED <<processVars, ptrs, sem_rids, next_sem_rid>>
  BY <1>1 DEF SemWaitPasses, SemPostCounts
<1>4. /\ KernelInv'
      /\ KeepsCalls(sched, sched', SemCalls) /\ KeepsCalls(sched, sched', MqCalls)
  BY <1>3, ReturnKeepsCalls
<1>5. SemBecomes(rid, r)
  BY <1>2, SemValueSet
<1>6. \A y \in SemValues : LeftOf(y, sem[rid]) => LeftOf(y, r)
  BY <1>1, <1>2, <1>3 DEF LeftOf
<1>7. /\ IsInjective(r.waiting) /\ ToSet(r.waiting) = BlockedInSem(sched', rid)
      /\ \A x \in SemRids \ {rid} : BlockedInSem(sched', x) = BlockedInSem(sched, x)
      /\ SemWaitsNameRids'
  BY <1>1, <1>4, SemWaitersStay DEF SemSound, SemWaiters
<1> HIDE DEF r
<1> QED
  BY <1>3, <1>4, <1>5, <1>6, <1>7, SemChangeKeepsInv DEF SemKept

\* sem_wait without a permit: the caller joins the list and the debt grows by one.
LEMMA SemWaitBlocksKeeps ==
    ASSUME KernelInv, SemInv, NEW rid \in SemRids, SemWaitBlocks(rid)
    PROVE  SemKept
<1> DEFINE v == sem[rid].value - 1
           q == Append(sem[rid].waiting, me)
           r == [value |-> v, waiting |-> q]
<1>1. /\ InUserCode /\ rid \in sem_rids /\ sem[rid].value <= 0 /\ ptrs < MaxProcs
      /\ ptrs' = ptrs + 1 /\ EndTrap(ParkAndPop(sched, "sem_wait", rid))
      /\ sem' = [sem EXCEPT ![rid].value = v, ![rid].waiting = q]
      /\ UNCHANGED <<processVars, ret, sem_rids, next_sem_rid>>
  BY DEF SemWaitBlocks, Enqueue
<1>2. /\ KernelInv' /\ me \in Pids /\ ~BlockedOnResource(sched, me)
      /\ Blocks(sched, sched', me, [num |-> "sem_wait", arg |-> rid])
  BY <1>1, SemFacts, BlockKeepsInv DEF processVars, ResourceCalls
<1>3. /\ BlockedInSem(sched', rid) = BlockedInSem(sched, rid) \cup {me}
      /\ me \notin BlockedInSem(sched, rid)
      /\ \A x \in SemRids \ {rid} : BlockedInSem(sched', x) = BlockedInSem(sched, x)
      /\ SemWaitsNameRids' /\ KeepsCalls(sched, sched', MqCalls)
  BY <1>2, SemBlocked
<1>4. /\ sem[rid].waiting \in Seq(Pids) /\ Len(sem[rid].waiting) \in Nat /\ v \in Int
      /\ sem[rid].value \in Int /\ sem[rid].value = v + 1
      /\ IsInjective(sem[rid].waiting) /\ ToSet(sem[rid].waiting) = BlockedInSem(sched, rid)
  BY SemFacts DEF SemSound, SemWaiters
<1>5. /\ q \in Seq(Pids) /\ ToSet(q) = BlockedInSem(sched', rid) /\ IsInjective(q)
      /\ Len(q) = Len(sem[rid].waiting) + 1
  BY <1>2, <1>3, <1>4, SeqAppend, AppendProperties
<1> HIDE DEF v, q
<1>6. SemBecomes(rid, r)
  BY <1>1, <1>4, <1>5, SemBothSet
<1>7. ASSUME NEW y \in SemValues, LeftOf(y, sem[rid]) PROVE LeftOf(y, r)
  <2>1. y \in Int /\ sem[rid] = [value |-> sem[rid].value, waiting |-> sem[rid].waiting]
    BY SemFacts, SemaphoresAssumption DEF SemRecords
  <2>2. v - sem[rid].value = Len(sem[rid].waiting) - Len(q)
      /\ sem[rid].value <= 0 /\ (sem[rid].value < 0 \/ v < 0)
    BY <1>1, <1>4, <1>5
  <2> QED
    BY <2>1, <2>2, <1>4, <1>5, <1>7, DebtFollowsList
<1>8. IsInjective(r.waiting) /\ ToSet(r.waiting) = BlockedInSem(sched', rid)
  BY <1>5
<1> HIDE DEF r
<1> QED
  BY <1>1, <1>2, <1>3, <1>6, <1>7, <1>8, SemChangeKeepsInv DEF SemKept

\* sem_post with somebody waiting: the first leaves the list, and the debt is less by one.
LEMMA SemPostWakesKeeps ==
    ASSUME KernelInv, SemInv, NEW rid \in SemRids, SemPostWakes(rid)
    PROVE  SemKept
<1> DEFINE v == sem[rid].value + 1
           q == Tail(sem[rid].waiting)
           r == [value |-> v, waiting |-> q]
           w == <<Head(sem[rid].waiting)>>
<1>1. /\ InUserCode /\ rid \in sem_rids /\ sem[rid].value < 0 /\ sem[rid].waiting # <<>>
      /\ ptrs' = ptrs - 1 /\ EndTrap(WakeAll(sched, w))
      /\ sem' = [sem EXCEPT ![rid].value = v, ![rid].waiting = q]
      /\ ret' = [ret EXCEPT ![Head(sem[rid].waiting)] = 0, ![me] = 0]
      /\ UNCHANGED <<processVars, sem_rids, next_sem_rid>>
  BY DEF SemPostWakes, Dequeue
<1>2. /\ sem[rid].waiting \in Seq(Pids) /\ Len(sem[rid].waiting) \in Nat /\ v \in Int
      /\ sem[rid].value \in Int /\ sem[rid].value = v - 1
      /\ IsInjective(sem[rid].waiting) /\ ToSet(sem[rid].waiting) = BlockedInSem(sched, rid)
  BY SemFacts DEF SemSound, SemWaiters
<1>3. /\ Head(sem[rid].waiting) \in BlockedInSem(sched, rid) /\ q \in Seq(Pids)
      /\ ToSet(q) = BlockedInSem(sched, rid) \ {Head(sem[rid].waiting)} /\ IsInjective(q)
      /\ Len(q) = Len(sem[rid].waiting) - 1
  BY <1>1, <1>2, SeqTail, HeadTailProperties
<1>4. w \in Seq(Pids) /\ IsInjective(w) /\ ToSet(w) = {Head(sem[rid].waiting)} /\ Len(w) = 1
  BY <1>3 DEF BlockedInSem, IsInjective, ToSet
<1>5. \A p \in ToSet(w) : BlockedOnResource(sched, p)
  BY <1>3, <1>4, CallKinds DEF BlockedInSem, InCall, BlockedOnResource
<1>6. ret' \in [Pids -> Int]
  <2>1. ret \in [Pids -> Int] /\ 0 \in Int
    BY DEF KernelInv, KernelTypeOK
  <2> HIDE DEF v, q, w
  <2> QED
    BY <2>1, <1>1
<1> HIDE DEF v, q, w
<1>7. KernelInv' /\ Unblocks(sched, sched', ToSet(w))
  BY <1>1, <1>4, <1>5, <1>6, UnblockKeepsInv DEF processVars
<1>8. /\ BlockedInSem(sched', rid) = ToSet(q)
      /\ \A x \in SemRids \ {rid} : BlockedInSem(sched', x) = BlockedInSem(sched, x)
      /\ SemWaitsNameRids' /\ KeepsCalls(sched, sched', MqCalls)
  BY <1>3, <1>4, <1>7, SemUnblocked
<1>9. SemBecomes(rid, r)
  BY <1>1, <1>2, <1>3, SemBothSet
<1>10. ASSUME NEW y \in SemValues, LeftOf(y, sem[rid]) PROVE LeftOf(y, r)
  <2>1. y \in Int /\ sem[rid] = [value |-> sem[rid].value, waiting |-> sem[rid].waiting]
    BY SemFacts, SemaphoresAssumption DEF SemRecords
  <2>2. v - sem[rid].value = Len(sem[rid].waiting) - Len(q)
      /\ sem[rid].value <= 0 /\ (sem[rid].value < 0 \/ v < 0)
    BY <1>1, <1>2, <1>3
  <2> QED
    BY <2>1, <2>2, <1>2, <1>3, <1>10, DebtFollowsList
<1>11. IsInjective(r.waiting) /\ ToSet(r.waiting) = BlockedInSem(sched', rid)
  BY <1>3, <1>8
<1> HIDE DEF r
<1> QED
  BY <1>1, <1>7, <1>8, <1>9, <1>10, <1>11, SemChangeKeepsInv DEF SemKept

\* sem_close wakes everybody on the list, and leaves none behind.
LEMMA SemCloseKeeps ==
    ASSUME KernelInv, SemInv, NEW rid \in SemRids, SemClose(rid)
    PROVE  SemKept
<1> DEFINE q == sem[rid].waiting
<1>1. /\ InUserCode /\ rid \in sem_rids /\ sem_rids' = sem_rids \ {rid}
      /\ sem' = [sem EXCEPT ![rid] = NoSemaphore]
      /\ ptrs' = ptrs - Len(q) /\ EndTrap(WakeAll(sched, q))
      /\ ret' = [p \in Pids |-> SemCloseResult(ToSet(q), p)]
      /\ UNCHANGED <<processVars, next_sem_rid>>
  BY DEF SemClose, SemWokenByClose
<1>2. /\ q \in Seq(Pids) /\ IsInjective(q) /\ ToSet(q) = BlockedInSem(sched, rid)
      /\ sem \in [SemRids -> SemRecords]
  BY SemFacts DEF SemSound, SemWaiters
<1>3. \A p \in ToSet(q) : BlockedOnResource(sched, p)
  BY <1>2, CallKinds DEF BlockedInSem, InCall, BlockedOnResource
<1>4. ret' \in [Pids -> Int]
  BY <1>1 DEF KernelInv, KernelTypeOK, SemCloseResult, ESEM_CLOSED
<1> HIDE DEF q
<1>5. KernelInv' /\ Unblocks(sched, sched', ToSet(q))
  BY <1>1, <1>2, <1>3, <1>4, UnblockKeepsInv DEF processVars
<1>6. /\ BlockedInSem(sched', rid) = {}
      /\ \A x \in SemRids \ {rid} : BlockedInSem(sched', x) = BlockedInSem(sched, x)
      /\ SemWaitsNameRids' /\ KeepsCalls(sched, sched', MqCalls)
  BY <1>2, <1>5, SemUnblocked
<1>7. NoSemaphore \in SemRecords /\ ToSet(<<>>) = {} /\ IsInjective(<<>>)
  BY NoSemaphoreType
<1>8. SemTypes' /\ SemRidsFresh'
  BY <1>1, <1>2, <1>7 DEF SemInv, SemTypes, SemRidsFresh
<1>9. ASSUME NEW x \in SemRids PROVE SemSound(x)'
  <2>1. CASE x = rid
    <3>1. sem'[rid] = NoSemaphore /\ rid \notin sem_rids' /\ NoSemaphore.waiting = <<>>
      BY <1>1, <1>2 DEF NoSemaphore
    <3> QED
      BY <2>1, <3>1, <1>6, <1>7 DEF SemSound, SemWaiters
  <2>2. CASE x # rid
    <3>1. sem'[x] = sem[x] /\ (x \in sem_rids' <=> x \in sem_rids)
      BY <2>2, <1>1, <1>2
    <3> QED
      BY <2>2, <3>1, <1>6, SemFacts DEF SemSound, SemWaiters
  <2> QED
    BY <2>1, <2>2
<1> QED
  BY <1>5, <1>6, <1>8, <1>9 DEF SemInv, SemKept

\* A call that finds no block for its caller, or no waiter it owes a post to.
LEMMA SemStopsKeep ==
    ASSUME KernelInv, SemInv, NEW rid \in SemRids,
           SemWaitWithoutPtr(rid) \/ SemPostWithoutWaiter(rid)
    PROVE  SemKept
<1>1. PICK how \in Halts : Stop(how) /\ UNCHANGED semVars
  BY DEF SemWaitWithoutPtr, SemPostWithoutWaiter, Halts
<1> QED
  BY <1>1, StopKeepsCalls, OthersKeepSemInv DEF SemKept

\* Every call on a semaphore keeps both invariants.
LEMMA SemCallKeeps ==
    ASSUME KernelInv, SemInv, SemCall
    PROVE  SemKept
<1>1. ASSUME NEW v \in SemValues, SemOpen(v) PROVE SemKept
  BY <1>1, SemOpenKeeps
<1>2. ASSUME SemOpenFails PROVE SemKept
  BY <1>2, SemRefusalsKeep
<1>3. ASSUME NEW rid \in SemRids, SemUnknown(rid) PROVE SemKept
  BY <1>3, SemRefusalsKeep
<1>4. ASSUME NEW rid \in SemRids, SemWait(rid) PROVE SemKept
  BY <1>4, SemPermitsKeep, SemWaitBlocksKeeps, SemStopsKeep DEF SemWait
<1>5. ASSUME NEW rid \in SemRids, SemPost(rid) PROVE SemKept
  BY <1>5, SemPermitsKeep, SemPostWakesKeeps, SemStopsKeep DEF SemPost
<1>6. ASSUME NEW rid \in SemRids, SemClose(rid) PROVE SemKept
  BY <1>6, SemCloseKeeps
<1> QED
  BY <1>1, <1>2, <1>3, <1>4, <1>5, <1>6 DEF SemCall

-----------------------------------------------------------------------------
(* The theorems                                                            *)

\* At the start there are no semaphores, and nobody is blocked.
LEMMA SemInitEstablishesInv ==
    ASSUME KernelInit, SemInit
    PROVE  SemInv
<1>1. \A p \in Pids : sched.status[p] # "Waiting"
  BY DEF KernelInit
<1>2. SemWaitsNameRids /\ \A rid \in SemRids : BlockedInSem(sched, rid) = {}
  BY <1>1 DEF SemWaitsNameRids, BlockedInSem, InCall
<1>3. NoSemaphore \in SemRecords /\ NoSemaphore.waiting = <<>>
      /\ ToSet(<<>>) = {} /\ IsInjective(<<>>)
  BY NoSemaphoreType
<1>4. SemTypes /\ SemRidsFresh
  BY <1>3, SemaphoresAssumption DEF SemInit, SemTypes, SemRidsFresh
<1>5. ASSUME NEW rid \in SemRids PROVE SemSound(rid)
  <2>1. sem[rid] = NoSemaphore /\ rid \notin sem_rids
    BY DEF SemInit
  <2> QED
    BY <2>1, <1>2, <1>3 DEF SemSound, SemWaiters
<1> QED
  BY <1>2, <1>4, <1>5 DEF SemInv

\* Every step keeps the invariant.
LEMMA SemNextKeepsInv ==
    ASSUME KernelInv, SemInv, [SemaphoresNext]_semaphoresVars
    PROVE  KernelInv' /\ SemInv'
<1>1. CASE SemCall
  BY <1>1, SemCallKeeps DEF SemKept
<1>2. CASE [KernelNext]_kernelVars /\ UNCHANGED semVars
  <2>1. KernelInv' /\ KeepsCalls(sched, sched', SemCalls)
    BY <1>2, KernelStepKeeps, CallKinds, BlockedKeepCalls
  <2> QED
    BY <1>2, <2>1, OthersKeepSemInv
<1> QED
  BY <1>1, <1>2 DEF SemaphoresNext, semaphoresVars

\* The invariants of the kernel and of the semaphores hold in every behaviour.
THEOREM SemaphoresInvariant == SemaphoresSpec => [](KernelInv /\ SemInv)
<1>1. SemaphoresInit => KernelInv /\ SemInv
  BY InitEstablishesInv, SemInitEstablishesInv DEF SemaphoresInit
<1>2. KernelInv /\ SemInv /\ [SemaphoresNext]_semaphoresVars => (KernelInv /\ SemInv)'
  BY SemNextKeepsInv
<1> QED
  BY <1>1, <1>2, PTL DEF SemaphoresSpec

\* What the two invariants say in the words of SemWaitersAreBlocked.
LEMMA SemInvTellsWaiters ==
    ASSUME KernelInv, SemInv
    PROVE  SemWaitersAreBlocked
<1>1. SemTypeOK
  BY DEF KernelInv, SemInv, SemTypes, SemTypeOK, SemRecords
<1>2. ASSUME NEW rid \in SemRids
      PROVE  BlockedInSem(sched, rid) = {p \in Pids : /\ sched.status[p] = "Waiting"
                                                      /\ sched.call[p] = [num |-> "sem_wait", arg |-> rid]}
  BY InvTypes DEF BlockedInSem, InCall, SemCalls, Calls
<1>3. ASSUME NEW rid \in SemRids, rid \notin sem_rids PROVE sem[rid].waiting = <<>>
  BY <1>3, SemFacts DEF SemSound, NoSemaphore
<1> QED
  BY <1>1, <1>2, <1>3, SemFacts DEF SemWaitersAreBlocked, SemSound

\* A process is blocked in sem_wait exactly while it is on that semaphore's list, once.
THEOREM SemWaitersAreRight == SemaphoresSpec => []SemWaitersAreBlocked
<1>1. KernelInv /\ SemInv => SemWaitersAreBlocked
  BY SemInvTellsWaiters
<1> QED
  BY <1>1, SemaphoresInvariant, PTL

\* The least and the greatest of a number and zero.
LEMMA MinMaxZero ==
    ASSUME NEW x \in Int
    PROVE  /\ Min({x, 0}) = IF x < 0 THEN x ELSE 0
           /\ Max({x, 0}) = IF x > 0 THEN x ELSE 0
<1>1. ASSUME NEW y \in {x, 0}, \A z \in {x, 0} : y <= z PROVE y = IF x < 0 THEN x ELSE 0
  BY <1>1
<1>2. ASSUME NEW y \in {x, 0}, \A z \in {x, 0} : y >= z PROVE y = IF x > 0 THEN x ELSE 0
  BY <1>2
<1>3. \E y \in {x, 0} : \A z \in {x, 0} : y <= z
  OBVIOUS
<1>4. \E y \in {x, 0} : \A z \in {x, 0} : y >= z
  OBVIOUS
<1> QED
  BY <1>1, <1>2, <1>3, <1>4 DEF Min, Max

\* A negative value counts the waiters, and nobody waits while there is a permit.
THEOREM ValuesCountWaiters == SemaphoresSpec => []ValueCountsWaiters
<1>1. ASSUME SemInv PROVE ValueCountsWaiters
  <2> SUFFICES ASSUME NEW rid \in sem_rids
               PROVE  IF sem[rid].value < 0
                      THEN \E v \in SemValues :
                             sem[rid].value = Min({v, 0}) - Len(sem[rid].waiting)
                      ELSE sem[rid].waiting = <<>>
    BY DEF ValueCountsWaiters
  <2>1. PICK v \in SemValues : LeftOf(v, sem[rid])
    BY <1>1 DEF SemInv, SemTypes, SemSound
  <2>2. Min({v, 0}) = IF v < 0 THEN v ELSE 0
    BY MinMaxZero, SemaphoresAssumption
  <2> QED
    BY <2>1, <2>2 DEF LeftOf
<1>2. SemInv => ValueCountsWaiters
  BY <1>1
<1> QED
  BY <1>2, SemaphoresInvariant, PTL

\* A step that leaves a list alone, or all the semaphores.
SameList(rid) == sem'[rid].waiting = sem[rid].waiting

\* What a step that makes one semaphore r does to the lists of the others.
LEMMA OtherListsStay ==
    ASSUME NEW rid \in SemRids, NEW r, SemBecomes(rid, r), NEW x \in SemRids, x # rid
    PROVE  SameList(x)
BY DEF SemBecomes, SameList

\* The lists lose somebody only in a post or in a close.
LEMMA OnlyPostAndCloseWake ==
    ASSUME KernelInv, SemInv, [SemaphoresNext]_semaphoresVars,
           \A rid \in SemRids : ~SemPostWakes(rid) /\ ~SemClose(rid),
           NEW x \in SemRids
    PROVE  ToSet(sem[x].waiting) \subseteq ToSet(sem'[x].waiting)
<1>1. ASSUME UNCHANGED semVars PROVE SameList(x)
  BY <1>1 DEF semVars, SameList
<1>2. ASSUME NEW v \in SemValues, SemOpen(v) PROVE SameList(x)
  <2>1. /\ next_sem_rid \notin sem_rids /\ next_sem_rid \in SemRids
        /\ sem' = [sem EXCEPT ![next_sem_rid] = [value |-> v, waiting |-> <<>>]]
    BY <1>2, SemaphoresAssumption DEF SemOpen, SemInv, SemTypes, SemRidsFresh, SemRids
  <2>2. sem[next_sem_rid].waiting = <<>> /\ sem \in [SemRids -> SemRecords]
    BY <2>1, SemFacts, NoSemaphoreType DEF SemSound
  <2> QED
    BY <2>1, <2>2 DEF SameList
<1>3. ASSUME NEW rid \in SemRids, SemWaitPasses(rid) \/ SemPostCounts(rid) PROVE SameList(x)
  <2>1. sem[rid].value \in Int
    BY SemFacts
  <2>2. PICK v \in Int : sem' = [sem EXCEPT ![rid].value = v]
    <3>1. sem[rid].value - 1 \in Int /\ sem[rid].value + 1 \in Int
      BY <2>1
    <3> QED
      BY <1>3, <3>1, Zenon DEF SemWaitPasses, SemPostCounts
  <2>3. SemBecomes(rid, [value |-> v, waiting |-> sem[rid].waiting])
    BY <2>2, SemValueSet
  <2> QED
    BY <2>3 DEF SemBecomes, SameList
<1>4. ASSUME NEW rid \in SemRids, SemWaitBlocks(rid)
      PROVE  ToSet(sem[x].waiting) \subseteq ToSet(sem'[x].waiting)
  <2> DEFINE v == sem[rid].value - 1
             q == Append(sem[rid].waiting, me)
  <2>1. sem' = [sem EXCEPT ![rid].value = v, ![rid].waiting = q] /\ me \in Pids
    BY <1>4, InvTypes DEF SemWaitBlocks, Enqueue, InUserCode, me
  <2>2. v \in Int /\ q \in Seq(Pids) /\ ToSet(sem[rid].waiting) \subseteq ToSet(q)
    BY <2>1, SemFacts, SeqAppend
  <2> HIDE DEF v, q
  <2>3. SemBecomes(rid, [value |-> v, waiting |-> q])
    BY <2>1, <2>2, SemBothSet
  <2> QED
    BY <2>2, <2>3 DEF SemBecomes
<1> QED
  BY <1>1, <1>2, <1>3, <1>4
     DEF SemaphoresNext, semaphoresVars, SemCall, SemOpenFails, SemUnknown, SemWait, SemPost,
         SemWaitWithoutPtr, SemPostWithoutWaiter, SameList

\* A process leaves sem_wait with 0 or, when the semaphore was closed, with the error.
THEOREM WaitsTellOfClose == SemaphoresSpec => WaitResultTellsClose
<1> DEFINE Told == \A rid \in SemRids : \A p \in SemWaiters(rid) :
                     p \notin ToSet(sem'[rid].waiting) =>
                       ret'[p] = IF rid \in sem_rids' THEN 0 ELSE ESEM_CLOSED
<1>1. ASSUME KernelInv, SemInv, [SemaphoresNext]_semaphoresVars,
             NEW x \in SemRids, NEW p \in SemWaiters(x), p \notin ToSet(sem'[x].waiting)
      PROVE  ret'[p] = IF x \in sem_rids' THEN 0 ELSE ESEM_CLOSED
  <2>0. p \in Pids /\ ret \in [Pids -> Int] /\ sem \in [SemRids -> SemRecords]
    BY <1>1, SemFacts DEF SemSound, BlockedInSem, KernelInv, KernelTypeOK
  <2>1. PICK rid \in SemRids : SemPostWakes(rid) \/ SemClose(rid)
    BY <1>1, OnlyPostAndCloseWake DEF SemWaiters
  <2>2. CASE SemPostWakes(rid)
    <3> DEFINE v == sem[rid].value + 1
               q == Tail(sem[rid].waiting)
               h == Head(sem[rid].waiting)
    <3>1. /\ sem' = [sem EXCEPT ![rid].value = v, ![rid].waiting = q]
          /\ ret' = [ret EXCEPT ![h] = 0, ![me] = 0]
          /\ rid \in sem_rids' /\ sem[rid].waiting # <<>>
      BY <2>2 DEF SemPostWakes, Dequeue
    <3>2. /\ v \in Int /\ q \in Seq(Pids) /\ ToSet(q) = SemWaiters(rid) \ {h}
      BY <3>1, <1>1, SemFacts, SeqTail DEF SemSound, SemWaiters
    <3> HIDE DEF v, q, h
    <3>3. SemBecomes(rid, [value |-> v, waiting |-> q])
      BY <3>1, <3>2, <1>1, SemBothSet
    <3>4. x = rid
      BY <3>3, <1>1 DEF SemBecomes, SemWaiters
    <3>5. p = h
      BY <3>2, <3>3, <3>4, <1>1 DEF SemBecomes
    <3>6. ret'[h] = 0
      BY <3>1, <3>5, <2>0
    <3> QED
      BY <3>1, <3>4, <3>5, <3>6
  <2>3. CASE SemClose(rid)
    <3>1. /\ sem' = [sem EXCEPT ![rid] = NoSemaphore] /\ rid \notin sem_rids'
          /\ ret' = [y \in Pids |-> SemCloseResult(SemWaiters(rid), y)]
      BY <2>3 DEF SemClose, SemWokenByClose, SemWaiters
    <3>2. x = rid
      BY <3>1, <1>1, <2>0 DEF SemWaiters
    <3> QED
      BY <3>1, <3>2, <2>0, <1>1 DEF SemCloseResult
  <2> QED
    BY <2>1, <2>2, <2>3
<1>2. KernelInv /\ SemInv /\ [SemaphoresNext]_semaphoresVars => [Told]_semaphoresVars
  BY <1>1
<1> QED
  BY <1>2, SemaphoresInvariant, PTL DEF SemaphoresSpec, WaitResultTellsClose

-----------------------------------------------------------------------------
(* The refinement                                                          *)

\* The state of the abstract semaphores, as the instance Semaphore maps it.
Permits == [rid \in SemRids |-> Max({sem[rid].value, 0})]
Queue == [rid \in SemRids |-> sem[rid].waiting]

\* The permits are what is left of the value above zero.
LEMMA PermitsAbove ==
    ASSUME SemInv, NEW rid \in SemRids
    PROVE  Permits[rid] = IF sem[rid].value > 0 THEN sem[rid].value ELSE 0
BY SemFacts, MinMaxZero DEF Permits

\* A step that changes a semaphore, seen from above.
LEMMA BecomesAbove ==
    ASSUME NEW rid \in SemRids, NEW v, NEW q, SemBecomes(rid, [value |-> v, waiting |-> q])
    PROVE  /\ Permits' = [Permits EXCEPT ![rid] = Max({v, 0})]
           /\ Queue' = [Queue EXCEPT ![rid] = q]
<1>1. /\ sem'[rid].value = v /\ sem'[rid].waiting = q
      /\ \A x \in SemRids \ {rid} : sem'[x] = sem[x]
  BY DEF SemBecomes
<1> QED
  BY <1>1 DEF Permits, Queue

\* sem_open opens with the permits above zero that it is asked for.
LEMMA OpenRefines ==
    ASSUME KernelInv, SemInv, NEW v \in SemValues, SemOpen(v)
    PROVE  Semaphore!Next
<1> DEFINE rid == next_sem_rid
           n == Max({v, 0})
           r == [value |-> v, waiting |-> <<>>]
<1>1. /\ rid \in SemRids /\ rid \notin sem_rids /\ sem_rids' = sem_rids \cup {rid}
      /\ sem' = [sem EXCEPT ![rid] = r]
  BY SemaphoresAssumption DEF SemOpen, SemInv, SemTypes, SemRidsFresh, SemRids
<1> HIDE DEF rid
<1>2. sem[rid].waiting = <<>> /\ sem \in [SemRids -> SemRecords] /\ v \in Int
  BY <1>1, SemFacts, NoSemaphoreType, SemaphoresAssumption DEF SemSound
<1>3. r \in SemRecords
  BY <1>2 DEF SemRecords
<1>4. SemBecomes(rid, r)
  <2> HIDE DEF r
  <2> QED
    BY <1>1, <1>2, <1>3 DEF SemBecomes
<1>5. Permits' = [Permits EXCEPT ![rid] = n] /\ Queue' = [Queue EXCEPT ![rid] = <<>>]
  BY <1>1, <1>4, BecomesAbove
<1>5a. Queue' = Queue
  BY <1>2, <1>5 DEF Queue
<1>6. Semaphore!Open(rid, n)
  BY <1>1, <1>5, <1>5a DEF Semaphore!Open, Permits, Queue
<1> QED
  BY <1>1, <1>6 DEF Semaphore!Next

\* sem_wait that passes takes a permit.
LEMMA PassRefines ==
    ASSUME SemInv, NEW rid \in SemRids, SemWaitPasses(rid)
    PROVE  Semaphore!Take(rid)
<1> DEFINE v == sem[rid].value - 1
<1>1. /\ rid \in sem_rids /\ sem_rids' = sem_rids /\ sem[rid].value > 0
      /\ sem' = [sem EXCEPT ![rid].value = v]
  BY DEF SemWaitPasses
<1>2. v \in Int /\ Max({v, 0}) = v /\ Permits[rid] = sem[rid].value
  <2>1. v \in Int /\ v >= 0
    BY <1>1, SemFacts
  <2>2. Permits[rid] = sem[rid].value
    BY <1>1, SemFacts, PermitsAbove
  <2> HIDE DEF v
  <2> QED
    BY <2>1, <2>2, MinMaxZero
<1>3. v = Permits[rid] - 1 /\ sem[rid].waiting = Queue[rid]
  BY <1>2 DEF Queue
<1> HIDE DEF v
<1>4. Permits' = [Permits EXCEPT ![rid] = Max({v, 0})] /\ Queue' = [Queue EXCEPT ![rid] = Queue[rid]]
  BY <1>1, <1>2, <1>3, SemValueSet, BecomesAbove
<1>5. Permits' = [Permits EXCEPT ![rid] = Permits[rid] - 1] /\ Queue' = Queue
  BY <1>2, <1>3, <1>4 DEF Queue
<1> QED
  BY <1>1, <1>2, <1>5 DEF Semaphore!Take, Permits, Queue

\* sem_wait that blocks joins the queue.
LEMMA BlockRefines ==
    ASSUME SemInv, NEW rid \in SemRids, SemWaitBlocks(rid),
           NEW u \in Pids, u = me
    PROVE  Semaphore!Join(rid, u)
<1> DEFINE v == sem[rid].value - 1
           q == Append(sem[rid].waiting, u)
<1>1. /\ rid \in sem_rids /\ sem_rids' = sem_rids /\ sem[rid].value <= 0
      /\ sem' = [sem EXCEPT ![rid].value = v, ![rid].waiting = q]
  BY DEF SemWaitBlocks, Enqueue
<1>2. v \in Int /\ Max({v, 0}) = 0 /\ Permits[rid] = 0
  <2>1. v \in Int /\ v <= 0
    BY <1>1, SemFacts
  <2>2. Permits[rid] = 0
    BY <1>1, SemFacts, PermitsAbove
  <2> HIDE DEF v
  <2> QED
    BY <2>1, <2>2, MinMaxZero
<1>2a. q \in Seq(Pids)
  BY SemFacts, SeqAppend
<1>3. q = Append(Queue[rid], u)
  BY DEF Queue
<1> HIDE DEF v, q
<1>4. Permits' = [Permits EXCEPT ![rid] = Permits[rid]] /\ Queue' = [Queue EXCEPT ![rid] = q]
  BY <1>1, <1>2, <1>2a, SemBothSet, BecomesAbove
<1>5. Permits' = Permits
  BY <1>4 DEF Permits
<1> QED
  BY <1>1, <1>2, <1>3, <1>4, <1>5 DEF Semaphore!Join, Permits, Queue

\* sem_post that counts releases a permit nobody waits for.
LEMMA CountRefines ==
    ASSUME SemInv, NEW rid \in SemRids, SemPostCounts(rid)
    PROVE  Semaphore!Release(rid)
<1> DEFINE v == sem[rid].value + 1
<1>1. /\ rid \in sem_rids /\ sem_rids' = sem_rids /\ sem[rid].value >= 0
      /\ sem' = [sem EXCEPT ![rid].value = v]
  BY DEF SemPostCounts
<1>2. v \in Int /\ Max({v, 0}) = v /\ Permits[rid] = sem[rid].value
  <2>1. v \in Int /\ v >= 0
    BY <1>1, SemFacts
  <2>2. Permits[rid] = sem[rid].value
    BY <1>1, SemFacts, PermitsAbove
  <2> HIDE DEF v
  <2> QED
    BY <2>1, <2>2, MinMaxZero
<1>3. Queue[rid] = <<>>
  BY <1>1, SemFacts DEF Queue, SemSound, LeftOf
<1>4. v = Permits[rid] + 1 /\ sem[rid].waiting = Queue[rid]
  BY <1>2 DEF Queue
<1> HIDE DEF v
<1>5. Permits' = [Permits EXCEPT ![rid] = Max({v, 0})] /\ Queue' = [Queue EXCEPT ![rid] = Queue[rid]]
  BY <1>1, <1>2, <1>4, SemValueSet, BecomesAbove
<1>6. Permits' = [Permits EXCEPT ![rid] = Permits[rid] + 1] /\ Queue' = Queue
  BY <1>2, <1>4, <1>5 DEF Queue
<1> QED
  BY <1>1, <1>3, <1>6 DEF Semaphore!Release, Permits, Queue

\* sem_post that wakes grants the permit to the first of the queue.
LEMMA WakeRefines ==
    ASSUME SemInv, NEW rid \in SemRids, SemPostWakes(rid)
    PROVE  Semaphore!Grant(rid)
<1> DEFINE v == sem[rid].value + 1
           q == Tail(sem[rid].waiting)
<1>1. /\ rid \in sem_rids /\ sem_rids' = sem_rids /\ sem[rid].value < 0
      /\ sem[rid].waiting # <<>>
      /\ sem' = [sem EXCEPT ![rid].value = v, ![rid].waiting = q]
  BY DEF SemPostWakes, Dequeue
<1>2. v \in Int /\ Max({v, 0}) = 0 /\ Permits[rid] = 0
  <2>1. v \in Int /\ v <= 0
    BY <1>1, SemFacts
  <2>2. Permits[rid] = 0
    BY <1>1, SemFacts, PermitsAbove
  <2> HIDE DEF v
  <2> QED
    BY <2>1, <2>2, MinMaxZero
<1>2a. q \in Seq(Pids)
  BY <1>1, SemFacts, HeadTailProperties
<1>3. q = Tail(Queue[rid]) /\ Queue[rid] # <<>>
  BY <1>1 DEF Queue
<1> HIDE DEF v, q
<1>4. Permits' = [Permits EXCEPT ![rid] = Permits[rid]] /\ Queue' = [Queue EXCEPT ![rid] = q]
  BY <1>1, <1>2, <1>2a, SemBothSet, BecomesAbove
<1>5. Permits' = Permits
  BY <1>4 DEF Permits
<1> QED
  BY <1>1, <1>3, <1>4, <1>5 DEF Semaphore!Grant, Permits, Queue

\* sem_close closes.
LEMMA CloseRefines ==
    ASSUME SemInv, NEW rid \in SemRids, SemClose(rid)
    PROVE  Semaphore!Close(rid)
<1>1. /\ rid \in sem_rids /\ sem_rids' = sem_rids \ {rid} /\ sem' = [sem EXCEPT ![rid] = NoSemaphore]
  BY DEF SemClose
<1>2. SemBecomes(rid, NoSemaphore)
  BY <1>1, SemFacts, NoSemaphoreType DEF SemBecomes
<1> DEFINE v == 0
           q == <<>>
<1>3. SemBecomes(rid, [value |-> v, waiting |-> q])
  BY <1>2 DEF NoSemaphore
<1>3a. Max({v, 0}) = v
  BY MinMaxZero
<1> HIDE DEF v, q
<1>4. Permits' = [Permits EXCEPT ![rid] = v] /\ Queue' = [Queue EXCEPT ![rid] = q]
  BY <1>3, <1>3a, BecomesAbove
<1> QED
  BY <1>1, <1>4 DEF v, q, Semaphore!Close, Permits, Queue

\* Every call on a semaphore is a step of the abstract ones or, refused or the system's
\* last, none.
LEMMA SemCallRefines ==
    ASSUME KernelInv, SemInv, SemCall
    PROVE  [Semaphore!Next]_(Semaphore!vars)
<1>1. ASSUME NEW v \in SemValues, SemOpen(v) PROVE Semaphore!Next
  BY <1>1, OpenRefines
<1>2. ASSUME NEW rid \in SemRids,
             SemWaitPasses(rid) \/ SemWaitBlocks(rid) \/ SemPostCounts(rid)
               \/ SemPostWakes(rid) \/ SemClose(rid)
      PROVE  Semaphore!Next
  <2>1. CASE SemWaitPasses(rid)
    BY <2>1, PassRefines DEF Semaphore!Next
  <2>2. CASE SemWaitBlocks(rid)
    <3>1. PICK u \in Pids : u = me
      BY <2>2, InvTypes DEF SemWaitBlocks, InUserCode, me
    <3>2. Semaphore!Join(rid, u)
      BY <2>2, <3>1, BlockRefines
    <3> QED
      BY <3>2 DEF Semaphore!Next
  <2>3. CASE SemPostCounts(rid)
    BY <2>3, CountRefines DEF Semaphore!Next
  <2>4. CASE SemPostWakes(rid)
    BY <2>4, WakeRefines DEF Semaphore!Next
  <2>5. CASE SemClose(rid)
    BY <2>5, CloseRefines DEF Semaphore!Next
  <2> QED
    BY <1>2, <2>1, <2>2, <2>3, <2>4, <2>5
<1>3. ASSUME UNCHANGED semVars PROVE UNCHANGED Semaphore!vars
  BY <1>3 DEF semVars, Semaphore!vars
<1> QED
  BY <1>1, <1>2, <1>3
     DEF SemCall, SemOpenFails, SemUnknown, SemWait, SemPost, SemWaitWithoutPtr,
         SemPostWithoutWaiter

\* At the start no abstract semaphore is open.
LEMMA SemInitRefines ==
    ASSUME SemInit
    PROVE  Semaphore!Init
<1>1. Max({0, 0}) = 0
  BY MinMaxZero
<1>2. /\ sem_rids = {} /\ Permits = [rid \in SemRids |-> 0]
      /\ Queue = [rid \in SemRids |-> <<>>]
  BY <1>1 DEF SemInit, Permits, Queue, NoSemaphore
<1> QED
  BY <1>2 DEF Semaphore!Init, Permits, Queue

\* The semaphores on the kernel implement the abstract counting semaphores.
THEOREM SemaphoresRefine == SemaphoresSpec => ImplementsCountingSemaphore
<1>1. SemaphoresInit => Semaphore!Init
  BY SemInitRefines DEF SemaphoresInit
<1>2. ASSUME KernelInv, SemInv, [SemaphoresNext]_semaphoresVars
      PROVE  [Semaphore!Next]_(Semaphore!vars)
  <2>1. CASE SemCall
    BY <1>2, <2>1, SemCallRefines
  <2>2. CASE UNCHANGED semVars
    BY <2>2 DEF semVars, Semaphore!vars
  <2> QED
    BY <1>2, <2>1, <2>2 DEF SemaphoresNext, semaphoresVars
<1> QED
  BY <1>1, <1>2, SemaphoresInvariant, PTL
     DEF SemaphoresSpec, ImplementsCountingSemaphore, Semaphore!Spec

=============================================================================
