-------------------------- MODULE DisastrOS_proofs --------------------------
(***************************************************************************)
(* The safety of the whole system, for every number of processes and of    *)
(* resources of both kinds.                                                *)
(*                                                                         *)
(* The inductive invariant is that of the kernel, of the semaphores and of *)
(* the queues side by side.  A call on a resource of one kind keeps its    *)
(* own part, and the processes blocked on the other kind where they are;   *)
(* a step of the kernel alone leaves both kinds where they are.            *)
(*                                                                         *)
(* The second half is about the two test programs on that system, for      *)
(* every number of workers and every capacity of the queue.                *)
(***************************************************************************)
EXTENDS Programs, Semaphores_proofs, MessageQueues_proofs

Inv == KernelInv /\ SemInv /\ MqInv

\* At the start nobody waits for anything.
LEMMA InitEstablishesAll ==
    ASSUME Init
    PROVE  Inv
BY InitEstablishesInv, SemInitEstablishesInv, MqInitEstablishesInv DEF Init, Inv

\* A call keeps the part of its own kind, and leaves the other kind alone.
LEMMA NextKeepsAll ==
    ASSUME Inv, [Next]_vars
    PROVE  Inv'
<1>1. CASE SemCall /\ UNCHANGED mqVars
  <2>1. KernelInv' /\ SemInv' /\ KeepsCalls(sched, sched', MqCalls)
    BY <1>1, SemCallKeeps DEF Inv, SemKept
  <2> QED
    BY <1>1, <2>1, OthersKeepMqInv DEF Inv
<1>2. CASE MqCall /\ UNCHANGED semVars
  <2>1. KernelInv' /\ MqInv' /\ KeepsCalls(sched, sched', SemCalls)
    BY <1>2, MqCallKeeps DEF Inv, MqKept
  <2> QED
    BY <1>2, <2>1, OthersKeepSemInv DEF Inv
<1>3. CASE [KernelNext]_kernelVars /\ UNCHANGED <<semVars, mqVars>>
  <2>1. /\ KernelInv'
        /\ KeepsCalls(sched, sched', SemCalls) /\ KeepsCalls(sched, sched', MqCalls)
    BY <1>3, KernelStepKeeps, CallKinds, BlockedKeepCalls DEF Inv
  <2> QED
    BY <1>3, <2>1, OthersKeepSemInv, OthersKeepMqInv DEF Inv
<1> QED
  BY <1>1, <1>2, <1>3 DEF Next, vars

\* The invariants of the three parts hold in every behaviour of the whole.
THEOREM WholeInvariant == Spec => []Inv
<1> QED
  BY InitEstablishesAll, NextKeepsAll, PTL DEF Spec

-----------------------------------------------------------------------------
(* What holds a process that waits                                         *)

\* Who is on the lists of a semaphore or of a queue is blocked in the call that names it.
LEMMA HoldersAre ==
    ASSUME Inv, NEW p \in Pids
    PROVE  /\ \A id \in SemRids :
                p \in SemWaiters(id) <=> InCall(sched, p, {"sem_wait"}) /\ sched.call[p].arg = id
           /\ \A id \in MqRids :
                /\ p \in ToSet(mq[id].wait_send)
                     <=> InCall(sched, p, {"mq_send"}) /\ sched.call[p].arg = id
                /\ p \in ToSet(mq[id].wait_recv)
                     <=> InCall(sched, p, {"mq_receive"}) /\ sched.call[p].arg = id
           /\ InCall(sched, p, {"sem_wait"}) => sched.call[p].arg \in SemRids
           /\ InCall(sched, p, MqCalls) => sched.call[p].arg \in MqRids
<1>1. \A id \in SemRids : SemWaiters(id) = BlockedInSem(sched, id)
  BY DEF Inv, SemInv, SemSound
<1>2. \A id \in MqRids : /\ ToSet(mq[id].wait_send) = BlockedInMq(sched, "mq_send", id)
                          /\ ToSet(mq[id].wait_recv) = BlockedInMq(sched, "mq_receive", id)
  BY DEF Inv, MqInv, MqSound
<1>3. /\ InCall(sched, p, SemCalls) => sched.call[p].arg \in SemRids
      /\ InCall(sched, p, MqCalls) => sched.call[p].arg \in MqRids
  BY DEF Inv, SemInv, SemWaitsNameRids, MqInv, MqWaitsNameRids
<1> QED
  BY <1>1, <1>2, <1>3 DEF BlockedInSem, BlockedInMq, SemCalls

\* A process has a timer exactly if it is in a sleep, and then one.
LEMMA TimerHolds ==
    ASSUME Inv, NEW p \in Pids
    PROVE  /\ InCall(sched, p, {"sleep"}) <=>
                \E i \in DOMAIN sched.timers : sched.timers[i].pid = p
           /\ \A i, j \in DOMAIN sched.timers :
                sched.timers[i].pid = p /\ sched.timers[j].pid = p => i = j
BY DEF Inv, KernelInv, Settled, Orderly, Asleep, InCall

\* A process that waits, but not for a child, is held by what its call names, and by
\* nothing else.
LEMMA HeldByOne ==
    ASSUME Inv, NEW p \in Pids
    PROVE  /\ sched.status[p] = "Waiting" /\ ~BlockedInWait(p) => \E x : HeldBy(p) = {x}
           /\ sched.status[p] # "Waiting" \/ BlockedInWait(p) => HeldBy(p) = {}
<1> DEFINE T == {<<"timer", i>> : i \in {i \in DOMAIN sched.timers : sched.timers[i].pid = p}}
           S == {<<"sem", id>> : id \in {id \in SemRids : p \in SemWaiters(id)}}
           O == {<<"mq_send", id>> : id \in {id \in MqRids : p \in ToSet(mq[id].wait_send)}}
           I == {<<"mq_receive", id>> : id \in {id \in MqRids : p \in ToSet(mq[id].wait_recv)}}
           arg == sched.call[p].arg
<1>1. HeldBy(p) = ((T \cup S) \cup O) \cup I
  BY DEF HeldBy
<1>2. /\ InCall(sched, p, {"sleep"}) => \E i : T = {<<"timer", i>>}
      /\ ~InCall(sched, p, {"sleep"}) => T = {}
  <2>1. CASE InCall(sched, p, {"sleep"})
    <3>1. PICK i \in DOMAIN sched.timers : sched.timers[i].pid = p
      BY <2>1, TimerHolds
    <3>2. {j \in DOMAIN sched.timers : sched.timers[j].pid = p} = {i}
      BY <3>1, TimerHolds
    <3>3. T = {<<"timer", j>> : j \in {i}}
      BY <3>2
    <3> QED
      BY <2>1, <3>3
  <2>2. CASE ~InCall(sched, p, {"sleep"})
    BY <2>2, TimerHolds
  <2> QED
    BY <2>1, <2>2
<1>3. /\ InCall(sched, p, {"sem_wait"}) => S = {<<"sem", arg>>}
      /\ ~InCall(sched, p, {"sem_wait"}) => S = {}
  BY HoldersAre
<1>4. /\ InCall(sched, p, {"mq_send"}) => O = {<<"mq_send", arg>>}
      /\ ~InCall(sched, p, {"mq_send"}) => O = {}
  BY HoldersAre DEF InCall, MqCalls
<1>5. /\ InCall(sched, p, {"mq_receive"}) => I = {<<"mq_receive", arg>>}
      /\ ~InCall(sched, p, {"mq_receive"}) => I = {}
  BY HoldersAre DEF InCall, MqCalls
<1> HIDE DEF T, S, O, I
<1>6. sched.status[p] = "Waiting" =>
        sched.call[p].num \in {"sleep", "wait", "sem_wait", "mq_send", "mq_receive"}
  <2>1. sched.call[p].num \in CallNums
    BY InvTypes DEF Inv, Calls
  <2>2. sched.status[p] = "Waiting" => sched.call[p].num # "none"
    BY DEF Inv, KernelInv, Settled, Orderly, Asleep
  <2> QED
    BY <2>1, <2>2 DEF CallNums
<1>7. CASE sched.status[p] = "Waiting" /\ sched.call[p].num # "wait"
  <2>1. CASE sched.call[p].num = "sleep"
    BY <2>1, <1>1, <1>2, <1>3, <1>4, <1>5, <1>7 DEF InCall, BlockedInWait
  <2>2. CASE sched.call[p].num = "sem_wait"
    BY <2>2, <1>1, <1>2, <1>3, <1>4, <1>5, <1>7 DEF InCall, BlockedInWait
  <2>3. CASE sched.call[p].num = "mq_send"
    BY <2>3, <1>1, <1>2, <1>3, <1>4, <1>5, <1>7 DEF InCall, BlockedInWait
  <2>4. CASE sched.call[p].num = "mq_receive"
    BY <2>4, <1>1, <1>2, <1>3, <1>4, <1>5, <1>7 DEF InCall, BlockedInWait
  <2> QED
    BY <1>6, <1>7, <2>1, <2>2, <2>3, <2>4
<1>8. CASE sched.status[p] # "Waiting" \/ sched.call[p].num = "wait"
  BY <1>1, <1>2, <1>3, <1>4, <1>5, <1>8 DEF InCall, BlockedInWait
<1> QED
  BY <1>7, <1>8

\* Whoever waits is held by one structure, the others by none.
THEOREM WaitsHaveOneReason == Spec => []OneReasonToWait
<1>1. Inv => OneReasonToWait
  <2> SUFFICES ASSUME Inv, NEW p \in Pids
               PROVE  Cardinality(HeldBy(p)) =
                        IF sched.status[p] = "Waiting" /\ ~ BlockedInWait(p) THEN 1 ELSE 0
    BY DEF OneReasonToWait
  <2>1. CASE sched.status[p] = "Waiting" /\ ~ BlockedInWait(p)
    BY <2>1, HeldByOne, FS_Singleton
  <2>2. CASE ~ (sched.status[p] = "Waiting" /\ ~ BlockedInWait(p))
    BY <2>2, HeldByOne, FS_EmptySet
  <2> QED
    BY <2>1, <2>2
<1> QED
  BY <1>1, WholeInvariant, PTL

-----------------------------------------------------------------------------
(* The blocks of the common pool                                           *)

\* Those blocked on the resources of one kind.
BlockedOn(nums) == {p \in Pids : InCall(sched, p, nums)}

\* There are as many links to children as there are processes with a parent.
LEMMA ChildLinksCount ==
    ASSUME Inv
    PROVE  Cardinality(ChildLinks) = Cardinality(HaveParent)
<1>1. /\ children \in [Pids -> Seq(Pids)] /\ IsFiniteSet(Pids)
      /\ parent \in [Pids -> Pids \cup {NoPid}] /\ NoPid \notin Pids
  BY InvTypes DEF Inv
<1>2. /\ \A p \in Pids : IsInjective(children[p])
      /\ \A p, q \in Pids : q \in ToSet(children[p]) <=> parent[q] = p
  BY DEF Inv, KernelInv, FamilyTree
<1>3. \A p, q \in Pids : p # q => ToSet(children[p]) \cap ToSet(children[q]) = {}
  <2>1. \A p \in Pids : ToSet(children[p]) \subseteq Pids
    BY <1>1, ToSetType
  <2> QED
    BY <2>1, <1>2
<1>4. HaveParent = {q \in Pids : \E p \in Pids : q \in ToSet(children[p])}
  BY <1>1, <1>2 DEF HaveParent
<1>5. ChildLinks = UNION {{p} \X DOMAIN children[p] : p \in Pids}
  BY DEF ChildLinks
<1>6. /\ IsFiniteSet(Pids) /\ children \in [Pids -> Seq(Pids)]
      /\ \A p \in Pids : IsInjective(children[p])
  BY <1>1, <1>2
<1> QED
  BY <1>3, <1>4, <1>5, <1>6, PlacesCount

\* There are as many places on the lists of the semaphores as processes blocked on one.
LEMMA SemLinksCount ==
    ASSUME Inv
    PROVE  Cardinality(SemLinks) = Cardinality(BlockedOn(SemCalls))
<1> DEFINE f == [id \in SemRids |-> sem[id].waiting]
<1>1. \A id \in SemRids : f[id] \in Seq(Pids) /\ IsInjective(f[id]) /\ ToSet(f[id]) = SemWaiters(id)
  BY SemFacts DEF Inv, SemSound, SemWaiters
<1>2. SemLinks = UNION {{id} \X DOMAIN f[id] : id \in SemRids}
  BY DEF SemLinks
<1>3. f \in [SemRids -> Seq(Pids)] /\ IsFiniteSet(Pids)
  BY <1>1, InvTypes DEF Inv
<1> HIDE DEF f
<1>4. \A p \in Pids : \A id \in SemRids :
        p \in ToSet(f[id]) <=> InCall(sched, p, SemCalls) /\ sched.call[p].arg = id
  BY <1>1, HoldersAre DEF SemCalls
<1>5. \A r, o \in SemRids : r # o => ToSet(f[r]) \cap ToSet(f[o]) = {}
  <2>1. \A id \in SemRids : ToSet(f[id]) \subseteq Pids
    BY <1>1, ToSetType
  <2> QED
    BY <2>1, <1>4
<1>6. BlockedOn(SemCalls) = {p \in Pids : \E id \in SemRids : p \in ToSet(f[id])}
  BY <1>4, HoldersAre DEF BlockedOn, SemCalls
<1> QED
  BY <1>1, <1>2, <1>3, <1>5, <1>6, PlacesCount

\* There are as many places on the lists of the queues as processes blocked on one.
LEMMA MqLinksCount ==
    ASSUME Inv
    PROVE  Cardinality(MqLinks) = Cardinality(BlockedOn(MqCalls))
<1> DEFINE f == [id \in MqRids |-> Waiters(mq[id])]
<1>1. \A id \in MqRids : /\ f[id] \in Seq(Pids) /\ IsInjective(f[id])
                          /\ ToSet(f[id]) = ToSet(mq[id].wait_send) \cup ToSet(mq[id].wait_recv)
  <2> SUFFICES ASSUME NEW id \in MqRids
               PROVE  /\ f[id] \in Seq(Pids) /\ IsInjective(f[id])
                      /\ ToSet(f[id]) = ToSet(mq[id].wait_send) \cup ToSet(mq[id].wait_recv)
    OBVIOUS
  <2>1. f[id] = Waiters(mq[id]) /\ Waiters(mq[id]) = MqWokenByClose(mq[id])
    BY DEF Waiters, MqWokenByClose
  <2> HIDE DEF f
  <2>2. f[id] \in Seq(Pids) /\ IsInjective(f[id])
    BY <2>1, BothListsWake DEF Inv
  <2>3. ToSet(f[id]) = ToSet(mq[id].wait_send) \cup ToSet(mq[id].wait_recv)
    BY <2>1, MqFacts, WaitersOf DEF Inv
  <2> QED
    BY <2>2, <2>3
<1>2. MqLinks = UNION {{id} \X DOMAIN f[id] : id \in MqRids}
  BY DEF MqLinks
<1>3. f \in [MqRids -> Seq(Pids)] /\ IsFiniteSet(Pids)
  BY <1>1, InvTypes DEF Inv
<1> HIDE DEF f
<1>4. \A p \in Pids : \A id \in MqRids :
        p \in ToSet(f[id]) <=> InCall(sched, p, MqCalls) /\ sched.call[p].arg = id
  <2> SUFFICES ASSUME NEW p \in Pids, NEW id \in MqRids
               PROVE  p \in ToSet(f[id]) <=> InCall(sched, p, MqCalls) /\ sched.call[p].arg = id
    OBVIOUS
  <2>1. InCall(sched, p, MqCalls) <=> InCall(sched, p, {"mq_send"}) \/ InCall(sched, p, {"mq_receive"})
    BY DEF MqCalls, InCall
  <2> QED
    BY <1>1, <2>1, HoldersAre
<1>5. \A r, o \in MqRids : r # o => ToSet(f[r]) \cap ToSet(f[o]) = {}
  <2>1. \A id \in MqRids : ToSet(f[id]) \subseteq Pids
    BY <1>1, ToSetType
  <2> QED
    BY <2>1, <1>4
<1>6. BlockedOn(MqCalls) = {p \in Pids : \E id \in MqRids : p \in ToSet(f[id])}
  BY <1>4, HoldersAre DEF BlockedOn
<1> QED
  BY <1>1, <1>2, <1>3, <1>5, <1>6, PlacesCount

\* Whoever is blocked on a resource is blocked on one kind of them.
LEMMA BlockedOnOneKind ==
    ASSUME Inv
    PROVE  Cardinality(Linked) = Cardinality(BlockedOn(SemCalls)) + Cardinality(BlockedOn(MqCalls))
<1> DEFINE S == BlockedOn(SemCalls)
           M == BlockedOn(MqCalls)
<1>1. Linked = S \cup M /\ S \cap M = {}
  BY DEF Linked, BlockedOn, InCall, BlockedOnResource, ResourceCalls, SemCalls, MqCalls
<1>2. IsFiniteSet(S) /\ IsFiniteSet(M)
  BY InvTypes, FS_Subset DEF Inv, BlockedOn
<1> HIDE DEF S, M
<1>3. /\ Cardinality(S \cup M) = Cardinality(S) + Cardinality(M) - Cardinality(S \cap M)
      /\ Cardinality(S) \in Nat /\ Cardinality(M) \in Nat
  BY <1>2, FS_Union, FS_CardinalityType
<1>4. Cardinality(S \cap M) = 0
  BY <1>1, FS_EmptySet
<1>5. Cardinality(Linked) = Cardinality(S) + Cardinality(M)
  BY <1>1, <1>3, <1>4
<1> QED
  BY <1>5 DEF S, M

\* The blocks in use are the links of the children and of the waiters of both kinds.
THEOREM PtrsAreAccounted == Spec => []PtrsAccounted
<1>1. ASSUME Inv PROVE PtrsAccounted
  <2> DEFINE c == Cardinality(HaveParent)
             s == Cardinality(BlockedOn(SemCalls))
             m == Cardinality(BlockedOn(MqCalls))
  <2>1. ptrs = c + (s + m)
    BY <1>1, BlockedOnOneKind DEF Inv, KernelInv, LinksCounted
  <2>2. c \in Nat /\ s \in Nat /\ m \in Nat
    <3>1. IsFiniteSet(BlockedOn(SemCalls)) /\ IsFiniteSet(BlockedOn(MqCalls))
      BY <1>1, InvTypes, FS_Subset DEF Inv, BlockedOn
    <3> QED
      BY <1>1, <3>1, LinksFinite, FS_CardinalityType DEF Inv
  <2>3. Cardinality(ChildLinks) = c /\ Cardinality(SemLinks) = s /\ Cardinality(MqLinks) = m
    BY <1>1, ChildLinksCount, SemLinksCount, MqLinksCount
  <2> HIDE DEF c, s, m
  <2>4. ptrs = c + s + m
    BY <2>1, <2>2
  <2> QED
    BY <2>3, <2>4 DEF PtrsAccounted
<1> QED
  BY <1>1, WholeInvariant, PTL

-----------------------------------------------------------------------------
(* The refinements                                                         *)

\* Side by side with the queues the semaphores still implement the abstract ones.
THEOREM WholeRefinesSemaphores == Spec => ImplementsCountingSemaphore
<1>1. Init => Semaphore!Init
  BY SemInitRefines DEF Init
<1>2. ASSUME Inv, [Next]_vars PROVE [Semaphore!Next]_(Semaphore!vars)
  <2>1. CASE SemCall
    BY <1>2, <2>1, SemCallRefines DEF Inv
  <2>2. CASE UNCHANGED semVars
    BY <2>2 DEF semVars, Semaphore!vars
  <2> QED
    BY <1>2, <2>1, <2>2 DEF Next, vars
<1> QED
  BY <1>1, <1>2, WholeInvariant, PTL
     DEF Spec, ImplementsCountingSemaphore, Semaphore!Spec

\* Side by side with the semaphores the queues still implement the abstract channels.
THEOREM WholeRefinesQueues == Spec => ImplementsMessageChannel
<1>1. Init => Channel!Init
  BY MqInitRefines DEF Init
<1>2. ASSUME Inv, [Next]_vars PROVE [Channel!Next]_(Channel!vars)
  <2>1. CASE MqCall
    BY <1>2, <2>1, MqCallRefines DEF Inv
  <2>2. CASE UNCHANGED mqVars
    BY <2>2 DEF mqVars, Channel!vars, Content
  <2> QED
    BY <1>2, <2>1, <2>2 DEF Next, vars
<1> QED
  BY <1>1, <1>2, WholeInvariant, PTL
     DEF Spec, ImplementsMessageChannel, Channel!Spec

-----------------------------------------------------------------------------
(* The test programs                                                       *)

\* The pids of the workers; one that was spawned and is not gone is alive.
WorkerPids == 1 .. MaxPid
IsAlive(p) == parent[p] # NoPid /\ p \notin zombies

\* How many calls a worker makes.
CallsOf(p) == IF program = "sem" /\ p \in FirstKind THEN 2 ELSE 3

\* The places of init's calls behind the spawns.
WaitAt == 2 * Workers + 3
CountAt == 2 * Workers + 4
CloseAt == 2 * Workers + 5

\* Init is at a call until the system has stopped; a worker is, until it is dead.
AtTheirCalls ==
    /\ pc \in [Pids -> Nat]
    /\ pc[InitPid] >= 1 /\ pc[InitPid] <= CloseAt + 2 /\ (halt = "no" => pc[InitPid] <= CloseAt + 1)
    /\ \A p \in WorkerPids : /\ pc[p] >= 1
                             /\ IsAlive(p) => pc[p] <= CallsOf(p)
                             /\ p >= last_pid => pc[p] = 1

\* The spawns that init at k has before it.
SpawnsLeft(k) == IF k <= 1 THEN 2 * Workers
                 ELSE IF k <= Workers + 2 THEN 2 * Workers + 2 - k
                 ELSE IF k <= WaitAt THEN WaitAt - k ELSE 0

\* Init has the children it will wait for, but for those it has yet to spawn; at the count
\* it may just have reaped one.
ChildrenSuffice ==
    /\ alive \in Nat /\ (pc[InitPid] = CountAt => alive > 0)
    /\ alive <= Len(children[InitPid]) + SpawnsLeft(pc[InitPid])
                + (IF pc[InitPid] = CountAt THEN 1 ELSE 0)

IsOpenAt(k) == k >= 2 /\ k <= CloseAt

\* The one resource there is, from the open to the close.
OneResource ==
    /\ program \in {"sem", "mq"}
    /\ sem_rids = IF program = "sem" /\ IsOpenAt(pc[InitPid]) THEN {rid} ELSE {}
    /\ mq_rids = IF program = "mq" /\ IsOpenAt(pc[InitPid]) THEN {rid} ELSE {}
    /\ pc[InitPid] >= 2 => rid \in (IF program = "sem" THEN SemRids ELSE MqRids)
    /\ pc[InitPid] <= 2 => last_pid = 1

\* The results: init never fails, and its last one before a count is a pid.
ResultsFit ==
    /\ ret[InitPid] >= 0
    /\ pc[InitPid] >= 3 /\ pc[InitPid] <= CloseAt => ret[InitPid] > 0
    /\ pc[InitPid] <= CloseAt => \A p \in Pids : ret[p] >= 0

InitIsFree == ~BlockedOnResource(sched, InitPid)
\* p has made its first call and is not blocked on it, nor did it fail.
Through(p) == pc[p] > 1 /\ ret[p] = 0 /\ ~BlockedOnResource(sched, p)

PermitsLeft == IF rid \in sem_rids /\ sem[rid].value > 0 THEN sem[rid].value ELSE 0

\* Every waiter that went through, and every permit there is, took a post.
PostsSuffice ==
    program = "sem" =>
        Cardinality({p \in FirstKind : Through(p)}) + PermitsLeft
            <= Cardinality({p \in SecondKind : pc[p] >= 3})

\* m is the message of a producer that has sent it.
IsSent(m) == m \in SecondKind /\ pc[m] > 1

\* A message that was sent is in the ring once, or in one inbox, or lost; no receiver sends.
MessagesApart ==
    program = "mq" =>
        /\ \A p \in FirstKind :
             /\ ~InCall(sched, p, {"mq_send"})
             /\ Through(p) => inbox[p] # NoMessage
             /\ inbox[p] # NoMessage => /\ IsSent(inbox[p])
                                        /\ \A q \in FirstKind \ {p} : inbox[q] # inbox[p]
        /\ rid \in mq_rids =>
             /\ IsInjective(Content(mq[rid]))
             /\ \A m \in ToSet(Content(mq[rid])) :
                   IsSent(m) /\ \A p \in FirstKind : inbox[p] # m

\* The invariant of the programs.
ProgramsInv ==
    /\ Inv
    /\ AtTheirCalls
    /\ ChildrenSuffice
    /\ OneResource
    /\ ResultsFit
    /\ InitIsFree
    /\ PostsSuffice
    /\ MessagesApart

-----------------------------------------------------------------------------
(* Who makes which call                                                    *)

\* Init is process 0, the workers are the others, of two kinds.
LEMMA WorkersAre ==
    /\ Workers \in Nat /\ Workers >= 1 /\ MaxPid = 2 * Workers
    /\ Pids = {InitPid} \cup WorkerPids /\ InitPid = 0 /\ InitPid \notin WorkerPids
    /\ WorkerPids = FirstKind \cup SecondKind /\ FirstKind \cap SecondKind = {}
    /\ WaitAt \in Nat /\ CountAt = WaitAt + 1 /\ CloseAt = WaitAt + 2
    /\ WorkerPids \subseteq Nat /\ NoPid \notin Pids
BY ProgramsAssumption DEF Pids, InitPid, WorkerPids, FirstKind, SecondKind, WaitAt, CountAt, CloseAt, NoPid

\* Where init makes call op.
InitAt(op, k) ==
    \/ op = "open" /\ k = 1
    \/ op = "spawn" /\ k >= 2 /\ k < WaitAt /\ k # Workers + 2
    \/ op = "preempt" /\ k = Workers + 2
    \/ op = "wait" /\ k = WaitAt
    \/ op = "count" /\ k = CountAt
    \/ op = "close" /\ k = CloseAt
    \/ op = "shutdown" /\ k = CloseAt + 1

\* Where worker p makes call op.
WorkerAt(op, p, k) ==
    \/ program = "sem" /\ p \in FirstKind /\ <<op, k>> \in {<<"wait_sem", 1>>, <<"exit", 2>>}
    \/ program = "sem" /\ p \in SecondKind
       /\ <<op, k>> \in {<<"sleep", 1>>, <<"post", 2>>, <<"exit", 3>>}
    \/ program = "mq" /\ p \in FirstKind
       /\ <<op, k>> \in {<<"receive", 1>>, <<"sleep", 2>>, <<"exit", 3>>}
    \/ program = "mq" /\ p \in SecondKind
       /\ <<op, k>> \in {<<"send", 1>>, <<"sleep", 2>>, <<"exit", 3>>}

\* The program of init, call by call.
LEMMA InitCalls ==
    ASSUME NEW k \in Nat, k >= 1, k <= CloseAt + 1
    PROVE  InitAt(Script(InitPid)[k], k)
<1> DEFINE N == Workers
           A == <<"open">>
           B == Times(N, "spawn")
           C == <<"preempt">>
           D == <<"wait", "count", "close", "shutdown">>
           AB == A \o B
           ABC == AB \o C
           ABCB == ABC \o B
           all == ABCB \o D
           Ops == {"open", "spawn", "preempt", "wait", "count", "close", "shutdown"}
<1>1. /\ Script(InitPid) = all /\ N \in Nat /\ N >= 1
  BY WorkersAre DEF Script
<1>2. /\ B \in Seq(Ops) /\ Len(B) = N /\ \A i \in 1 .. N : B[i] = "spawn"
  <2>1. B \in [1 .. N -> Ops] /\ \A i \in 1 .. N : B[i] = "spawn"
    BY DEF Times
  <2> HIDE DEF B
  <2> QED
    BY <2>1, <1>1, SeqDef, LenProperties
<1>3. /\ A \in Seq(Ops) /\ Len(A) = 1 /\ A[1] = "open"
      /\ C \in Seq(Ops) /\ Len(C) = 1 /\ C[1] = "preempt"
  OBVIOUS
<1>4. /\ D \in Seq(Ops) /\ Len(D) = 4 /\ D[1] = "wait" /\ D[2] = "count"
      /\ D[3] = "close" /\ D[4] = "shutdown"
  OBVIOUS
<1> HIDE DEF A, B, C, D, N, Ops
<1>5. /\ AB \in Seq(Ops) /\ Len(AB) = N + 1
      /\ \A i \in 1 .. N + 1 : AB[i] = IF i = 1 THEN "open" ELSE "spawn"
  <2>1. /\ A \o B \in Seq(Ops) /\ Len(A \o B) = Len(A) + Len(B)
        /\ \A i \in 1 .. Len(A) + Len(B) :
             (A \o B)[i] = IF i <= Len(A) THEN A[i] ELSE B[i - Len(A)]
    <3>1. A \in Seq(Ops) /\ B \in Seq(Ops)
      BY <1>2, <1>3
    <3> QED
      BY ONLY <3>1, ConcatProperties
  <2> QED
    BY <2>1, <1>1, <1>2, <1>3
<1> HIDE DEF AB
<1>6. /\ ABC \in Seq(Ops) /\ Len(ABC) = N + 2
      /\ \A i \in 1 .. N + 2 : ABC[i] = IF i = N + 2 THEN "preempt" ELSE AB[i]
  <2>1. /\ AB \o C \in Seq(Ops) /\ Len(AB \o C) = Len(AB) + Len(C)
        /\ \A i \in 1 .. Len(AB) + Len(C) :
             (AB \o C)[i] = IF i <= Len(AB) THEN AB[i] ELSE C[i - Len(AB)]
    BY <1>3, <1>5, ConcatProperties
  <2> QED
    BY <2>1, <1>1, <1>3, <1>5
<1> HIDE DEF ABC
<1>7. /\ ABCB \in Seq(Ops) /\ Len(ABCB) = 2 * N + 2
      /\ \A i \in 1 .. 2 * N + 2 : ABCB[i] = IF i <= N + 2 THEN ABC[i] ELSE "spawn"
  <2>1. /\ ABC \o B \in Seq(Ops) /\ Len(ABC \o B) = Len(ABC) + Len(B)
        /\ \A i \in 1 .. Len(ABC) + Len(B) :
             (ABC \o B)[i] = IF i <= Len(ABC) THEN ABC[i] ELSE B[i - Len(ABC)]
    BY <1>2, <1>6, ConcatProperties
  <2> QED
    BY <2>1, <1>1, <1>2, <1>6
<1> HIDE DEF ABCB
<1>8. \A i \in 1 .. 2 * N + 6 : all[i] = IF i <= 2 * N + 2 THEN ABCB[i] ELSE D[i - (2 * N + 2)]
  <2>1. \A i \in 1 .. Len(ABCB) + Len(D) :
             (ABCB \o D)[i] = IF i <= Len(ABCB) THEN ABCB[i] ELSE D[i - Len(ABCB)]
    BY <1>4, <1>7, ConcatProperties
  <2>2. Len(ABCB) = 2 * N + 2 /\ Len(ABCB) + Len(D) = 2 * N + 6
    BY <1>1, <1>4, <1>7
  <2> QED
    BY <2>1, <2>2
<1> HIDE DEF all
<1>9. k \in 1 .. 2 * N + 6
  BY <1>1 DEF CloseAt, N
<1>10. CASE k <= 2 * N + 2
  <2>1. all[k] = IF k = 1 THEN "open" ELSE IF k = N + 2 THEN "preempt" ELSE "spawn"
    <3>1. all[k] = ABCB[k]
      BY <1>1, <1>8, <1>9, <1>10
    <3>2. CASE k <= N + 2
      BY <3>1, <3>2, <1>1, <1>5, <1>6, <1>7, <1>9
    <3>3. CASE k > N + 2
      BY <3>1, <3>3, <1>1, <1>7, <1>9, <1>10
    <3> QED
      BY <3>2, <3>3, <1>1
  <2> QED
    BY <2>1, <1>1, <1>10 DEF InitAt, WaitAt, N
<1>11. CASE k > 2 * N + 2
  <2>1. k \in {2 * N + 3, 2 * N + 4, 2 * N + 5, 2 * N + 6}
    BY <1>1, <1>9, <1>11
  <2>2. all[k] = D[k - (2 * N + 2)]
    BY <1>1, <1>8, <1>9, <1>11
  <2> QED
    BY <2>1, <2>2, <1>1, <1>4 DEF InitAt, WaitAt, CountAt, CloseAt, N
<1> QED
  BY <1>1, <1>9, <1>10, <1>11

\* The program of a worker, call by call.
LEMMA WorkerCalls ==
    ASSUME program \in {"sem", "mq"}, NEW p \in WorkerPids, NEW k \in Nat, k >= 1, k <= CallsOf(p)
    PROVE  WorkerAt(Script(p)[k], p, k)
<1>1. p # InitPid /\ (p \in FirstKind \/ p \in SecondKind) /\ ~(p \in FirstKind /\ p \in SecondKind)
  BY WorkersAre
<1>2. CASE program = "sem" /\ p \in FirstKind
  <2>1. Script(p) = <<"wait_sem", "exit">> /\ k \in {1, 2}
    BY <1>1, <1>2 DEF Script, CallsOf
  <2> QED
    BY <2>1, <1>2 DEF WorkerAt
<1>3. CASE program = "sem" /\ p \in SecondKind
  <2>1. Script(p) = <<"sleep", "post", "exit">> /\ k \in {1, 2, 3}
    BY <1>1, <1>3 DEF Script, CallsOf
  <2> QED
    BY <2>1, <1>3 DEF WorkerAt
<1>4. CASE program = "mq" /\ p \in FirstKind
  <2>1. Script(p) = <<"receive", "sleep", "exit">> /\ k \in {1, 2, 3}
    BY <1>1, <1>4 DEF Script, CallsOf
  <2> QED
    BY <2>1, <1>4 DEF WorkerAt
<1>5. CASE program = "mq" /\ p \in SecondKind
  <2>1. Script(p) = <<"send", "sleep", "exit">> /\ k \in {1, 2, 3}
    BY <1>1, <1>5 DEF Script, CallsOf
  <2> QED
    BY <2>1, <1>5 DEF WorkerAt
<1> QED
  BY <1>1, <1>2, <1>3, <1>4, <1>5

\* Whoever runs was spawned and is alive.
LEMMA TheRunningLives ==
    ASSUME Inv, InUserCode
    PROVE  /\ me \in Pids /\ sched.status[me] = "Running" /\ me < last_pid
           /\ me # InitPid => IsAlive(me)
           /\ halt = "no"
<1>1. me \in Pids /\ me # NoPid /\ halt = "no"
  BY InvTypes DEF InUserCode, me, Inv
<1>2. sched.status[me] = "Running"
  BY <1>1 DEF Inv, KernelInv, Settled, RunsAlone, me
<1>3. me # InitPid => parent[me] # NoPid /\ me \notin zombies
  BY <1>1, <1>2, Family DEF Inv, KernelInv, ZombiesListed
<1>4. me < last_pid
  <2>1. PidsFresh /\ last_pid \in Nat /\ me \in Nat
    BY <1>1, InvTypes, KernelAssumption DEF Inv, KernelInv, KernelTypeOK
  <2> QED
    BY <1>1, <1>2, <2>1 DEF PidsFresh
<1> QED
  BY <1>1, <1>2, <1>3, <1>4 DEF IsAlive

\* A call of the running process is the one it is at.
LEMMA WhoDoes ==
    ASSUME ProgramsInv, NEW op, Does(op)
    PROVE  /\ me \in Pids /\ halt = "no" /\ me < last_pid
           /\ \/ me = InitPid /\ InitAt(op, pc[me])
              \/ me \in WorkerPids /\ IsAlive(me) /\ WorkerAt(op, me, pc[me])
<1>1. /\ me \in Pids /\ halt = "no" /\ me < last_pid /\ (me # InitPid => IsAlive(me))
      /\ op = Script(me)[pc[me]]
  BY TheRunningLives DEF Does, ProgramsInv
<1>2. CASE me = InitPid
  BY <1>1, <1>2, InitCalls DEF ProgramsInv, AtTheirCalls
<1>3. CASE me # InitPid
  <2>1. me \in WorkerPids /\ IsAlive(me) /\ pc[me] \in Nat /\ pc[me] >= 1 /\ pc[me] <= CallsOf(me)
    BY <1>1, <1>3, WorkersAre DEF ProgramsInv, AtTheirCalls
  <2> QED
    BY <2>1, <1>1, WorkerCalls DEF ProgramsInv, OneResource
<1> QED
  BY <1>1, <1>2, <1>3

\* A call of init's program is init's.
LEMMA InitDoes ==
    ASSUME ProgramsInv,
           NEW op \in {"open", "spawn", "preempt", "wait", "count", "close", "shutdown"}, Does(op)
    PROVE  /\ InUserCode /\ halt = "no" /\ me = InitPid /\ me \in Pids
           /\ pc[InitPid] \in Nat /\ pc[me] = pc[InitPid] /\ InitAt(op, pc[InitPid])
<1>1. ~WorkerAt(op, me, pc[me])
  BY DEF WorkerAt
<1>2. me = InitPid /\ InitAt(op, pc[me]) /\ halt = "no" /\ me \in Pids
  BY <1>1, WhoDoes
<1>3. pc[me] \in Nat
  BY <1>2 DEF ProgramsInv, AtTheirCalls
<1> QED
  BY <1>2, <1>3 DEF Does

\* A call of the workers' programs is a worker's, and by then init has opened its resource.
LEMMA WorkerDoes ==
    ASSUME ProgramsInv,
           NEW op \in {"wait_sem", "post", "sleep", "receive", "send", "exit"}, Does(op)
    PROVE  /\ InUserCode /\ halt = "no" /\ me \in WorkerPids /\ me \in Pids /\ me # InitPid
           /\ IsAlive(me) /\ me < last_pid
           /\ pc[me] \in Nat /\ WorkerAt(op, me, pc[me])
           /\ pc[InitPid] \in Nat /\ pc[InitPid] >= 3 /\ pc[InitPid] <= CloseAt + 1
           /\ program = "sem" => rid \in SemRids
           /\ program = "mq" => rid \in MqRids
<1>1. ~InitAt(op, pc[me])
  BY DEF InitAt
<1>2. /\ me \in WorkerPids /\ IsAlive(me) /\ WorkerAt(op, me, pc[me]) /\ halt = "no"
      /\ me \in Pids /\ me < last_pid
  BY <1>1, WhoDoes
<1>3. /\ pc[me] \in Nat /\ pc[InitPid] \in Nat /\ pc[InitPid] <= CloseAt + 1
      /\ me \in Nat /\ me >= 1 /\ me # InitPid /\ last_pid \in Int
  BY <1>2, InvTypes, WorkersAre, KernelAssumption
     DEF ProgramsInv, AtTheirCalls, WorkerPids, Inv, KernelInv, KernelTypeOK
<1>4. last_pid # 1
  BY <1>2, <1>3
<1>5. pc[InitPid] >= 3
  BY <1>3, <1>4 DEF ProgramsInv, OneResource
<1>6. /\ program = "sem" => rid \in SemRids
      /\ program = "mq" => rid \in MqRids
  BY <1>3, <1>5 DEF ProgramsInv, OneResource
<1> QED
  BY <1>2, <1>3, <1>5, <1>6 DEF Does

\* A call that opens or closes the resource, as one of the system.
LEMMA ResourceStep ==
    ASSUME ProgramsInv, Open \/ Close
    PROVE  Next
<1>1. CASE Open
  <2>1. 0 \in SemValues /\ CAPACITY \in Capacities
    BY ProgramsAssumption
  <2>2. SemOpen(0) => SemCall
    BY <2>1 DEF SemCall
  <2>3. MqOpen(CAPACITY) => MqCall
    BY <2>1 DEF MqCall
  <2> QED
    BY <1>1, <2>2, <2>3 DEF Open, OfSem, OfMq, Next
<1>2. CASE Close
  <2>1. pc[InitPid] = CloseAt /\ CloseAt >= 2
    BY <1>2, InitDoes, WorkersAre DEF Close, Makes, InitAt
  <2>2. rid \in (IF program = "sem" THEN SemRids ELSE MqRids)
    BY <2>1 DEF ProgramsInv, OneResource
  <2>3. program = "sem" /\ SemClose(rid) => SemCall
    BY <2>2 DEF SemCall
  <2>4. program # "sem" /\ MqClose(rid) => MqCall
    BY <2>2 DEF MqCall
  <2> QED
    BY <1>2, <2>3, <2>4 DEF Close, Makes, OfSem, OfMq, Next
<1> QED
  BY <1>1, <1>2

\* Every step of the programs is a step of the system.
LEMMA ProgramsMakeSteps ==
    ASSUME ProgramsInv, [ProgramsNext]_allVars
    PROVE  [Next]_vars
<1>1. ASSUME ProgramTick PROVE Next
  BY <1>1 DEF ProgramTick, OfKernel, Next, KernelNext
<1>2. ASSUME SpawnWorker \/ PreemptOnce \/ ShutDown PROVE Next
  BY <1>2 DEF SpawnWorker, PreemptOnce, ShutDown, Makes, OfKernel, Next, KernelNext, SystemCall
<1>3. ASSUME WaitForChild PROVE Next
  <2>1. AnyChild \in Pids
    BY KernelAssumption DEF AnyChild, Pids
  <2> QED
    BY <1>3, <2>1 DEF WaitForChild, Makes, OfKernel, Next, KernelNext, SystemCall
<1>4. ASSUME AllGone \/ Count PROVE UNCHANGED vars
  BY <1>4 DEF AllGone, Count
<1>5. ASSUME WaitSem \/ Post PROVE Next
  <2>1. rid \in SemRids
    BY <1>5, WorkerDoes DEF WaitSem, Post, Makes, WorkerAt
  <2>2. SemWait(rid) \/ SemPost(rid) \/ SemUnknown(rid) => SemCall
    BY <2>1 DEF SemCall
  <2> QED
    BY <1>5, <2>2 DEF WaitSem, Post, Makes, OfSem, Next
<1>6. ASSUME Send \/ Receive PROVE Next
  <2>1. rid \in MqRids /\ me \in Pids /\ me # InitPid
    BY <1>6, WorkerDoes DEF Send, Receive, Makes, WorkerAt
  <2>2. me \in Messages
    BY <2>1, ProgramsAssumption
  <2>3. \/ MqSendHandsOver(rid, me) \/ MqSendStores(rid, me) \/ MqSendBlocks(rid) \/ MqUnknown(rid)
        \/ MqReceiveTakes(rid) \/ MqReceiveBlocks(rid)
        => MqCall
    BY <2>1, <2>2 DEF MqCall
  <2> QED
    BY <1>6, <2>3 DEF Send, Receive, Makes, OfMq, Next
<1>7. ASSUME SleepAWhile PROVE Next
  <2>1. me \in 1 .. MaxPid /\ 1 \in 1 .. MaxPid
    BY <1>7, WorkerDoes, WorkersAre DEF SleepAWhile, Makes, WorkerPids
  <2>2. me \in SleepArgs /\ 1 \in SleepArgs
    BY <2>1, ProgramsAssumption
  <2>3. PICK n \in SleepArgs : Sleep(n) /\ UNCHANGED <<semVars, mqVars>>
    BY <1>7, <2>2 DEF SleepAWhile, Makes, OfKernel
  <2> QED
    BY <2>3 DEF Next, KernelNext, SystemCall
<1>8. ASSUME ExitWorker PROVE Next
  BY <1>8 DEF ExitWorker, OfKernel, Next, KernelNext, SystemCall
<1>9. ASSUME UNCHANGED allVars PROVE UNCHANGED vars
  BY <1>9 DEF allVars
<1> QED
  BY <1>1, <1>2, <1>3, <1>4, <1>5, <1>6, <1>7, <1>8, <1>9, ResourceStep
     DEF ProgramsNext, ProgramStep

\* So the invariant of the whole holds of the programs.
LEMMA ProgramsKeepAll ==
    ASSUME ProgramsInv, [ProgramsNext]_allVars
    PROVE  Inv'
BY ProgramsMakeSteps, NextKeepsAll DEF ProgramsInv

-----------------------------------------------------------------------------
(* What a call leaves as it was                                            *)

\* A call moves its process on, and nobody else.
LEMMA PcMoves ==
    ASSUME ProgramsInv, me \in Pids, NEW n \in Int, pc[me] + n \in Nat, Goes(n)
    PROVE  /\ pc' \in [Pids -> Nat] /\ pc'[me] = pc[me] + n
           /\ \A p \in Pids : p # me => pc'[p] = pc[p]
BY DEF ProgramsInv, AtTheirCalls, Goes

\* Init goes on to another of its calls, and makes nobody live who is behind the first.
LEMMA InitGoesOn ==
    ASSUME ProgramsInv, me = InitPid, NEW n \in Int, Goes(n), program' = program,
           pc[InitPid] + n >= 1, pc[InitPid] + n <= CloseAt + 2,
           halt' = "no" => pc[InitPid] + n <= CloseAt + 1,
           last_pid' \in Int, last_pid' >= last_pid,
           \A p \in WorkerPids : IsAlive(p)' => IsAlive(p) \/ pc[p] = 1
    PROVE  /\ AtTheirCalls' /\ pc'[InitPid] = pc[InitPid] + n
           /\ \A p \in WorkerPids : pc'[p] = pc[p]
<1>1. me \in Pids /\ pc[me] + n \in Nat
  BY WorkersAre DEF ProgramsInv, AtTheirCalls
<1>2. /\ pc' \in [Pids -> Nat] /\ pc'[InitPid] = pc[InitPid] + n
      /\ \A p \in WorkerPids : pc'[p] = pc[p]
  BY <1>1, PcMoves, WorkersAre
<1>3. last_pid \in Int /\ WorkerPids \subseteq Pids /\ WorkerPids \subseteq Int
  BY KernelAssumption, WorkersAre DEF ProgramsInv, Inv, KernelInv, KernelTypeOK
<1>4. ASSUME NEW p \in WorkerPids
      PROVE  /\ pc'[p] >= 1
             /\ IsAlive(p)' => pc'[p] <= CallsOf(p)'
             /\ p >= last_pid' => pc'[p] = 1
  <2>1. CallsOf(p)' = CallsOf(p) /\ CallsOf(p) \in {2, 3}
    BY DEF CallsOf
  <2>2. /\ pc[p] \in Nat /\ pc[p] >= 1 /\ (IsAlive(p) => pc[p] <= CallsOf(p))
        /\ (p >= last_pid => pc[p] = 1)
    BY <1>3 DEF ProgramsInv, AtTheirCalls
  <2> QED
    BY <2>1, <2>2, <1>2, <1>3
<1> QED
  BY <1>2, <1>4 DEF AtTheirCalls

\* A worker goes on to its next call, and the families and the resources stay.
LEMMA WorkerGoesOn ==
    ASSUME ProgramsInv, halt = "no", me \in WorkerPids, me < last_pid, pc[me] < CallsOf(me),
           Goes(1), UNCHANGED <<program, alive, rid, sem_rids, mq_rids>>,
           UNCHANGED <<last_pid, zombies, parent, children>>
    PROVE  /\ AtTheirCalls' /\ ChildrenSuffice' /\ OneResource' /\ pc'[InitPid] = pc[InitPid]
           /\ pc'[me] = pc[me] + 1 /\ \A p \in Pids : p # me => pc'[p] = pc[p]
<1>1. me \in Pids /\ me # InitPid /\ InitPid \in Pids /\ pc[me] \in Nat /\ pc[me] + 1 \in Nat
      /\ WorkerPids \subseteq Pids /\ WorkerPids \subseteq Int /\ last_pid \in Int
  BY WorkersAre, KernelAssumption DEF ProgramsInv, AtTheirCalls, Inv, KernelInv, KernelTypeOK
<1>2. /\ pc' \in [Pids -> Nat] /\ pc'[me] = pc[me] + 1
      /\ \A p \in Pids : p # me => pc'[p] = pc[p]
      /\ pc'[InitPid] = pc[InitPid]
  BY <1>1, PcMoves
<1>3. ASSUME NEW p \in WorkerPids
      PROVE  /\ pc'[p] >= 1
             /\ IsAlive(p)' => pc'[p] <= CallsOf(p)'
             /\ p >= last_pid' => pc'[p] = 1
  <2>1. CallsOf(p)' = CallsOf(p) /\ CallsOf(p) \in {2, 3} /\ (IsAlive(p)' <=> IsAlive(p))
    BY DEF CallsOf, IsAlive
  <2>2. /\ pc[p] \in Nat /\ pc[p] >= 1 /\ (IsAlive(p) => pc[p] <= CallsOf(p))
        /\ (p >= last_pid => pc[p] = 1)
    BY <1>1 DEF ProgramsInv, AtTheirCalls
  <2>3. CASE p = me
    BY <2>1, <2>2, <2>3, <1>1, <1>2
  <2>4. CASE p # me
    BY <2>1, <2>2, <2>4, <1>1, <1>2
  <2> QED
    BY <2>3, <2>4
<1>4. AtTheirCalls'
  BY <1>2, <1>3 DEF ProgramsInv, AtTheirCalls
<1>5. ChildrenSuffice' /\ OneResource'
  BY <1>2 DEF ProgramsInv, ChildrenSuffice, OneResource
<1> QED
  BY <1>2, <1>4, <1>5

\* The results fit if init's stays and nobody's becomes an error while the resource is open.
LEMMA ResultsGoOn ==
    ASSUME ProgramsInv, pc'[InitPid] = pc[InitPid], ret'[InitPid] = ret[InitPid],
           ret' \in [Pids -> Int],
           \A p \in Pids : ret'[p] = ret[p] \/ ret'[p] = 0 \/ pc[InitPid] > CloseAt
    PROVE  ResultsFit'
<1>1. pc[InitPid] \in Nat /\ CloseAt \in Nat
  BY WorkersAre DEF ProgramsInv, AtTheirCalls
<1>2. pc'[InitPid] <= CloseAt => \A p \in Pids : ret'[p] >= 0
  BY <1>1 DEF ProgramsInv, ResultsFit
<1> QED
  BY <1>2 DEF ProgramsInv, ResultsFit

\* The permits there are.
LEMMA PermitsAreCounted == Inv => PermitsLeft \in Nat
<1> SUFFICES ASSUME Inv, rid \in sem_rids PROVE sem[rid].value \in Int
  BY DEF PermitsLeft
<1>1. rid \in SemRids
  BY DEF Inv, SemInv, SemTypes
<1> QED
  BY <1>1, SemFacts DEF Inv

\* Workers who are through, and posters who have posted, can be counted.
LEMMA WorkersAreCounted ==
    ASSUME NEW P, P \subseteq FirstKind \/ P \subseteq SecondKind
    PROVE  IsFiniteSet(P) /\ Cardinality(P) \in Nat
<1>1. Workers \in Int /\ 2 * Workers \in Int /\ Workers + 1 \in Int
  BY WorkersAre
<1>2. IsFiniteSet(FirstKind) /\ IsFiniteSet(SecondKind)
  BY <1>1, FS_Interval DEF FirstKind, SecondKind
<1> QED
  BY <1>2, FS_Subset, FS_CardinalityType

\* As long as nobody else gets through and no permit comes, the posts suffice.
LEMMA PostsStay ==
    ASSUME ProgramsInv, Inv', program' = program, PermitsLeft' <= PermitsLeft,
           \A p \in FirstKind : Through(p)' => Through(p),
           \A p \in SecondKind : pc[p] >= 3 => pc'[p] >= 3
    PROVE  PostsSuffice'
<1> DEFINE T == {p \in FirstKind : Through(p)}
           U == {p \in FirstKind : Through(p)'}
           P == {p \in SecondKind : pc[p] >= 3}
           Q == {p \in SecondKind : pc'[p] >= 3}
<1>1. U \subseteq T /\ P \subseteq Q
  OBVIOUS
<1>2. /\ IsFiniteSet(T) /\ Cardinality(T) \in Nat /\ IsFiniteSet(U) /\ Cardinality(U) \in Nat
      /\ IsFiniteSet(P) /\ Cardinality(P) \in Nat /\ IsFiniteSet(Q) /\ Cardinality(Q) \in Nat
  <2>1. T \subseteq FirstKind /\ U \subseteq FirstKind /\ P \subseteq SecondKind /\ Q \subseteq SecondKind
    OBVIOUS
  <2> HIDE DEF T, U, P, Q
  <2> QED
    BY <2>1, WorkersAreCounted
<1>3. Cardinality(U) <= Cardinality(T) /\ Cardinality(P) <= Cardinality(Q)
  BY <1>1, <1>2, FS_Subset
<1>4. PermitsLeft \in Nat /\ PermitsLeft' \in Nat
  <2>1. Inv => PermitsLeft \in Nat
    BY PermitsAreCounted
  <2>2. Inv' => (PermitsLeft \in Nat)'
    BY PermitsAreCounted, PTL
  <2> QED
    BY <2>1, <2>2 DEF ProgramsInv
<1>5. program = "sem" => Cardinality(T) + PermitsLeft <= Cardinality(P)
  BY DEF ProgramsInv, PostsSuffice
<1>6. program = "sem" => Cardinality(U) + PermitsLeft' <= Cardinality(Q)
  <2> HIDE DEF T, U, P, Q
  <2> QED
    BY <1>2, <1>3, <1>4, <1>5
<1> QED
  BY <1>6 DEF PostsSuffice

\* As long as no message moves and nobody else gets through, the messages stay apart.
LEMMA MessagesStay ==
    ASSUME ProgramsInv, program' = program, inbox' = inbox,
           \A p \in FirstKind : /\ Through(p)' => Through(p)
                                /\ InCall(sched', p, {"mq_send"}) => InCall(sched, p, {"mq_send"}),
           \A p \in SecondKind : pc[p] > 1 => pc'[p] > 1,
           rid' \in mq_rids' => \/ rid \in mq_rids /\ Content(mq'[rid']) = Content(mq[rid])
                                \/ Content(mq'[rid']) = <<>>
    PROVE  MessagesApart'
<1> SUFFICES ASSUME program = "mq" PROVE MessagesApart'
  BY DEF MessagesApart
<1>1. \A m : IsSent(m) => IsSent(m)'
  BY DEF IsSent
<1>2. ASSUME NEW p \in FirstKind
      PROVE  /\ ~InCall(sched, p, {"mq_send"})'
             /\ Through(p)' => inbox'[p] # NoMessage
             /\ inbox'[p] # NoMessage => /\ IsSent(inbox[p])'
                                         /\ \A q \in FirstKind \ {p} : inbox'[q] # inbox'[p]
  BY <1>1 DEF ProgramsInv, MessagesApart
<1>3. ASSUME rid' \in mq_rids'
      PROVE  /\ IsInjective(Content(mq'[rid']))
             /\ \A m \in ToSet(Content(mq'[rid'])) :
                  IsSent(m)' /\ \A p \in FirstKind : inbox'[p] # m
  <2>1. CASE rid \in mq_rids /\ Content(mq'[rid']) = Content(mq[rid])
    BY <2>1, <1>1 DEF ProgramsInv, MessagesApart
  <2>2. CASE Content(mq'[rid']) = <<>>
    BY <2>2, SeqEmpty
  <2> QED
    BY <1>3, <2>1, <2>2
<1> QED
  BY <1>2, <1>3 DEF MessagesApart

\* A step of the kernel alone, that answers no worker and makes nobody pass his first call,
\* leaves what went through the resource as it was.
LEMMA QuietStep ==
    ASSUME ProgramsInv, [KernelNext]_kernelVars, UNCHANGED <<semVars, mqVars, program, rid>>,
           \A p \in WorkerPids : ret'[p] = ret[p],
           \A p \in FirstKind : pc'[p] > 1 => pc[p] > 1,
           \A p \in SecondKind : /\ pc[p] > 1 => pc'[p] > 1
                                 /\ pc[p] >= 3 => pc'[p] >= 3
    PROVE  InitIsFree' /\ PostsSuffice' /\ MessagesApart'
<1>1. Inv' /\ KeepsBlocked(sched, sched')
  BY NextKeepsAll, KernelStepKeeps DEF ProgramsInv, Inv, Next, vars
<1>2. FirstKind \subseteq Pids /\ InitPid \in Pids /\ FirstKind \subseteq WorkerPids
  BY WorkersAre
<1>3. InitIsFree'
  BY <1>1, <1>2 DEF ProgramsInv, InitIsFree, KeepsBlocked
<1>4. \A p \in FirstKind : Through(p)' => Through(p)
  BY <1>1, <1>2 DEF Through, KeepsBlocked
<1>5. {"mq_send"} \in SUBSET ResourceCalls
  BY DEF ResourceCalls
<1>6. \A p \in FirstKind : InCall(sched', p, {"mq_send"}) => InCall(sched, p, {"mq_send"})
  BY <1>1, <1>2, <1>5, BlockedKeepCalls DEF KeepsCalls
<1>7. PostsSuffice'
  <2>1. PermitsLeft' = PermitsLeft /\ PermitsLeft \in Nat
    BY PermitsAreCounted DEF PermitsLeft, semVars, ProgramsInv
  <2>2. PermitsLeft' <= PermitsLeft
    BY <2>1
  <2> QED
    BY <1>1, <1>4, <2>2, PostsStay
<1>8. MessagesApart'
  <2>1. /\ inbox' = inbox
        /\ rid' \in mq_rids' => rid \in mq_rids /\ Content(mq'[rid']) = Content(mq[rid])
    BY DEF mqVars
  <2> QED
    BY <1>4, <1>6, <2>1, MessagesStay
<1> QED
  BY <1>3, <1>7, <1>8

\* The tick changes nothing of the programs.
LEMMA TickKeepsPrograms ==
    ASSUME ProgramsInv, ProgramTick
    PROVE  ProgramsInv'
<1>1. /\ KernelNext /\ UNCHANGED <<semVars, mqVars, program, pc, alive, rid>>
      /\ UNCHANGED <<last_pid, zombies, parent, children, ret, halt>>
  BY DEF ProgramTick, OfKernel, Tick, KernelNext, programVars
<1>2. Inv'
  BY ProgramsKeepAll DEF ProgramsNext
<1>3. AtTheirCalls' /\ ChildrenSuffice' /\ OneResource' /\ ResultsFit'
  BY <1>1 DEF ProgramsInv, AtTheirCalls, ChildrenSuffice, OneResource, ResultsFit, IsAlive, CallsOf,
              semVars, mqVars
<1>4. InitIsFree' /\ PostsSuffice' /\ MessagesApart'
  BY <1>1, QuietStep
<1> QED
  BY <1>2, <1>3, <1>4 DEF ProgramsInv

-----------------------------------------------------------------------------
(* Init                                                                    *)

\* How many spawns init has before it, before and after each of its calls.
LEMMA SpawnsAre ==
    ASSUME NEW k \in Nat
    PROVE  /\ SpawnsLeft(k) \in Nat
           /\ k = 1 => SpawnsLeft(k + 1) = SpawnsLeft(k)
           /\ InitAt("spawn", k) => SpawnsLeft(k + 1) = SpawnsLeft(k) - 1
           /\ InitAt("preempt", k) => SpawnsLeft(k + 1) = SpawnsLeft(k)
           /\ k >= WaitAt => SpawnsLeft(k) = 0
BY WorkersAre DEF SpawnsLeft, InitAt, WaitAt

\* Init between the open and the close.
LEMMA StaysOpen ==
    ASSUME ProgramsInv, pc[InitPid] >= 2, pc[InitPid] <= CloseAt,
           pc'[InitPid] >= 3, pc'[InitPid] <= CloseAt, pc'[InitPid] \in Nat,
           UNCHANGED <<program, rid, sem_rids, mq_rids>>
    PROVE  OneResource'
<1>1. IsOpenAt(pc[InitPid]) /\ IsOpenAt(pc'[InitPid]) /\ ~(pc'[InitPid] <= 2)
  BY DEF IsOpenAt
<1> QED
  BY <1>1 DEF ProgramsInv, OneResource

\* A new worker is init's child, and at its first call.
LEMMA SpawnWorkerKeeps ==
    ASSUME ProgramsInv, SpawnWorker
    PROVE  ProgramsInv'
<1> DEFINE k == pc[InitPid]
           c == last_pid
<1>1. /\ halt = "no" /\ me = InitPid /\ InitPid \in Pids /\ k \in Nat /\ InitAt("spawn", k)
  BY InitDoes DEF SpawnWorker, Makes
<1>2. /\ KernelNext /\ Goes(1) /\ UNCHANGED <<semVars, mqVars, program, alive, rid>>
      /\ c <= MaxPid /\ ret' = [ret EXCEPT ![InitPid] = c]
      /\ parent' = [parent EXCEPT ![c] = InitPid] /\ zombies' = zombies /\ last_pid' = c + 1
      /\ children' = [children EXCEPT ![InitPid] = Append(@, c)]
      /\ UNCHANGED halt
  BY <1>1 DEF SpawnWorker, Makes, OfKernel, Spawn, KernelNext, SystemCall
<1>3. c \in Nat /\ c >= 1 /\ c \in WorkerPids
  BY <1>2, KernelAssumption
     DEF ProgramsInv, Inv, KernelInv, PidsFresh, KernelTypeOK, WorkerPids
<1>4. k >= 2 /\ k < WaitAt /\ WaitAt \in Nat /\ CountAt = WaitAt + 1 /\ CloseAt = WaitAt + 2
  BY <1>1, WorkersAre DEF InitAt
<1>5. Inv'
  BY ProgramsKeepAll DEF ProgramsNext, ProgramStep
<1>6. /\ parent \in [Pids -> Pids \cup {NoPid}] /\ children \in [Pids -> Seq(Pids)]
      /\ ret \in [Pids -> Int] /\ WorkerPids \subseteq Pids /\ InitPid \notin WorkerPids
  BY WorkersAre, InvTypes DEF ProgramsInv, Inv, KernelInv, KernelTypeOK
<1>7. ASSUME NEW p \in WorkerPids, IsAlive(p)' PROVE IsAlive(p) \/ pc[p] = 1
  <2>1. CASE p = c
    BY <2>1, <1>3 DEF ProgramsInv, AtTheirCalls
  <2>2. CASE p # c
    BY <2>2, <1>2, <1>6, <1>7 DEF IsAlive
  <2> QED
    BY <2>1, <2>2
<1>8. AtTheirCalls' /\ pc'[InitPid] = k + 1 /\ \A p \in WorkerPids : pc'[p] = pc[p]
  BY <1>1, <1>2, <1>3, <1>4, <1>7, InitGoesOn
<1>9. Len(children'[InitPid]) = Len(children[InitPid]) + 1 /\ Len(children[InitPid]) \in Nat
  <2>1. children[InitPid] \in Seq(Pids) /\ c \in Pids
    BY <1>3, <1>6, WorkersAre
  <2>2. /\ Len(Append(children[InitPid], c)) = Len(children[InitPid]) + 1
        /\ Len(children[InitPid]) \in Nat
    BY ONLY <2>1, AppendProperties, LenProperties
  <2>3. children'[InitPid] = Append(children[InitPid], c)
    BY <1>2, <1>6, WorkersAre
  <2> QED
    BY <2>2, <2>3
<1>10. ChildrenSuffice'
  <2>1. alive \in Nat /\ alive <= Len(children[InitPid]) + SpawnsLeft(k)
    <3>1. pc[InitPid] # CountAt /\ SpawnsLeft(k) \in Nat
      BY <1>1, <1>4, SpawnsAre
    <3> QED
      BY <3>1, <1>9 DEF ProgramsInv, ChildrenSuffice
  <2>2. /\ SpawnsLeft(k) \in Nat /\ SpawnsLeft(pc'[InitPid]) = SpawnsLeft(k) - 1
        /\ pc'[InitPid] # CountAt
    BY <1>1, <1>4, <1>8, SpawnsAre
  <2>3. alive' = alive /\ alive' <= Len(children'[InitPid]) + SpawnsLeft(pc'[InitPid])
    BY <2>1, <2>2, <1>2, <1>9
  <2> QED
    BY <2>1, <2>2, <2>3, <1>9 DEF ChildrenSuffice
<1>11. OneResource'
  <2>1. /\ k <= CloseAt /\ pc'[InitPid] >= 3 /\ pc'[InitPid] <= CloseAt /\ pc'[InitPid] \in Nat
        /\ sem_rids' = sem_rids /\ mq_rids' = mq_rids
    BY <1>1, <1>2, <1>4, <1>8 DEF semVars, mqVars
  <2> QED
    BY <2>1, <1>2, <1>4, StaysOpen
<1>12. ResultsFit'
  <2>1. ret'[InitPid] = c /\ \A p \in WorkerPids : ret'[p] = ret[p]
    BY <1>1, <1>2, <1>6
  <2>2. k <= CloseAt
    BY <1>1, <1>4
  <2>3. \A p \in WorkerPids : ret[p] >= 0
    BY <2>2, <1>6 DEF ProgramsInv, ResultsFit
  <2> QED
    BY <2>1, <2>3, <1>3, WorkersAre DEF ResultsFit
<1>13. InitIsFree' /\ PostsSuffice' /\ MessagesApart'
  BY <1>2, <1>6, <1>8, QuietStep, WorkersAre
<1> QED
  BY <1>5, <1>8, <1>10, <1>11, <1>12, <1>13 DEF ProgramsInv

\* The preempt between the two kinds changes only the turn.
LEMMA PreemptOnceKeeps ==
    ASSUME ProgramsInv, PreemptOnce
    PROVE  ProgramsInv'
<1> DEFINE k == pc[InitPid]
<1>1. /\ halt = "no" /\ me = InitPid /\ InitPid \in Pids /\ k \in Nat /\ InitAt("preempt", k)
  BY InitDoes DEF PreemptOnce, Makes
<1>2. /\ KernelNext /\ Goes(1) /\ UNCHANGED <<semVars, mqVars, program, alive, rid>>
      /\ UNCHANGED <<last_pid, zombies, parent, children, ret, halt>>
  BY DEF PreemptOnce, Makes, OfKernel, Preempt, KernelNext, SystemCall
<1>3. k >= 3 /\ k < WaitAt /\ WaitAt \in Nat /\ CountAt = WaitAt + 1 /\ CloseAt = WaitAt + 2
  BY <1>1, WorkersAre DEF InitAt, WaitAt
<1>4. Inv'
  BY ProgramsKeepAll DEF ProgramsNext, ProgramStep
<1>5. last_pid' \in Int /\ last_pid' >= last_pid
  BY <1>2, KernelAssumption DEF ProgramsInv, Inv, KernelInv, KernelTypeOK
<1>6. AtTheirCalls' /\ pc'[InitPid] = k + 1 /\ \A p \in WorkerPids : pc'[p] = pc[p]
  BY <1>1, <1>2, <1>3, <1>5, InitGoesOn DEF IsAlive
<1>7. ChildrenSuffice'
  <2>1. /\ SpawnsLeft(pc'[InitPid]) = SpawnsLeft(k) /\ pc'[InitPid] # CountAt
        /\ pc[InitPid] # CountAt
    BY <1>1, <1>3, <1>6, SpawnsAre
  <2> QED
    BY <2>1, <1>2 DEF ProgramsInv, ChildrenSuffice
<1>8. OneResource'
  <2>1. /\ k >= 2 /\ k <= CloseAt /\ pc'[InitPid] >= 3 /\ pc'[InitPid] <= CloseAt
        /\ pc'[InitPid] \in Nat /\ sem_rids' = sem_rids /\ mq_rids' = mq_rids
    BY <1>1, <1>2, <1>3, <1>6 DEF semVars, mqVars
  <2> QED
    BY <2>1, <1>2, StaysOpen
<1>9. ResultsFit'
  BY <1>1, <1>2, <1>3, <1>6 DEF ProgramsInv, ResultsFit
<1>10. InitIsFree' /\ PostsSuffice' /\ MessagesApart'
  BY <1>2, <1>6, QuietStep, WorkersAre
<1> QED
  BY <1>4, <1>6, <1>7, <1>8, <1>9, <1>10 DEF ProgramsInv

\* A wait of init's finds a child, dead or alive.
LEMMA WaitForChildKeeps ==
    ASSUME ProgramsInv, WaitForChild
    PROVE  ProgramsInv'
<1> DEFINE k == pc[InitPid]
           i == Min(DeadChildren(InitPid, AnyChild))
           z == children[InitPid][i]
<1>1. /\ halt = "no" /\ me = InitPid /\ InitPid \in Pids /\ k \in Nat /\ k = WaitAt
      /\ alive > 0
  BY InitDoes DEF WaitForChild, Makes, InitAt
<1>2. /\ Wait(AnyChild) /\ Goes(1) /\ UNCHANGED <<semVars, mqVars, program, alive, rid>>
  BY DEF WaitForChild, Makes, OfKernel
<1>3. /\ k >= 3 /\ WaitAt \in Nat /\ CountAt = WaitAt + 1 /\ CloseAt = WaitAt + 2
      /\ WorkerPids \subseteq Pids /\ InitPid \notin WorkerPids
      /\ Pids = {InitPid} \cup WorkerPids /\ InitPid = 0
  BY <1>1, WorkersAre DEF WaitAt
<1>4. Inv' /\ KernelNext
  <2>1. AnyChild \in Pids
    BY KernelAssumption DEF AnyChild, Pids
  <2> QED
    BY <2>1, <1>2, ProgramsKeepAll DEF ProgramsNext, ProgramStep, KernelNext, SystemCall
<1>5. /\ parent \in [Pids -> Pids \cup {NoPid}] /\ children \in [Pids -> Seq(Pids)]
      /\ ret \in [Pids -> Int] /\ last_pid \in Int /\ KernelInv
  BY KernelAssumption, InvTypes DEF ProgramsInv, Inv, KernelInv, KernelTypeOK
<1>6. SpawnsLeft(k) = 0 /\ SpawnsLeft(k + 1) = 0
  BY <1>1, <1>3, SpawnsAre
<1>7. Len(children[InitPid]) \in Nat /\ alive \in Nat /\ alive <= Len(children[InitPid])
  <2>1. Len(children[InitPid]) \in Nat
    BY <1>1, <1>5, LenProperties
  <2>2. k # CountAt
    BY <1>1, <1>3
  <2> QED
    BY <2>1, <2>2, <1>6 DEF ProgramsInv, ChildrenSuffice
<1>8. ret[InitPid] > 0 /\ \A p \in Pids : ret[p] >= 0
  BY <1>1, <1>3 DEF ProgramsInv, ResultsFit
<1>9. /\ last_pid' = last_pid /\ ret' \in [Pids -> Int] /\ ret'[InitPid] > 0 /\ halt' = halt
      /\ \A p \in WorkerPids : /\ ret'[p] = ret[p]
                               /\ IsAlive(p)' => IsAlive(p)
      /\ Len(children'[InitPid]) \in Nat /\ Len(children'[InitPid]) + 1 >= Len(children[InitPid])
  <2>1. ~WaitWithoutChildren
    <3>1. children[InitPid] # <<>>
      BY <1>1, <1>7, SeqEmpty
    <3> QED
      BY <3>1, <1>1 DEF WaitWithoutChildren
  <2>2. CASE WaitReaps(AnyChild)
    <3>1. /\ DeadChildren(InitPid, AnyChild) # {} /\ last_pid' = last_pid /\ halt' = halt
          /\ ret' = [ret EXCEPT ![InitPid] = z]
          /\ children' = [children EXCEPT ![InitPid] = RemoveAt(@, i)]
          /\ parent' = [parent EXCEPT ![z] = NoPid] /\ zombies' = zombies \ {z}
      BY <2>2, <1>1 DEF WaitReaps, FreeLink
    <3>2. i \in DOMAIN children[InitPid] /\ z \in Pids /\ parent[z] = InitPid
      BY <1>1, <1>5, <3>1, ReapedChild
    <3>3. z # InitPid /\ IsInjective(children[InitPid])
      <4>1. parent[InitPid] = NoPid /\ IsInjective(children[InitPid])
        BY <1>1, <1>5, Family
      <4> QED
        BY <4>1, <3>2, <1>1, WorkersAre
    <3>4. Len(RemoveAt(children[InitPid], i)) = Len(children[InitPid]) - 1
      BY <1>1, <1>5, <3>2, <3>3, SeqRemoveAt
    <3> HIDE DEF z, i
    <3>5. z \in Int /\ z > 0
      BY <3>2, <3>3, <1>3 DEF WorkerPids
    <3>6. ret' \in [Pids -> Int] /\ ret'[InitPid] = z /\ \A p \in WorkerPids : ret'[p] = ret[p]
      BY <3>1, <3>5, <1>1, <1>3, <1>5
    <3>7. Len(children'[InitPid]) = Len(children[InitPid]) - 1 /\ Len(children[InitPid]) >= 1
      <4>1. children'[InitPid] = RemoveAt(children[InitPid], i)
        BY <3>1, <1>1, <1>5
      <4>2. Len(children[InitPid]) >= 1
        BY <1>1, <1>7
      <4> QED
        BY <4>1, <4>2, <3>4
    <3>8. \A p \in WorkerPids : IsAlive(p)' => IsAlive(p)
      BY <3>1, <3>2, <1>3, <1>5 DEF IsAlive
    <3> QED
      BY <3>1, <3>5, <3>6, <3>7, <3>8, <1>7
  <2>3. CASE WaitBlocks(AnyChild)
    BY <2>3, <1>1, <1>5, <1>7, <1>8 DEF WaitBlocks, IsAlive
  <2> QED
    BY <2>1, <2>2, <2>3, <1>2 DEF Wait
<1>10. AtTheirCalls' /\ pc'[InitPid] = k + 1 /\ \A p \in WorkerPids : pc'[p] = pc[p]
  <2>1. last_pid' \in Int /\ last_pid' >= last_pid /\ program' = program
    BY <1>2, <1>5, <1>9
  <2> QED
    BY <2>1, <1>1, <1>2, <1>3, <1>9, InitGoesOn
<1>11. ChildrenSuffice'
  <2>1. pc'[InitPid] = CountAt /\ SpawnsLeft(pc'[InitPid]) = 0 /\ alive' = alive
    BY <1>1, <1>2, <1>3, <1>6, <1>10
  <2>2. alive <= Len(children'[InitPid]) + 0 + 1
    BY <1>7, <1>9
  <2> QED
    BY <2>1, <2>2, <1>1, <1>7 DEF ChildrenSuffice
<1>12. OneResource'
  <2>1. /\ k >= 2 /\ k <= CloseAt /\ pc'[InitPid] >= 3 /\ pc'[InitPid] <= CloseAt
        /\ pc'[InitPid] \in Nat /\ sem_rids' = sem_rids /\ mq_rids' = mq_rids
    BY <1>1, <1>2, <1>3, <1>10 DEF semVars, mqVars
  <2> QED
    BY <2>1, <1>2, StaysOpen
<1>13. ResultsFit'
  <2>1. \A p \in Pids : ret'[p] >= 0
    BY <1>3, <1>8, <1>9
  <2>2. ret'[InitPid] >= 0
    BY <2>1, <1>1
  <2> QED
    BY <2>1, <2>2, <1>9 DEF ResultsFit
<1>14. InitIsFree' /\ PostsSuffice' /\ MessagesApart'
  <2>1. FirstKind \subseteq WorkerPids /\ SecondKind \subseteq WorkerPids
    BY WorkersAre
  <2> QED
    BY <2>1, <1>2, <1>4, <1>9, <1>10, QuietStep
<1> QED
  BY <1>4, <1>10, <1>11, <1>12, <1>13, <1>14 DEF ProgramsInv

\* Without children left to wait for, init goes on to the close.
LEMMA AllGoneKeeps ==
    ASSUME ProgramsInv, AllGone
    PROVE  ProgramsInv'
<1> DEFINE k == pc[InitPid]
<1>1. /\ halt = "no" /\ me = InitPid /\ InitPid \in Pids /\ k \in Nat /\ k = WaitAt
  BY InitDoes DEF AllGone, InitAt
<1>2. alive = 0 /\ Goes(2) /\ UNCHANGED <<vars, program, alive, rid>>
  BY DEF AllGone
<1>3. UNCHANGED <<kernelVars, semVars, mqVars>>
      /\ UNCHANGED <<last_pid, zombies, parent, children, ret, halt, sem_rids, mq_rids>>
  BY <1>2 DEF vars, kernelVars, semVars, mqVars
<1>4. /\ k >= 3 /\ WaitAt \in Nat /\ CountAt = WaitAt + 1 /\ CloseAt = WaitAt + 2
  BY <1>1, WorkersAre DEF WaitAt
<1>5. Inv'
  BY ProgramsKeepAll DEF ProgramsNext, ProgramStep
<1>6. /\ children \in [Pids -> Seq(Pids)] /\ last_pid \in Int
  BY KernelAssumption, InvTypes DEF ProgramsInv, Inv, KernelInv, KernelTypeOK
<1>7. AtTheirCalls' /\ pc'[InitPid] = k + 2 /\ \A p \in WorkerPids : pc'[p] = pc[p]
  <2>1. last_pid' \in Int /\ last_pid' >= last_pid /\ program' = program
        /\ \A p \in WorkerPids : IsAlive(p)' => IsAlive(p)
    BY <1>2, <1>3, <1>6 DEF IsAlive
  <2> QED
    BY <2>1, <1>1, <1>2, <1>4, InitGoesOn
<1>8. ChildrenSuffice'
  <2>1. pc'[InitPid] # CountAt /\ SpawnsLeft(pc'[InitPid]) = 0 /\ alive' = 0
    BY <1>1, <1>2, <1>4, <1>7, SpawnsAre
  <2>2. Len(children'[InitPid]) \in Nat
    BY <1>1, <1>3, <1>6, LenProperties
  <2> QED
    BY <2>1, <2>2 DEF ChildrenSuffice
<1>9. OneResource'
  <2>1. /\ k >= 2 /\ k <= CloseAt /\ pc'[InitPid] >= 3 /\ pc'[InitPid] <= CloseAt
        /\ pc'[InitPid] \in Nat
    BY <1>1, <1>4, <1>7
  <2> QED
    BY <2>1, <1>2, <1>3, StaysOpen
<1>10. ResultsFit'
  BY <1>1, <1>3, <1>4 DEF ProgramsInv, ResultsFit
<1>11. InitIsFree' /\ PostsSuffice' /\ MessagesApart'
  <2>1. FirstKind \subseteq WorkerPids /\ SecondKind \subseteq WorkerPids
    BY WorkersAre
  <2> QED
    BY <2>1, <1>2, <1>3, <1>7, QuietStep
<1> QED
  BY <1>5, <1>7, <1>8, <1>9, <1>10, <1>11 DEF ProgramsInv

\* The result of the wait is a pid: one child less.
LEMMA CountKeeps ==
    ASSUME ProgramsInv, Count
    PROVE  ProgramsInv'
<1> DEFINE k == pc[InitPid]
<1>1. /\ halt = "no" /\ me = InitPid /\ InitPid \in Pids /\ k \in Nat /\ k = CountAt
  BY InitDoes DEF Count, InitAt
<1>2. UNCHANGED <<vars, program, rid>>
  BY DEF Count
<1>3. UNCHANGED <<kernelVars, semVars, mqVars>>
      /\ UNCHANGED <<last_pid, zombies, parent, children, ret, halt, sem_rids, mq_rids>>
  BY <1>2 DEF vars, kernelVars, semVars, mqVars
<1>4. /\ k >= 4 /\ WaitAt \in Nat /\ CountAt = WaitAt + 1 /\ CloseAt = WaitAt + 2 /\ WaitAt >= 3
  BY <1>1, WorkersAre DEF WaitAt, CountAt
<1>5. alive' = alive - 1 /\ Goes(-1)
  <2>1. ret[me] > 0
    BY <1>1, <1>4 DEF ProgramsInv, ResultsFit
  <2> QED
    BY <2>1 DEF Count
<1>6. Inv'
  BY ProgramsKeepAll DEF ProgramsNext, ProgramStep
<1>7. /\ children \in [Pids -> Seq(Pids)] /\ last_pid \in Int
  BY KernelAssumption, InvTypes DEF ProgramsInv, Inv, KernelInv, KernelTypeOK
<1>8. AtTheirCalls' /\ pc'[InitPid] = k + (-1) /\ \A p \in WorkerPids : pc'[p] = pc[p]
  <2>1. last_pid' \in Int /\ last_pid' >= last_pid /\ program' = program
        /\ \A p \in WorkerPids : IsAlive(p)' => IsAlive(p)
    BY <1>2, <1>3, <1>7 DEF IsAlive
  <2>2. -1 \in Int /\ k + (-1) >= 1 /\ k + (-1) <= CloseAt + 1 /\ k + (-1) <= CloseAt + 2
    BY <1>1, <1>4
  <2> QED
    BY <2>1, <2>2, <1>1, <1>5, InitGoesOn
<1>9. ChildrenSuffice'
  <2>1. pc'[InitPid] # CountAt /\ SpawnsLeft(pc'[InitPid]) = 0 /\ SpawnsLeft(k) = 0
    BY <1>1, <1>4, <1>8, SpawnsAre
  <2>2. Len(children[InitPid]) \in Nat
    BY <1>1, <1>7, LenProperties
  <2>3. alive \in Nat /\ alive > 0 /\ alive <= Len(children[InitPid]) + 1
    BY <2>1, <2>2, <1>1 DEF ProgramsInv, ChildrenSuffice
  <2>4. alive' \in Nat /\ alive' <= Len(children'[InitPid])
    BY <2>2, <2>3, <1>3, <1>5
  <2> QED
    BY <2>1, <2>2, <2>4, <1>3 DEF ChildrenSuffice
<1>10. OneResource'
  <2>1. /\ k >= 2 /\ k <= CloseAt /\ pc'[InitPid] >= 3 /\ pc'[InitPid] <= CloseAt
        /\ pc'[InitPid] \in Nat
    BY <1>1, <1>4, <1>8
  <2> QED
    BY <2>1, <1>2, <1>3, StaysOpen
<1>11. ResultsFit'
  BY <1>1, <1>3, <1>4 DEF ProgramsInv, ResultsFit
<1>12. InitIsFree' /\ PostsSuffice' /\ MessagesApart'
  <2>1. FirstKind \subseteq WorkerPids /\ SecondKind \subseteq WorkerPids
    BY WorkersAre
  <2> QED
    BY <2>1, <1>2, <1>3, <1>8, QuietStep
<1> QED
  BY <1>6, <1>8, <1>9, <1>10, <1>11, <1>12 DEF ProgramsInv

\* The shutdown is the last call.
LEMMA ShutDownKeeps ==
    ASSUME ProgramsInv, ShutDown
    PROVE  ProgramsInv'
<1> DEFINE k == pc[InitPid]
<1>1. /\ me = InitPid /\ InitPid \in Pids /\ k \in Nat /\ k = CloseAt + 1
  BY InitDoes DEF ShutDown, Makes, InitAt
<1>2. /\ Shutdown /\ KernelNext /\ Goes(1)
      /\ UNCHANGED <<semVars, mqVars, program, alive, rid>>
  BY DEF ShutDown, Makes, OfKernel, KernelNext, SystemCall
<1>3. UNCHANGED <<last_pid, zombies, parent, children, ret, sem_rids, mq_rids>> /\ halt' = "shutdown"
  BY <1>2 DEF Shutdown, Stop, semVars, mqVars
<1>4. /\ k >= 6 /\ WaitAt \in Nat /\ CountAt = WaitAt + 1 /\ CloseAt = WaitAt + 2 /\ WaitAt >= 3
  BY <1>1, WorkersAre DEF WaitAt, CloseAt
<1>5. Inv'
  BY ProgramsKeepAll DEF ProgramsNext, ProgramStep
<1>6. last_pid \in Int
  BY KernelAssumption, InvTypes DEF ProgramsInv, Inv, KernelInv, KernelTypeOK
<1>7. AtTheirCalls' /\ pc'[InitPid] = k + 1 /\ \A p \in WorkerPids : pc'[p] = pc[p]
  <2>1. last_pid' \in Int /\ last_pid' >= last_pid /\ program' = program
        /\ \A p \in WorkerPids : IsAlive(p)' => IsAlive(p)
    BY <1>2, <1>3, <1>6 DEF IsAlive
  <2> QED
    BY <2>1, <1>1, <1>2, <1>3, <1>4, InitGoesOn
<1>8. ChildrenSuffice'
  <2>1. /\ pc'[InitPid] # CountAt /\ k # CountAt /\ SpawnsLeft(pc'[InitPid]) = 0
        /\ SpawnsLeft(k) = 0
    BY <1>1, <1>4, <1>7, SpawnsAre
  <2> QED
    BY <2>1, <1>2, <1>3 DEF ProgramsInv, ChildrenSuffice
<1>9. OneResource'
  <2>1. /\ ~IsOpenAt(k) /\ ~IsOpenAt(pc'[InitPid]) /\ ~(pc'[InitPid] <= 2) /\ k >= 2
    BY <1>1, <1>4, <1>7 DEF IsOpenAt
  <2> QED
    BY <2>1, <1>2, <1>3 DEF ProgramsInv, OneResource
<1>10. ResultsFit'
  <2>1. ~(pc'[InitPid] <= CloseAt)
    BY <1>1, <1>4, <1>7
  <2> QED
    BY <2>1, <1>3 DEF ProgramsInv, ResultsFit
<1>11. InitIsFree' /\ PostsSuffice' /\ MessagesApart'
  <2>1. FirstKind \subseteq WorkerPids /\ SecondKind \subseteq WorkerPids
    BY WorkersAre
  <2> QED
    BY <2>1, <1>2, <1>3, <1>7, QuietStep
<1> QED
  BY <1>5, <1>7, <1>8, <1>9, <1>10, <1>11 DEF ProgramsInv

\* Init opens the resource: a semaphore without permits, or an empty queue.
LEMMA OpenKeeps ==
    ASSUME ProgramsInv, Open
    PROVE  ProgramsInv'
<1> DEFINE k == pc[InitPid]
<1>1. /\ InUserCode /\ halt = "no" /\ me = InitPid /\ InitPid \in Pids /\ k \in Nat /\ k = 1
  BY InitDoes DEF Open, InitAt
<1>2. /\ Goes(1) /\ rid' = ret'[InitPid] /\ UNCHANGED <<program, alive>>
      /\ program = "sem" => SemOpen(0) /\ UNCHANGED mqVars
      /\ program # "sem" => MqOpen(CAPACITY) /\ UNCHANGED semVars
  BY <1>1 DEF Open, OfSem, OfMq
<1>3. /\ WaitAt \in Nat /\ CountAt = WaitAt + 1 /\ CloseAt = WaitAt + 2 /\ WaitAt >= 5
      /\ WorkerPids \subseteq Pids /\ InitPid \notin WorkerPids
      /\ Pids = {InitPid} \cup WorkerPids /\ InitPid = 0
      /\ FirstKind \subseteq WorkerPids /\ SecondKind \subseteq WorkerPids
  BY WorkersAre DEF WaitAt
<1>4. Inv'
  BY ProgramsKeepAll DEF ProgramsNext, ProgramStep
<1>5. /\ ret \in [Pids -> Int] /\ last_pid \in Int /\ KernelInv /\ SemInv /\ MqInv
      /\ children \in [Pids -> Seq(Pids)]
      /\ program \in {"sem", "mq"} /\ sem_rids = {} /\ mq_rids = {} /\ last_pid = 1
  <2>1. ~IsOpenAt(k)
    BY <1>1 DEF IsOpenAt
  <2> QED
    BY <2>1, <1>1, KernelAssumption DEF ProgramsInv, Inv, KernelInv, KernelTypeOK, OneResource
<1> DEFINE v == IF program = "sem" THEN next_sem_rid ELSE last_mq_rid
<1>6. /\ Return(v) /\ v \in Nat /\ UNCHANGED <<processVars, ptrs>>
      /\ program = "sem" => v \in SemRids /\ v > 0
      /\ program = "mq" => v \in MqRids
  <2>1. CASE program = "sem"
    <3>1. /\ Return(next_sem_rid) /\ next_sem_rid <= MaxSemRid /\ UNCHANGED <<processVars, ptrs>>
      BY <2>1, <1>2 DEF SemOpen
    <3>2. next_sem_rid \in 1 .. MaxSemRid + 1 /\ MaxSemRid \in Nat
      BY <1>5, SemaphoresAssumption DEF SemInv, SemTypes
    <3> QED
      BY <2>1, <3>1, <3>2 DEF SemRids
  <2>2. CASE program = "mq"
    <3>1. /\ Return(last_mq_rid) /\ last_mq_rid <= MaxMqRid /\ UNCHANGED <<processVars, ptrs>>
      BY <2>2, <1>2 DEF MqOpen
    <3>2. /\ last_mq_rid \in FirstMqRid .. MaxMqRid + 1 /\ MaxMqRid \in Nat /\ FirstMqRid \in Nat
      BY <1>5, MessageQueuesAssumption DEF MqInv, MqTypes
    <3> QED
      BY <2>2, <3>1, <3>2 DEF MqRids
  <2> QED
    BY <2>1, <2>2, <1>5
<1>7. /\ sem_rids' = IF program = "sem" THEN {v} ELSE {}
      /\ mq_rids' = IF program = "mq" THEN {v} ELSE {}
  <2>1. CASE program = "sem"
    BY <2>1, <1>2, <1>5 DEF SemOpen, mqVars
  <2>2. CASE program = "mq"
    BY <2>2, <1>2, <1>5 DEF MqOpen, semVars
  <2> QED
    BY <2>1, <2>2, <1>5
<1> HIDE DEF v
<1>8. /\ ret' = [ret EXCEPT ![InitPid] = v] /\ rid' = v /\ ret'[InitPid] = v
      /\ UNCHANGED <<last_pid, zombies, parent, children, halt>>
      /\ KeepsBlocked(sched, sched')
  <2>1. KeepsBlocked(sched, sched')
    BY <1>5, <1>6, ReturnKeepsInv DEF processVars
  <2> QED
    BY <2>1, <1>1, <1>2, <1>5, <1>6 DEF Return, processVars
<1>9. AtTheirCalls' /\ pc'[InitPid] = 2 /\ \A p \in WorkerPids : pc'[p] = pc[p]
  <2>1. last_pid' \in Int /\ last_pid' >= last_pid /\ program' = program
        /\ \A p \in WorkerPids : IsAlive(p)' => IsAlive(p)
    BY <1>2, <1>5, <1>8 DEF IsAlive
  <2> QED
    BY <2>1, <1>1, <1>2, <1>3, InitGoesOn
<1>10. ChildrenSuffice'
  <2>1. pc'[InitPid] # CountAt /\ k # CountAt /\ SpawnsLeft(pc'[InitPid]) = SpawnsLeft(k)
    BY <1>1, <1>3, <1>9, SpawnsAre
  <2> QED
    BY <2>1, <1>2, <1>8 DEF ProgramsInv, ChildrenSuffice
<1>11. OneResource'
  <2>1. IsOpenAt(pc'[InitPid])
    BY <1>3, <1>9 DEF IsOpenAt
  <2> QED
    BY <2>1, <1>2, <1>5, <1>6, <1>7, <1>8, <1>9 DEF OneResource
<1>12. ResultsFit'
  <2>1. \A p \in Pids : ret[p] >= 0
    BY <1>1, <1>3 DEF ProgramsInv, ResultsFit
  <2>2. \A p \in Pids : ret'[p] >= 0
    BY <2>1, <1>5, <1>6, <1>8
  <2> QED
    BY <2>2, <1>1, <1>9 DEF ResultsFit
<1>13. InitIsFree'
  BY <1>1, <1>8 DEF ProgramsInv, InitIsFree, KeepsBlocked
<1>14. \A p \in FirstKind : Through(p)' => Through(p)
  <2>1. \A p \in FirstKind : p \in Pids /\ ret'[p] = ret[p] /\ pc'[p] = pc[p]
    BY <1>3, <1>5, <1>8, <1>9
  <2> QED
    BY <2>1, <1>8 DEF Through, KeepsBlocked
<1>15. CASE program = "sem"
  <2>1. PermitsLeft' = 0
    <3>1. sem \in [SemRids -> SemRecords] /\ sem' = [sem EXCEPT ![v] = [value |-> 0, waiting |-> <<>>]]
      BY <1>2, <1>5, <1>15 DEF SemOpen, SemInv, SemTypes, v
    <3>2. sem'[rid'].value = 0
      BY <3>1, <1>6, <1>8, <1>15
    <3> QED
      BY <3>2 DEF PermitsLeft
  <2>2. PermitsLeft \in Nat
    BY PermitsAreCounted DEF ProgramsInv
  <2>3. PermitsLeft' <= PermitsLeft
    BY <2>1, <2>2
  <2>4. PostsSuffice'
    BY <2>3, <1>2, <1>3, <1>4, <1>9, <1>14, PostsStay
  <2>5. MessagesApart'
    BY <1>2, <1>15 DEF MessagesApart
  <2> QED
    BY <2>4, <2>5, <1>4, <1>9, <1>10, <1>11, <1>12, <1>13 DEF ProgramsInv
<1>16. CASE program = "mq"
  <2>1. Content(mq'[rid']) = <<>>
    <3>1. mq \in [MqRids -> MqType] /\ mq' = [mq EXCEPT ![v] = NewQueue(CAPACITY)]
      BY <1>2, <1>5, <1>16 DEF MqOpen, MqInv, MqTypes, v
    <3>2. mq'[rid'] = NewQueue(CAPACITY)
      BY <3>1, <1>6, <1>8, <1>16
    <3>3. QueueOK(NewQueue(CAPACITY)) /\ NewQueue(CAPACITY).count = 0
      BY ProgramsAssumption, NewQueueOK
    <3> QED
      BY <3>2, <3>3, ContentIs
  <2>2. inbox' = inbox
    BY <1>2, <1>16 DEF MqOpen
  <2>3. {"mq_send"} \in SUBSET ResourceCalls
    BY DEF ResourceCalls
  <2>4. \A p \in FirstKind : InCall(sched', p, {"mq_send"}) => InCall(sched, p, {"mq_send"})
    BY <2>3, <1>3, <1>8, BlockedKeepCalls DEF KeepsCalls
  <2>5. MessagesApart'
    BY <2>1, <2>2, <2>4, <1>2, <1>3, <1>9, <1>14, MessagesStay
  <2>6. PostsSuffice'
    BY <1>2, <1>16 DEF PostsSuffice
  <2> QED
    BY <2>5, <2>6, <1>4, <1>9, <1>10, <1>11, <1>12, <1>13 DEF ProgramsInv
<1> QED
  BY <1>5, <1>15, <1>16

\* Whom a close wakes, and with what.
LEMMA CloseWakes ==
    ASSUME ProgramsInv, Close
    PROVE  /\ rid' = rid /\ pc[InitPid] = CloseAt
           /\ sem_rids' = {} /\ mq_rids' = {} /\ inbox' = inbox
           /\ UNCHANGED <<last_pid, zombies, parent, children, halt>>
           /\ ret' \in [Pids -> Int] /\ ret'[InitPid] = 0
           /\ \E w : /\ Unblocks(sched, sched', w)
                     /\ \A p \in WorkerPids : IF p \in w THEN ret'[p] < 0 ELSE ret'[p] = ret[p]
<1>1. /\ InUserCode /\ me = InitPid /\ InitPid \in Pids /\ pc[InitPid] = CloseAt /\ CloseAt >= 2
  BY InitDoes, WorkersAre DEF Close, Makes, InitAt
<1>2. /\ rid' = rid /\ program \in {"sem", "mq"}
      /\ program = "sem" => SemClose(rid) /\ UNCHANGED mqVars /\ rid \in SemRids
      /\ program = "mq" => MqClose(rid) /\ UNCHANGED semVars /\ rid \in MqRids
  BY <1>1 DEF Close, Makes, OfSem, OfMq, ProgramsInv, OneResource
<1>3. /\ sem_rids = IF program = "sem" THEN {rid} ELSE {}
      /\ mq_rids = IF program = "mq" THEN {rid} ELSE {}
  <2>1. IsOpenAt(pc[InitPid])
    BY <1>1, WorkersAre DEF IsOpenAt
  <2> QED
    BY <2>1 DEF ProgramsInv, OneResource
<1>4. /\ KernelInv /\ SemInv /\ MqInv /\ ret \in [Pids -> Int]
      /\ WorkerPids \subseteq Pids /\ InitPid \notin WorkerPids
  BY WorkersAre DEF ProgramsInv, Inv, KernelInv, KernelTypeOK
<1>5. ~BlockedOnResource(sched, InitPid)
  BY DEF ProgramsInv, InitIsFree
<1>6. CASE program = "sem"
  <2> DEFINE q == sem[rid].waiting
  <2>1. /\ sem_rids' = sem_rids \ {rid} /\ ret' = [p \in Pids |-> SemCloseResult(ToSet(q), p)]
        /\ EndTrap(WakeAll(sched, q)) /\ ptrs' = ptrs - Len(q) /\ UNCHANGED processVars
        /\ UNCHANGED mqVars
    BY <1>2, <1>6 DEF SemClose, SemWokenByClose
  <2>2. q \in Seq(Pids) /\ IsInjective(q) /\ ToSet(q) = BlockedInSem(sched, rid)
    BY <1>2, <1>4, <1>6, SemFacts DEF SemSound, SemWaiters
  <2> HIDE DEF q
  <2>3. \A p \in ToSet(q) : BlockedOnResource(sched, p)
    BY <2>2, CallKinds DEF BlockedInSem, InCall, BlockedOnResource
  <2>4. ret' \in [Pids -> Int]
    BY <2>1, <1>4 DEF SemCloseResult, ESEM_CLOSED
  <2>5. Unblocks(sched, sched', ToSet(q))
    BY <2>1, <2>2, <2>3, <2>4, <1>1, <1>4, UnblockKeepsInv DEF processVars
  <2>6. InitPid \notin ToSet(q)
    BY <2>3, <1>5
  <2>7. /\ ret'[InitPid] = 0
        /\ \A p \in WorkerPids : ret'[p] = IF p \in ToSet(q) THEN ESEM_CLOSED ELSE ret[p]
    BY <2>1, <2>6, <1>1, <1>4 DEF SemCloseResult
  <2>8. \A p \in WorkerPids : IF p \in ToSet(q) THEN ret'[p] < 0 ELSE ret'[p] = ret[p]
    BY <2>7 DEF ESEM_CLOSED
  <2>9. sem_rids' = {} /\ mq_rids' = {} /\ inbox' = inbox
    BY <2>1, <1>3, <1>6 DEF mqVars
  <2> QED
    BY <2>1, <2>4, <2>5, <2>7, <2>8, <2>9, <1>1, <1>2 DEF processVars
<1>7. CASE program = "mq"
  <2> DEFINE q == MqWokenByClose(mq[rid])
  <2>1. /\ mq_rids' = mq_rids \ {rid} /\ ret' = [p \in Pids |-> MqCloseResult(ToSet(q), p)]
        /\ EndTrap(WakeAll(sched, q)) /\ ptrs' = ptrs - Len(q) /\ UNCHANGED processVars
        /\ UNCHANGED semVars /\ inbox' = inbox
    BY <1>2, <1>7 DEF MqClose, FreePtrs
  <2>2. /\ q \in Seq(Pids) /\ IsInjective(q)
        /\ ToSet(q) = BlockedInMq(sched, "mq_send", rid) \cup BlockedInMq(sched, "mq_receive", rid)
    BY <1>2, <1>4, <1>7, BothListsWake
  <2> HIDE DEF q
  <2>3. \A p \in ToSet(q) : BlockedOnResource(sched, p)
    BY <2>2, CallKinds, MqCallsAre DEF BlockedInMq, InCall, BlockedOnResource
  <2>4. ret' \in [Pids -> Int]
    BY <2>1, <1>4 DEF MqCloseResult, EMQ_CLOSED
  <2>5. Unblocks(sched, sched', ToSet(q))
    BY <2>1, <2>2, <2>3, <2>4, <1>1, <1>4, UnblockKeepsInv DEF processVars
  <2>6. InitPid \notin ToSet(q)
    BY <2>3, <1>5
  <2>7. /\ ret'[InitPid] = 0
        /\ \A p \in WorkerPids : ret'[p] = IF p \in ToSet(q) THEN EMQ_CLOSED ELSE ret[p]
    BY <2>1, <2>6, <1>1, <1>4 DEF MqCloseResult
  <2>8. \A p \in WorkerPids : IF p \in ToSet(q) THEN ret'[p] < 0 ELSE ret'[p] = ret[p]
    BY <2>7 DEF EMQ_CLOSED
  <2>9. sem_rids' = {} /\ mq_rids' = {}
    BY <2>1, <1>3, <1>7 DEF semVars
  <2> QED
    BY <2>1, <2>4, <2>5, <2>7, <2>8, <2>9, <1>1, <1>2 DEF processVars
<1> QED
  BY <1>2, <1>6, <1>7

\* A close tells those who wait, and gives nobody a permit or a message.
LEMMA CloseKeeps ==
    ASSUME ProgramsInv, Close
    PROVE  ProgramsInv'
<1> DEFINE k == pc[InitPid]
<1>1. /\ me = InitPid /\ InitPid \in Pids /\ k \in Nat /\ k = CloseAt
      /\ Goes(1) /\ UNCHANGED <<program, alive>>
  BY InitDoes DEF Close, Makes, InitAt
<1>2. /\ rid' = rid /\ sem_rids' = {} /\ mq_rids' = {} /\ inbox' = inbox
      /\ UNCHANGED <<last_pid, zombies, parent, children, halt>>
      /\ ret' \in [Pids -> Int] /\ ret'[InitPid] = 0
  BY CloseWakes
<1>3. PICK w : /\ Unblocks(sched, sched', w)
               /\ \A p \in WorkerPids : IF p \in w THEN ret'[p] < 0 ELSE ret'[p] = ret[p]
  BY CloseWakes
<1>4. /\ WaitAt \in Nat /\ CountAt = WaitAt + 1 /\ CloseAt = WaitAt + 2 /\ WaitAt >= 5
      /\ WorkerPids \subseteq Pids /\ FirstKind \subseteq WorkerPids /\ SecondKind \subseteq WorkerPids
  BY WorkersAre DEF WaitAt
<1>5. Inv'
  BY ProgramsKeepAll DEF ProgramsNext, ProgramStep
<1>6. last_pid \in Int
  BY KernelAssumption DEF ProgramsInv, Inv, KernelInv, KernelTypeOK
<1>7. AtTheirCalls' /\ pc'[InitPid] = k + 1 /\ \A p \in WorkerPids : pc'[p] = pc[p]
  <2>1. last_pid' \in Int /\ last_pid' >= last_pid /\ program' = program
        /\ \A p \in WorkerPids : IsAlive(p)' => IsAlive(p)
    BY <1>1, <1>2, <1>6 DEF IsAlive
  <2> QED
    BY <2>1, <1>1, <1>4, InitGoesOn
<1>8. ChildrenSuffice'
  <2>1. /\ pc'[InitPid] # CountAt /\ k # CountAt /\ SpawnsLeft(pc'[InitPid]) = 0
        /\ SpawnsLeft(k) = 0
    BY <1>1, <1>4, <1>7, SpawnsAre
  <2> QED
    BY <2>1, <1>1, <1>2 DEF ProgramsInv, ChildrenSuffice
<1>9. OneResource'
  <2>1. ~IsOpenAt(pc'[InitPid]) /\ ~(pc'[InitPid] <= 2) /\ k >= 2
    BY <1>1, <1>4, <1>7 DEF IsOpenAt
  <2> QED
    BY <2>1, <1>1, <1>2 DEF ProgramsInv, OneResource
<1>10. ResultsFit'
  <2>1. ~(pc'[InitPid] <= CloseAt)
    BY <1>1, <1>4, <1>7
  <2> QED
    BY <2>1, <1>2 DEF ResultsFit
<1>11. InitIsFree'
  BY <1>1, <1>3 DEF ProgramsInv, InitIsFree, Unblocks
<1>12. ASSUME NEW p \in FirstKind
       PROVE  /\ Through(p)' => Through(p)
              /\ InCall(sched', p, {"mq_send"}) => InCall(sched, p, {"mq_send"})
  <2>1. /\ p \in WorkerPids /\ p \in Pids /\ pc'[p] = pc[p]
        /\ BlockedOnResource(sched', p) <=> BlockedOnResource(sched, p) /\ p \notin w
        /\ BlockedOnResource(sched', p) => sched'.call[p] = sched.call[p]
    BY <1>3, <1>4, <1>7 DEF Unblocks
  <2>2. CASE p \in w
    <3>1. ret'[p] # 0
      BY <2>1, <2>2, <1>3
    <3> QED
      BY <3>1, <2>1, <2>2 DEF Through, InCall, BlockedOnResource, ResourceCalls
  <2>3. CASE p \notin w
    BY <2>1, <2>3, <1>3 DEF Through, InCall, BlockedOnResource, ResourceCalls
  <2> QED
    BY <2>2, <2>3
<1>13. PostsSuffice'
  <2>1. PermitsLeft' = 0
    BY <1>2 DEF PermitsLeft
  <2>2. PermitsLeft \in Nat
    BY PermitsAreCounted DEF ProgramsInv
  <2>3. PermitsLeft' <= PermitsLeft
    BY <2>1, <2>2
  <2> QED
    BY <2>3, <1>1, <1>4, <1>5, <1>7, <1>12, PostsStay
<1>14. MessagesApart'
  BY <1>1, <1>2, <1>4, <1>7, <1>12, MessagesStay
<1> QED
  BY <1>5, <1>7, <1>8, <1>9, <1>10, <1>11, <1>13, <1>14 DEF ProgramsInv

-----------------------------------------------------------------------------
(* The workers                                                             *)

\* What is left to show of a worker's call that moves it on: that its results fit and
\* what went through the resource.
LEMMA WorkerCallKeeps ==
    ASSUME ProgramsInv, Inv', halt = "no", me \in WorkerPids, me < last_pid,
           pc[me] < CallsOf(me), Goes(1),
           UNCHANGED <<program, alive, rid, sem_rids, mq_rids>>,
           UNCHANGED <<last_pid, zombies, parent, children>>,
           ret' \in [Pids -> Int], ret'[InitPid] = ret[InitPid],
           \A p \in Pids : ret'[p] = ret[p] \/ ret'[p] = 0 \/ pc[InitPid] > CloseAt,
           ~BlockedOnResource(sched', InitPid),
           PostsSuffice', MessagesApart'
    PROVE  ProgramsInv'
<1>1. AtTheirCalls' /\ ChildrenSuffice' /\ OneResource' /\ pc'[InitPid] = pc[InitPid]
  BY WorkerGoesOn
<1>2. ResultsFit'
  BY <1>1, ResultsGoOn
<1>3. InitIsFree'
  BY DEF InitIsFree
<1> QED
  BY <1>1, <1>2, <1>3 DEF ProgramsInv

\* The calls a worker makes before its exit are not its last.
LEMMA NotTheLast ==
    ASSUME ProgramsInv, NEW op \in {"wait_sem", "post", "sleep", "receive", "send"}, Does(op)
    PROVE  pc[me] < CallsOf(me)
<1>1. WorkerAt(op, me, pc[me]) /\ pc[me] \in Nat /\ ~(me \in FirstKind /\ me \in SecondKind)
  BY WorkerDoes, WorkersAre
<1> QED
  BY <1>1 DEF WorkerAt, CallsOf

\* There are no more timers than processes.
LEMMA TimersAreFew ==
    ASSUME KernelInv
    PROVE  Len(sched.timers) \in Nat /\ Len(sched.timers) <= MaxPid + 1
<1> DEFINE n == Len(sched.timers)
           owners == [i \in 1 .. n |-> sched.timers[i].pid]
<1>1. sched.timers \in Seq(Timers) /\ Asleep(sched)
  BY InvTypes DEF KernelInv, Settled, Orderly, SchedType
<1>2. n \in Nat /\ DOMAIN sched.timers = 1 .. n /\ \A i \in 1 .. n : sched.timers[i] \in Timers
  BY <1>1, LenProperties, ElementOfSeq
<1>3. owners \in [1 .. n -> Pids]
  BY <1>2 DEF Timers
<1>4. \A i, j \in 1 .. n : owners[i] = owners[j] => i = j
  BY <1>1, <1>2 DEF Asleep
<1> HIDE DEF owners
<1>5. owners \in Seq(Pids) /\ Len(owners) = n /\ DOMAIN owners = 1 .. n
  BY <1>2, <1>3, SeqDef, LenProperties
<1>6. IsInjective(owners)
  BY <1>4, <1>5 DEF IsInjective
<1>7. ToSet(owners) \subseteq Pids /\ Cardinality(ToSet(owners)) = n
  BY <1>5, <1>6, ToSetType, SeqCount
<1>8. IsFiniteSet(Pids) /\ Cardinality(Pids) = MaxPid + 1
  BY KernelAssumption, FS_Interval DEF Pids
<1>9. Cardinality(ToSet(owners)) <= Cardinality(Pids)
  BY <1>7, <1>8, FS_Subset
<1> QED
  BY <1>2, <1>7, <1>8, <1>9

\* The sleep of a worker is not refused.
LEMMA SleepAWhileKeeps ==
    ASSUME ProgramsInv, SleepAWhile
    PROVE  ProgramsInv'
<1> DEFINE n == IF program = "sem" THEN me ELSE 1
<1>1. /\ InUserCode /\ halt = "no" /\ me \in WorkerPids /\ me \in Pids /\ me # InitPid
      /\ me < last_pid /\ pc[me] \in Nat /\ WorkerAt("sleep", me, pc[me])
  BY WorkerDoes DEF SleepAWhile, Makes
<1>2. Sleep(n) /\ Goes(1) /\ UNCHANGED <<semVars, mqVars, program, alive, rid>>
  BY DEF SleepAWhile, Makes, OfKernel
<1>3. SleepError(n) = 0
  <2>1. me \notin sched.armed
    <3>1. sched.status[me] = "Running" /\ Asleep(sched)
      BY <1>1 DEF ProgramsInv, Inv, KernelInv, Settled, Orderly, RunsAlone, me
    <3> QED
      BY <3>1 DEF Asleep
  <2>2. n \in Nat
    BY <1>1, WorkersAre
  <2>3. Len(sched.timers) # MaxProcs
    <3>1. Len(sched.timers) \in Nat /\ Len(sched.timers) <= MaxPid + 1
      BY TimersAreFew DEF ProgramsInv, Inv
    <3>2. MaxProcs \in Nat /\ MaxProcs >= 4 * Workers /\ MaxPid = 2 * Workers
          /\ Workers \in Nat /\ Workers >= 1
      BY ProgramsAssumption, KernelAssumption
    <3> QED
      BY <3>1, <3>2
  <2> HIDE DEF n
  <2> QED
    BY <2>1, <2>2, <2>3 DEF SleepError
<1>4. UNCHANGED <<last_pid, zombies, parent, children, ret, halt, sem_rids, mq_rids>>
  BY <1>2, <1>3 DEF Sleep, SleepRefused, SleepBlocks, semVars, mqVars
<1>5. Inv' /\ KernelNext
  <2>1. n \in SleepArgs
    <3>1. me \in 1 .. MaxPid /\ 1 \in 1 .. MaxPid
      BY <1>1, WorkersAre DEF WorkerPids
    <3> QED
      BY <3>1, ProgramsAssumption
  <2> HIDE DEF n
  <2> QED
    BY <2>1, <1>2, ProgramsKeepAll DEF ProgramsNext, ProgramStep, KernelNext, SystemCall
<1>6. pc[me] < CallsOf(me)
  BY NotTheLast DEF SleepAWhile, Makes
<1>7. pc'[me] = pc[me] + 1 /\ \A p \in Pids : p # me => pc'[p] = pc[p]
  BY <1>1, <1>2, <1>4, <1>6, WorkerGoesOn
<1>8. InitIsFree' /\ PostsSuffice' /\ MessagesApart'
  <2>1. /\ FirstKind \subseteq Pids /\ SecondKind \subseteq Pids /\ WorkerPids \subseteq Pids
        /\ me \in FirstKind => me \notin SecondKind
    BY WorkersAre
  <2>2. ASSUME NEW p \in FirstKind PROVE pc'[p] > 1 => pc[p] > 1
    BY <2>1, <2>2, <1>1, <1>7 DEF WorkerAt
  <2>3. ASSUME NEW p \in SecondKind
        PROVE  (pc[p] > 1 => pc'[p] > 1) /\ (pc[p] >= 3 => pc'[p] >= 3)
    BY <2>1, <2>3, <1>1, <1>7
  <2> QED
    BY <2>2, <2>3, <1>2, <1>4, <1>5, QuietStep
<1>9. ret \in [Pids -> Int]
  BY DEF ProgramsInv, Inv, KernelInv, KernelTypeOK
<1>10. ~BlockedOnResource(sched', InitPid)
  BY <1>8 DEF InitIsFree
<1> QED
  BY <1>1, <1>2, <1>4, <1>5, <1>6, <1>8, <1>9, <1>10, WorkerCallKeeps

\* A worker that exits was at its last call; its children, if any, become init's.
LEMMA ExitWorkerKeeps ==
    ASSUME ProgramsInv, ExitWorker
    PROVE  ProgramsInv'
<1>1. /\ halt = "no" /\ me \in WorkerPids /\ me \in Pids /\ me # InitPid /\ InitPid \in Pids
      /\ me < last_pid /\ pc[me] \in Nat /\ WorkerAt("exit", me, pc[me])
  BY WorkerDoes, WorkersAre DEF ExitWorker
<1>2. /\ Exit /\ Goes(1) /\ UNCHANGED <<semVars, mqVars, program, alive, rid>>
      /\ Orphans(me) /\ zombies' = zombies \cup {me} /\ UNCHANGED <<last_pid, ret, halt>>
  BY DEF ExitWorker, OfKernel, Exit
<1>3. /\ KernelInv /\ WorkerPids \subseteq Pids /\ WorkerPids \subseteq Int
      /\ children \in [Pids -> Seq(Pids)] /\ last_pid \in Int
      /\ FirstKind \subseteq Pids /\ SecondKind \subseteq Pids
  BY WorkersAre, InvTypes, KernelAssumption DEF ProgramsInv, Inv, KernelInv, KernelTypeOK
<1>4. Inv' /\ KernelNext
  BY <1>2, ProgramsKeepAll DEF ProgramsNext, ProgramStep, KernelNext, SystemCall
<1>5. /\ pc' \in [Pids -> Nat] /\ pc'[me] = pc[me] + 1
      /\ \A p \in Pids : p # me => pc'[p] = pc[p]
      /\ pc'[InitPid] = pc[InitPid]
  <2>1. 1 \in Int /\ pc[me] + 1 \in Nat
    BY <1>1
  <2> QED
    BY <2>1, <1>1, <1>2, PcMoves
<1>6. \A p \in WorkerPids : IsAlive(p)' => IsAlive(p) /\ p # me
  <2>1. ASSUME NEW p \in WorkerPids, parent'[p] # NoPid PROVE parent[p] # NoPid
    <3>1. parent'[p] = IF p \in ToSet(children[me]) THEN InitPid ELSE parent[p]
      BY <1>2, <1>3 DEF Orphans
    <3>2. p \in ToSet(children[me]) => parent[p] = me
      BY <1>1, <1>3, Family
    <3>3. NoPid \notin Pids
      BY WorkersAre
    <3> QED
      BY <2>1, <3>1, <3>2, <3>3, <1>1
  <2> QED
    BY <2>1, <1>2 DEF IsAlive
<1>7. AtTheirCalls'
  <2>1. ASSUME NEW p \in WorkerPids
        PROVE  /\ pc'[p] >= 1
               /\ IsAlive(p)' => pc'[p] <= CallsOf(p)'
               /\ p >= last_pid' => pc'[p] = 1
    <3>1. CallsOf(p)' = CallsOf(p) /\ CallsOf(p) \in {2, 3}
      BY <1>2 DEF CallsOf
    <3>2. /\ pc[p] \in Nat /\ pc[p] >= 1 /\ (IsAlive(p) => pc[p] <= CallsOf(p))
          /\ (p >= last_pid => pc[p] = 1)
      BY <1>3 DEF ProgramsInv, AtTheirCalls
    <3>3. CASE p = me
      BY <3>1, <3>2, <3>3, <1>1, <1>2, <1>3, <1>5, <1>6
    <3>4. CASE p # me
      BY <3>1, <3>2, <3>4, <1>2, <1>3, <1>5, <1>6
    <3> QED
      BY <3>3, <3>4
  <2> QED
    BY <2>1, <1>2, <1>5 DEF ProgramsInv, AtTheirCalls
<1>8. ChildrenSuffice'
  <2> DEFINE own == children[me]
             inits == children[InitPid]
  <2>1. own \in Seq(Pids) /\ inits \in Seq(Pids)
    BY <1>1, <1>3
  <2>2. children'[InitPid] = inits \o own
    BY <1>1, <1>2, <1>3 DEF Orphans
  <2> HIDE DEF own, inits
  <2>3. /\ Len(inits \o own) = Len(inits) + Len(own) /\ Len(own) \in Nat /\ Len(inits) \in Nat
    BY ONLY <2>1, ConcatProperties, LenProperties
  <2>4. Len(children'[InitPid]) >= Len(children[InitPid]) /\ Len(children'[InitPid]) \in Nat
        /\ Len(children[InitPid]) \in Nat
    BY <2>2, <2>3 DEF inits
  <2>5. SpawnsLeft(pc[InitPid]) \in Nat /\ alive \in Nat
    BY <1>1, SpawnsAre DEF ProgramsInv, ChildrenSuffice, AtTheirCalls
  <2> QED
    BY <2>4, <2>5, <1>2, <1>5 DEF ProgramsInv, ChildrenSuffice
<1>9. OneResource'
  BY <1>2, <1>5 DEF ProgramsInv, OneResource, semVars, mqVars
<1>10. ResultsFit'
  BY <1>2, <1>5 DEF ProgramsInv, ResultsFit
<1>11. InitIsFree' /\ PostsSuffice' /\ MessagesApart'
  <2>1. ASSUME NEW p \in FirstKind PROVE pc'[p] > 1 => pc[p] > 1
    BY <2>1, <1>1, <1>3, <1>5 DEF WorkerAt
  <2>2. ASSUME NEW p \in SecondKind
        PROVE  (pc[p] > 1 => pc'[p] > 1) /\ (pc[p] >= 3 => pc'[p] >= 3)
    BY <2>2, <1>1, <1>3, <1>5
  <2> QED
    BY <2>1, <2>2, <1>2, <1>4, QuietStep
<1> QED
  BY <1>4, <1>7, <1>8, <1>9, <1>10, <1>11 DEF ProgramsInv

\* The common pool has a block for everybody who may block: each worker holds one as a
\* child and one as a waiter at most, and the one that runs does not wait.
LEMMA PtrsAreLeft ==
    ASSUME ProgramsInv, InUserCode, me \in WorkerPids
    PROVE  ptrs # MaxProcs
<1>1. KernelInv /\ me \in Pids /\ sched.status[me] = "Running"
  BY TheRunningLives DEF ProgramsInv, Inv
<1>2. HaveParent \subseteq WorkerPids
  <2>1. parent[InitPid] = NoPid
    BY <1>1, Family, WorkersAre
  <2> QED
    BY <2>1, WorkersAre DEF HaveParent
<1>3. Linked \subseteq WorkerPids \ {me}
  <2>1. ~BlockedOnResource(sched, InitPid) /\ ~BlockedOnResource(sched, me)
    BY <1>1 DEF ProgramsInv, InitIsFree, BlockedOnResource
  <2> QED
    BY <2>1, WorkersAre DEF Linked
<1>4. Workers \in Nat /\ MaxProcs \in Nat /\ MaxProcs >= 4 * Workers /\ MaxPid = 2 * Workers
      /\ Workers >= 1
  BY ProgramsAssumption, KernelAssumption
<1>5. IsFiniteSet(WorkerPids) /\ Cardinality(WorkerPids) = 2 * Workers
  <2>1. 2 * Workers \in Int /\ 1 \in Int /\ WorkerPids = 1 .. 2 * Workers
    BY <1>4 DEF WorkerPids
  <2> QED
    BY <2>1, <1>4, FS_Interval
<1>6. /\ Cardinality(HaveParent) \in Nat /\ Cardinality(HaveParent) <= 2 * Workers
      /\ Cardinality(Linked) \in Nat /\ Cardinality(Linked) <= 2 * Workers - 1
  <2>1. IsFiniteSet(WorkerPids \ {me}) /\ Cardinality(WorkerPids \ {me}) = 2 * Workers - 1
    BY <1>5, FS_RemoveElement
  <2> QED
    BY <2>1, <1>1, <1>2, <1>3, <1>5, LinksFinite, FS_Subset
<1>7. ptrs = Cardinality(HaveParent) + Cardinality(Linked)
  BY <1>1 DEF KernelInv, LinksCounted
<1> QED
  BY <1>4, <1>6, <1>7

\* One more waiter gets through.
LEMMA OneMoreThrough ==
    ASSUME NEW w, \A p \in FirstKind : Through(p)' => Through(p) \/ p = w
    PROVE  Cardinality({p \in FirstKind : Through(p)'})
             <= Cardinality({p \in FirstKind : Through(p)}) + 1
<1> DEFINE T == {p \in FirstKind : Through(p)}
           U == {p \in FirstKind : Through(p)'}
<1>1. U \subseteq T \cup {w} /\ T \subseteq FirstKind /\ U \subseteq FirstKind
  OBVIOUS
<1> HIDE DEF T, U
<1>2. /\ IsFiniteSet(T) /\ Cardinality(T) \in Nat /\ Cardinality(U) \in Nat
  BY <1>1, WorkersAreCounted
<1>3. /\ IsFiniteSet(T \cup {w}) /\ Cardinality(T \cup {w}) <= Cardinality(T) + 1
      /\ Cardinality(T \cup {w}) \in Nat
  BY <1>2, FS_AddElement
<1>4. Cardinality(U) <= Cardinality(T \cup {w})
  BY <1>1, <1>3, FS_Subset
<1>5. Cardinality(U) <= Cardinality(T) + 1
  BY <1>2, <1>3, <1>4
<1> QED
  BY <1>5 DEF T, U

\* One more poster has posted.
LEMMA OneMorePosted ==
    ASSUME NEW w \in SecondKind, pc[w] = 2, pc'[w] = 3,
           \A p \in SecondKind : p # w => pc'[p] = pc[p]
    PROVE  Cardinality({p \in SecondKind : pc'[p] >= 3})
             = Cardinality({p \in SecondKind : pc[p] >= 3}) + 1
<1> DEFINE P == {p \in SecondKind : pc[p] >= 3}
           Q == {p \in SecondKind : pc'[p] >= 3}
<1>1. Q = P \cup {w} /\ w \notin P /\ P \subseteq SecondKind
  OBVIOUS
<1> HIDE DEF P, Q
<1>2. IsFiniteSet(P)
  BY <1>1, WorkersAreCounted
<1>3. Cardinality(Q) = Cardinality(P) + 1
  BY <1>1, <1>2, FS_AddElement
<1> QED
  BY <1>3 DEF P, Q

\* The sums of the posts as numbers, before a step.
LEMMA SumsAreNumbers ==
    ASSUME Inv
    PROVE  /\ Cardinality({p \in FirstKind : Through(p)}) \in Nat
           /\ Cardinality({p \in SecondKind : pc[p] >= 3}) \in Nat
           /\ PermitsLeft \in Nat
<1> DEFINE T == {p \in FirstKind : Through(p)}
           P == {p \in SecondKind : pc[p] >= 3}
<1>1. T \subseteq FirstKind /\ P \subseteq SecondKind
  OBVIOUS
<1> HIDE DEF T, P
<1>2. Cardinality(T) \in Nat /\ Cardinality(P) \in Nat /\ PermitsLeft \in Nat
  BY <1>1, WorkersAreCounted, PermitsAreCounted
<1> QED
  BY <1>2 DEF T, P

\* What a call of the resource finds when it names none: init has closed it.
LEMMA ClosedBefore ==
    ASSUME ProgramsInv, pc[InitPid] \in Nat, pc[InitPid] >= 3, rid \notin sem_rids \cup mq_rids
    PROVE  pc[InitPid] > CloseAt
<1>1. ~IsOpenAt(pc[InitPid])
  BY DEF ProgramsInv, OneResource
<1> QED
  BY <1>1, WorkersAre DEF IsOpenAt

\* The wait of a waiter takes a permit, blocks, or finds the semaphore closed.
LEMMA WaitSemKeeps ==
    ASSUME ProgramsInv, WaitSem
    PROVE  ProgramsInv'
<1>1. /\ InUserCode /\ halt = "no" /\ me \in WorkerPids /\ me \in Pids /\ me # InitPid
      /\ me < last_pid /\ WorkerAt("wait_sem", me, pc[me])
      /\ pc[InitPid] \in Nat /\ pc[InitPid] >= 3
  BY WorkerDoes DEF WaitSem, Makes
<1>2. /\ program = "sem" /\ me \in FirstKind /\ pc[me] = 1 /\ rid \in SemRids /\ mq_rids = {}
  BY <1>1, WorkerDoes DEF WaitSem, Makes, WorkerAt, ProgramsInv, OneResource
<1>3. /\ SemWait(rid) \/ SemUnknown(rid)
      /\ Goes(1) /\ UNCHANGED <<mqVars, program, alive, rid>>
  BY DEF WaitSem, Makes, OfSem
<1>4. Inv' /\ pc[me] < CallsOf(me)
  BY NotTheLast, ProgramsKeepAll DEF ProgramsNext, ProgramStep, WaitSem, Makes
<1>5. /\ KernelInv /\ SemInv /\ ret \in [Pids -> Int] /\ ~BlockedOnResource(sched, InitPid)
      /\ FirstKind \subseteq Pids /\ SecondKind \subseteq Pids /\ me \notin SecondKind
      /\ InitPid \in Pids
  BY <1>2, WorkersAre DEF ProgramsInv, Inv, KernelInv, KernelTypeOK, InitIsFree
<1>6. /\ pc'[me] = 2 /\ \A p \in Pids : p # me => pc'[p] = pc[p]
  <2>1. 1 \in Int /\ pc[me] + 1 \in Nat
    BY <1>2
  <2> QED
    BY <2>1, <1>1, <1>2, <1>3, PcMoves
<1>7. MessagesApart'
  BY <1>2, <1>3 DEF MessagesApart
<1>8. \A p \in SecondKind : pc'[p] = pc[p]
  BY <1>5, <1>6
<1>9. CASE SemWaitPasses(rid)
  <2>1. /\ Return(0) /\ UNCHANGED <<processVars, ptrs, sem_rids>>
        /\ rid \in sem_rids /\ sem[rid].value > 0 /\ sem' = [sem EXCEPT ![rid].value = @ - 1]
    BY <1>9 DEF SemWaitPasses
  <2>2. ret' = [ret EXCEPT ![me] = 0] /\ KeepsBlocked(sched, sched')
    <3>1. 0 \in Int
      OBVIOUS
    <3> QED
      BY <3>1, <2>1, <1>5, ReturnKeepsInv DEF Return, processVars
  <2>3. PermitsLeft' = PermitsLeft - 1
    <3>1. sem'[rid].value = sem[rid].value - 1 /\ sem[rid].value \in Int
      BY <2>1, <1>2, <1>5, SemFacts DEF SemRecords
    <3> QED
      BY <3>1, <2>1, <1>3 DEF PermitsLeft
  <2>4. \A p \in FirstKind : Through(p)' => Through(p) \/ p = me
    BY <2>2, <1>5, <1>6 DEF Through, KeepsBlocked
  <2>5. PostsSuffice'
    <3> DEFINE t == Cardinality({p \in FirstKind : Through(p)})
               u == Cardinality({p \in FirstKind : Through(p)'})
               s == Cardinality({p \in SecondKind : pc[p] >= 3})
               x == Cardinality({p \in SecondKind : pc'[p] >= 3})
    <3>1. u <= t + 1
      BY <2>4, OneMoreThrough
    <3>2. t + PermitsLeft <= s
      BY <1>2 DEF ProgramsInv, PostsSuffice
    <3>3. s = x
      BY <1>8
    <3>4. t \in Nat /\ s \in Nat /\ PermitsLeft \in Nat
      BY SumsAreNumbers DEF ProgramsInv
    <3>5. u \in Nat
      <4>1. {p \in FirstKind : Through(p)'} \subseteq FirstKind
        OBVIOUS
      <4> QED
        BY <4>1, WorkersAreCounted
    <3> HIDE DEF t, u, s, x
    <3>6. u + PermitsLeft' <= x
      BY <3>1, <3>2, <3>3, <3>4, <3>5, <2>3
    <3> QED
      BY <3>6 DEF PostsSuffice, u, x
  <2>6. /\ ret' \in [Pids -> Int] /\ ret'[InitPid] = ret[InitPid]
        /\ \A p \in Pids : ret'[p] = ret[p] \/ ret'[p] = 0
        /\ ~BlockedOnResource(sched', InitPid)
    BY <2>2, <1>1, <1>5 DEF KeepsBlocked
  <2> QED
    BY <2>1, <2>5, <2>6, <1>1, <1>3, <1>4, <1>7, WorkerCallKeeps DEF processVars, mqVars
<1>10. CASE SemWaitBlocks(rid)
  <2>1. /\ rid \in sem_rids /\ sem[rid].value <= 0 /\ ptrs < MaxProcs /\ ptrs' = ptrs + 1
        /\ EndTrap(ParkAndPop(sched, "sem_wait", rid))
        /\ sem' = [sem EXCEPT ![rid].value = @ - 1, ![rid].waiting = Append(@, me)]
        /\ UNCHANGED <<processVars, ret, sem_rids>>
    BY <1>10 DEF SemWaitBlocks, Enqueue
  <2>2. Blocks(sched, sched', me, [num |-> "sem_wait", arg |-> rid])
    <3>1. rid \in Nat /\ "sem_wait" \in ResourceCalls
      BY <1>2, <1>5, SemFacts DEF ResourceCalls
    <3> QED
      BY <3>1, <2>1, <1>1, <1>5, BlockKeepsInv DEF processVars
  <2>3. PermitsLeft' <= PermitsLeft
    <3>1. sem'[rid].value = sem[rid].value - 1 /\ sem[rid].value \in Int
      BY <2>1, <1>2, <1>5, SemFacts DEF SemRecords
    <3> QED
      BY <3>1, <2>1, <1>3 DEF PermitsLeft
  <2>4. \A p \in FirstKind : Through(p)' => Through(p)
    BY <2>1, <2>2, <1>1, <1>5, <1>6 DEF Through, Blocks
  <2>5. PostsSuffice'
    BY <2>3, <2>4, <1>3, <1>4, <1>8, PostsStay
  <2>6. ~BlockedOnResource(sched', InitPid)
    BY <2>2, <1>1, <1>5 DEF Blocks
  <2> QED
    BY <2>1, <2>5, <2>6, <1>1, <1>3, <1>4, <1>5, <1>7, WorkerCallKeeps DEF processVars, mqVars
<1>11. ~SemWaitWithoutPtr(rid)
  BY <1>1, PtrsAreLeft DEF SemWaitWithoutPtr
<1>12. CASE SemUnknown(rid)
  <2>1. /\ rid \notin sem_rids /\ Return(EINVAL)
        /\ UNCHANGED <<processVars, ptrs, semVars>>
    BY <1>12 DEF SemUnknown
  <2>2. ret' = [ret EXCEPT ![me] = EINVAL] /\ EINVAL \in Int /\ EINVAL # 0
        /\ KeepsBlocked(sched, sched')
    <3>1. EINVAL \in Int /\ EINVAL # 0
      BY DEF EINVAL
    <3> QED
      BY <3>1, <2>1, <1>5, ReturnKeepsInv DEF Return, processVars
  <2>3. pc[InitPid] > CloseAt
    BY <2>1, <1>1, <1>2, ClosedBefore
  <2>4. PermitsLeft' <= PermitsLeft
    <3>1. PermitsLeft' = PermitsLeft /\ PermitsLeft \in Nat
      BY <2>1, <1>3, SumsAreNumbers DEF PermitsLeft, semVars, ProgramsInv
    <3> QED
      BY <3>1
  <2>5. \A p \in FirstKind : Through(p)' => Through(p)
    BY <2>2, <1>1, <1>5, <1>6 DEF Through, KeepsBlocked
  <2>6. PostsSuffice'
    BY <2>4, <2>5, <1>3, <1>4, <1>8, PostsStay
  <2>7. /\ ret' \in [Pids -> Int] /\ ret'[InitPid] = ret[InitPid]
        /\ ~BlockedOnResource(sched', InitPid)
    BY <2>2, <1>1, <1>5 DEF KeepsBlocked
  <2> QED
    BY <2>1, <2>3, <2>6, <2>7, <1>1, <1>3, <1>4, <1>7, WorkerCallKeeps
       DEF processVars, semVars, mqVars
<1> QED
  BY <1>3, <1>9, <1>10, <1>11, <1>12 DEF SemWait

\* A post makes a permit or wakes one waiter, and is one more post.
LEMMA PostKeeps ==
    ASSUME ProgramsInv, Post
    PROVE  ProgramsInv'
<1>1. /\ InUserCode /\ halt = "no" /\ me \in WorkerPids /\ me \in Pids /\ me # InitPid
      /\ me < last_pid /\ WorkerAt("post", me, pc[me])
      /\ pc[InitPid] \in Nat /\ pc[InitPid] >= 3
  BY WorkerDoes DEF Post, Makes
<1>2. /\ program = "sem" /\ me \in SecondKind /\ pc[me] = 2 /\ rid \in SemRids /\ mq_rids = {}
  BY <1>1, WorkerDoes DEF Post, Makes, WorkerAt, ProgramsInv, OneResource
<1>3. /\ SemPost(rid) \/ SemUnknown(rid)
      /\ Goes(1) /\ UNCHANGED <<mqVars, program, alive, rid>>
  BY DEF Post, Makes, OfSem
<1>4. Inv' /\ pc[me] < CallsOf(me)
  BY NotTheLast, ProgramsKeepAll DEF ProgramsNext, ProgramStep, Post, Makes
<1>5. /\ KernelInv /\ SemInv /\ ret \in [Pids -> Int] /\ ~BlockedOnResource(sched, InitPid)
      /\ FirstKind \subseteq Pids /\ SecondKind \subseteq Pids /\ me \notin FirstKind
      /\ InitPid \in Pids
  BY <1>2, WorkersAre DEF ProgramsInv, Inv, KernelInv, KernelTypeOK, InitIsFree
<1>6. /\ pc'[me] = 3 /\ \A p \in Pids : p # me => pc'[p] = pc[p]
  <2>1. 1 \in Int /\ pc[me] + 1 \in Nat
    BY <1>2
  <2> QED
    BY <2>1, <1>1, <1>2, <1>3, PcMoves
<1>7. MessagesApart'
  BY <1>2, <1>3 DEF MessagesApart
<1> DEFINE t == Cardinality({p \in FirstKind : Through(p)})
           u == Cardinality({p \in FirstKind : Through(p)'})
           s == Cardinality({p \in SecondKind : pc[p] >= 3})
           x == Cardinality({p \in SecondKind : pc'[p] >= 3})
<1>8. /\ x = s + 1 /\ t \in Nat /\ s \in Nat /\ PermitsLeft \in Nat /\ t + PermitsLeft <= s
  <2>1. x = s + 1
    BY <1>2, <1>5, <1>6, OneMorePosted
  <2>2. t \in Nat /\ s \in Nat /\ PermitsLeft \in Nat
    BY SumsAreNumbers DEF ProgramsInv
  <2>3. t + PermitsLeft <= s
    BY <1>2 DEF ProgramsInv, PostsSuffice
  <2> QED
    BY <2>1, <2>2, <2>3
<1>9. \A w : (\A p \in FirstKind : Through(p)' => Through(p) \/ p = w) => u <= t + 1
  <2> SUFFICES ASSUME NEW w, \A p \in FirstKind : Through(p)' => Through(p) \/ p = w
               PROVE  u <= t + 1
    OBVIOUS
  <2> QED
    BY OneMoreThrough
<1>10. (\A p \in FirstKind : Through(p)' => Through(p)) => u <= t
  <2> DEFINE T == {p \in FirstKind : Through(p)}
             U == {p \in FirstKind : Through(p)'}
  <2> SUFFICES ASSUME \A p \in FirstKind : Through(p)' => Through(p) PROVE u <= t
    OBVIOUS
  <2>1. U \subseteq T /\ T \subseteq FirstKind
    OBVIOUS
  <2> HIDE DEF T, U
  <2>2. Cardinality(U) <= Cardinality(T)
    BY <2>1, WorkersAreCounted, FS_Subset
  <2> QED
    BY <2>2 DEF T, U
<1>11. u \in Nat
  <2>1. {p \in FirstKind : Through(p)'} \subseteq FirstKind
    OBVIOUS
  <2> QED
    BY <2>1, WorkersAreCounted
<1>12. u + PermitsLeft' <= x => PostsSuffice'
  BY DEF PostsSuffice
<1> HIDE DEF t, u, s, x
<1>13. CASE SemPostCounts(rid)
  <2>1. /\ Return(0) /\ UNCHANGED <<processVars, ptrs, sem_rids>>
        /\ rid \in sem_rids /\ sem[rid].value >= 0 /\ sem' = [sem EXCEPT ![rid].value = @ + 1]
    BY <1>13 DEF SemPostCounts
  <2>2. ret' = [ret EXCEPT ![me] = 0] /\ KeepsBlocked(sched, sched')
    <3>1. 0 \in Int
      OBVIOUS
    <3> QED
      BY <3>1, <2>1, <1>5, ReturnKeepsInv DEF Return, processVars
  <2>3. PermitsLeft' = PermitsLeft + 1
    <3>1. sem'[rid].value = sem[rid].value + 1 /\ sem[rid].value \in Int
      BY <2>1, <1>2, <1>5, SemFacts DEF SemRecords
    <3> QED
      BY <3>1, <2>1, <1>3 DEF PermitsLeft
  <2>4. \A p \in FirstKind : Through(p)' => Through(p)
    BY <2>2, <1>5, <1>6 DEF Through, KeepsBlocked
  <2>5. PostsSuffice'
    BY <2>3, <2>4, <1>8, <1>10, <1>11, <1>12
  <2>6. /\ ret' \in [Pids -> Int] /\ ret'[InitPid] = ret[InitPid]
        /\ \A p \in Pids : ret'[p] = ret[p] \/ ret'[p] = 0
        /\ ~BlockedOnResource(sched', InitPid)
    BY <2>2, <1>1, <1>5 DEF KeepsBlocked
  <2> QED
    BY <2>1, <2>5, <2>6, <1>1, <1>3, <1>4, <1>7, WorkerCallKeeps DEF processVars, mqVars
<1>14. CASE SemPostWakes(rid)
  <2> DEFINE w == Head(sem[rid].waiting)
             q == <<w>>
  <2>1. /\ rid \in sem_rids /\ sem[rid].value < 0 /\ sem[rid].waiting # <<>>
        /\ ptrs' = ptrs - 1 /\ EndTrap(WakeAll(sched, q))
        /\ sem' = [sem EXCEPT ![rid].value = @ + 1, ![rid].waiting = Tail(@)]
        /\ ret' = [ret EXCEPT ![w] = 0, ![me] = 0]
        /\ UNCHANGED <<processVars, sem_rids>>
    BY <1>14 DEF SemPostWakes, Dequeue
  <2>2. w \in Pids /\ BlockedOnResource(sched, w)
    <3>1. /\ sem[rid].waiting \in Seq(Pids) /\ IsInjective(sem[rid].waiting)
          /\ ToSet(sem[rid].waiting) = BlockedInSem(sched, rid)
      BY <1>2, <1>5, SemFacts DEF SemSound, SemWaiters
    <3>2. w \in BlockedInSem(sched, rid)
      BY <3>1, <2>1, SeqTail
    <3> QED
      BY <3>2, CallKinds DEF BlockedInSem, InCall, BlockedOnResource
  <2> HIDE DEF w
  <2>3. q \in Seq(Pids) /\ IsInjective(q) /\ ToSet(q) = {w} /\ Len(q) = 1
    BY <2>2 DEF IsInjective, ToSet
  <2> HIDE DEF q
  <2>4. /\ ret' \in [Pids -> Int] /\ w # InitPid
        /\ \A p \in Pids : ret'[p] = IF p \in {w, me} THEN 0 ELSE ret[p]
    BY <2>1, <2>2, <1>1, <1>5
  <2>5. Unblocks(sched, sched', {w})
    BY <2>1, <2>2, <2>3, <2>4, <1>1, <1>5, UnblockKeepsInv DEF processVars
  <2>6. PermitsLeft' = 0 /\ PermitsLeft = 0
    <3>1. sem'[rid].value = sem[rid].value + 1 /\ sem[rid].value \in Int
      BY <2>1, <1>2, <1>5, SemFacts DEF SemRecords
    <3> QED
      BY <3>1, <2>1, <1>3 DEF PermitsLeft
  <2>7. \A p \in FirstKind : Through(p)' => Through(p) \/ p = w
    BY <2>4, <2>5, <1>5, <1>6 DEF Through, Unblocks
  <2>8. PostsSuffice'
    BY <2>6, <2>7, <1>8, <1>9, <1>11, <1>12
  <2>9. /\ ret'[InitPid] = ret[InitPid] /\ ~BlockedOnResource(sched', InitPid)
        /\ \A p \in Pids : ret'[p] = ret[p] \/ ret'[p] = 0
    BY <2>4, <2>5, <1>1, <1>5 DEF Unblocks
  <2> QED
    BY <2>1, <2>4, <2>8, <2>9, <1>1, <1>3, <1>4, <1>7, WorkerCallKeeps DEF processVars, mqVars
<1>15. CASE SemPostWithoutWaiter(rid)
  <2>1. UNCHANGED <<sched, last_pid, zombies, parent, children, ret, semVars, sem_rids>>
    BY <1>15 DEF SemPostWithoutWaiter, Stop, semVars
  <2>2. PermitsLeft' = PermitsLeft
    BY <2>1, <1>3 DEF PermitsLeft, semVars
  <2>3. \A p \in FirstKind : Through(p)' => Through(p)
    BY <2>1, <1>5, <1>6 DEF Through
  <2>4. PostsSuffice'
    BY <2>2, <2>3, <1>8, <1>10, <1>11, <1>12
  <2> QED
    BY <2>1, <2>4, <1>1, <1>3, <1>4, <1>5, <1>7, WorkerCallKeeps DEF mqVars
<1>16. CASE SemUnknown(rid)
  <2>1. /\ rid \notin sem_rids /\ Return(EINVAL) /\ UNCHANGED sem_rids
        /\ UNCHANGED <<processVars, ptrs, semVars>>
    BY <1>16 DEF SemUnknown, semVars
  <2>2. ret' = [ret EXCEPT ![me] = EINVAL] /\ EINVAL \in Int /\ KeepsBlocked(sched, sched')
    <3>1. EINVAL \in Int
      BY DEF EINVAL
    <3> QED
      BY <3>1, <2>1, <1>5, ReturnKeepsInv DEF Return, processVars
  <2>3. pc[InitPid] > CloseAt
    BY <2>1, <1>1, <1>2, ClosedBefore
  <2>4. PermitsLeft' = PermitsLeft
    BY <2>1, <1>3 DEF PermitsLeft, semVars
  <2>5. \A p \in FirstKind : Through(p)' => Through(p)
    BY <2>2, <1>5, <1>6 DEF Through, KeepsBlocked
  <2>6. PostsSuffice'
    BY <2>4, <2>5, <1>8, <1>10, <1>11, <1>12
  <2>7. /\ ret' \in [Pids -> Int] /\ ret'[InitPid] = ret[InitPid]
        /\ ~BlockedOnResource(sched', InitPid)
    BY <2>2, <1>1, <1>5 DEF KeepsBlocked
  <2> QED
    BY <2>1, <2>3, <2>6, <2>7, <1>1, <1>3, <1>4, <1>7, WorkerCallKeeps DEF processVars, mqVars
<1> QED
  BY <1>3, <1>13, <1>14, <1>15, <1>16 DEF SemPost

\* What the invariant says of the messages, in the queue test.
LEMMA MessagesAre ==
    ASSUME ProgramsInv, program = "mq"
    PROVE  /\ \A p \in FirstKind :
                /\ ~InCall(sched, p, {"mq_send"})
                /\ Through(p) => inbox[p] # NoMessage
                /\ inbox[p] # NoMessage => /\ IsSent(inbox[p])
                                           /\ \A q \in FirstKind \ {p} : inbox[q] # inbox[p]
           /\ rid \in mq_rids =>
                /\ IsInjective(Content(mq[rid]))
                /\ \A m \in ToSet(Content(mq[rid])) :
                      IsSent(m) /\ \A p \in FirstKind : inbox[p] # m
BY DEF ProgramsInv, MessagesApart

\* Once the step is made, m is the message of a producer that has sent it.
WillBeSent(m) == m \in SecondKind /\ pc'[m] > 1

\* What a step keeps of the messages, receiver by receiver and in the ring.
LEMMA MessagesKept ==
    ASSUME \A p \in FirstKind :
             /\ ~InCall(sched', p, {"mq_send"})
             /\ Through(p)' => inbox'[p] # NoMessage
             /\ inbox'[p] # NoMessage => /\ WillBeSent(inbox'[p])
                                         /\ \A q \in FirstKind \ {p} : inbox'[q] # inbox'[p],
           rid' \in mq_rids' =>
             /\ IsInjective(Content(mq'[rid']))
             /\ \A m \in ToSet(Content(mq'[rid'])) :
                   WillBeSent(m) /\ \A p \in FirstKind : inbox'[p] # m
    PROVE  MessagesApart'
BY DEF MessagesApart, IsSent, WillBeSent

\* A message is handed over, stored, left behind by a blocked sender, or refused.
LEMMA SendKeeps ==
    ASSUME ProgramsInv, Send
    PROVE  ProgramsInv'
<1>1. /\ InUserCode /\ halt = "no" /\ me \in WorkerPids /\ me \in Pids /\ me # InitPid
      /\ me < last_pid /\ WorkerAt("send", me, pc[me])
      /\ pc[InitPid] \in Nat /\ pc[InitPid] >= 3
  BY WorkerDoes DEF Send, Makes
<1>2. /\ program = "mq" /\ me \in SecondKind /\ pc[me] = 1 /\ rid \in MqRids /\ sem_rids = {}
  BY <1>1, WorkerDoes DEF Send, Makes, WorkerAt, ProgramsInv, OneResource
<1>3. /\ \/ MqSendHandsOver(rid, me) \/ MqSendStores(rid, me) \/ MqSendBlocks(rid) \/ MqUnknown(rid)
      /\ Goes(1) /\ UNCHANGED <<semVars, program, alive, rid>>
  BY DEF Send, Makes, OfMq
<1>4. Inv' /\ pc[me] < CallsOf(me)
  BY NotTheLast, ProgramsKeepAll DEF ProgramsNext, ProgramStep, Send, Makes
<1>5. /\ KernelInv /\ MqInv /\ ret \in [Pids -> Int] /\ ~BlockedOnResource(sched, InitPid)
      /\ FirstKind \subseteq Pids /\ SecondKind \subseteq Pids /\ me \notin FirstKind
      /\ InitPid \in Pids /\ inbox \in [Pids -> Contents] /\ mq \in [MqRids -> MqType]
  BY <1>2, WorkersAre
     DEF ProgramsInv, Inv, KernelInv, KernelTypeOK, InitIsFree, MqInv, MqTypes
<1>6. /\ pc'[me] = 2 /\ \A p \in Pids : p # me => pc'[p] = pc[p]
  <2>1. 1 \in Int /\ pc[me] + 1 \in Nat
    BY <1>2
  <2> QED
    BY <2>1, <1>1, <1>2, <1>3, PcMoves
<1>7. PostsSuffice'
  BY <1>2, <1>3 DEF PostsSuffice
<1>8. me \in Messages /\ me # NoMessage
  BY <1>1, ProgramsAssumption
<1>9. ~IsSent(me) /\ WillBeSent(me) /\ \A m : IsSent(m) => WillBeSent(m)
  <2>1. ASSUME NEW m, IsSent(m) PROVE WillBeSent(m)
    BY <2>1, <1>2, <1>5, <1>6 DEF IsSent, WillBeSent
  <2> QED
    BY <2>1, <1>2, <1>6 DEF IsSent, WillBeSent
<1>10. {"mq_send"} \in SUBSET ResourceCalls
  BY DEF ResourceCalls
<1>11. CASE MqSendHandsOver(rid, me)
  <2> DEFINE s == mq[rid].wait_recv
             w == Head(s)
             q == <<w>>
             r == [mq[rid] EXCEPT !.wait_recv = Tail(s)]
  <2>1. /\ rid \in mq_rids /\ s # <<>> /\ ptrs' = ptrs - 1 /\ EndTrap(WakeAll(sched, q))
        /\ mq' = [mq EXCEPT ![rid] = r]
        /\ inbox' = [inbox EXCEPT ![w] = me] /\ ret' = [ret EXCEPT ![w] = 0, ![me] = 0]
        /\ UNCHANGED <<processVars, mq_rids>>
    BY <1>11 DEF MqSendHandsOver, FreePtrs
  <2>2. /\ w \in Pids /\ BlockedOnResource(sched, w)
        /\ Content(mq'[rid]) = Content(mq[rid])
    <3>1. /\ QueueOK(mq[rid]) /\ s \in Seq(Pids) /\ IsInjective(s)
          /\ ToSet(s) = BlockedInMq(sched, "mq_receive", rid)
      BY <1>2, <1>5, MqFacts DEF MqSound, QueueOK
    <3>2. /\ w \in BlockedInMq(sched, "mq_receive", rid)
          /\ Tail(s) \in Seq(Pids) /\ IsInjective(Tail(s))
      BY <3>1, <2>1, SeqTail
    <3>3. mq[rid].count = 0
      BY <2>1, <3>1 DEF QueueOK
    <3> HIDE DEF s
    <3>4. SameRing(mq[rid], r)
      BY <3>1, <3>2, <3>3, ReceiversSet
    <3>5. mq'[rid] = r
      BY <2>1, <1>2, <1>5
    <3>6. Content(r) = Content(mq[rid])
      BY <3>4, SameContent
    <3> QED
      BY <3>2, <3>5, <3>6, CallKinds, MqCallsAre DEF BlockedInMq, InCall, BlockedOnResource
  <2> HIDE DEF s, r, w
  <2>3. q \in Seq(Pids) /\ IsInjective(q) /\ ToSet(q) = {w} /\ Len(q) = 1
    BY <2>2 DEF IsInjective, ToSet
  <2> HIDE DEF q
  <2>4. /\ ret' \in [Pids -> Int] /\ w # InitPid
        /\ \A p \in Pids : ret'[p] = IF p \in {w, me} THEN 0 ELSE ret[p]
        /\ \A p \in Pids : inbox'[p] = IF p = w THEN me ELSE inbox[p]
    BY <2>1, <2>2, <1>1, <1>5
  <2>5. Unblocks(sched, sched', {w})
    BY <2>1, <2>2, <2>3, <2>4, <1>1, <1>5, UnblockKeepsInv DEF processVars
  <2>6. MessagesApart'
    <3>1. ASSUME NEW p \in FirstKind
          PROVE  /\ ~InCall(sched', p, {"mq_send"})
                 /\ Through(p)' => inbox'[p] # NoMessage
                 /\ inbox'[p] # NoMessage => /\ WillBeSent(inbox'[p])
                                             /\ \A x \in FirstKind \ {p} : inbox'[x] # inbox'[p]
      <4>1. ~InCall(sched', p, {"mq_send"})
        BY <2>5, <1>2, <1>5, MessagesAre DEF Unblocks, InCall, BlockedOnResource, ResourceCalls
      <4>2. \A x \in FirstKind : inbox[x] # me
        BY <1>2, <1>8, <1>9, MessagesAre
      <4>3. CASE p = w
        BY <4>1, <4>2, <4>3, <2>4, <1>5, <1>8, <1>9
      <4>4. CASE p # w
        <5>1. inbox'[p] = inbox[p] /\ (Through(p)' => Through(p))
          BY <4>4, <2>4, <2>5, <1>5, <1>6 DEF Through, Unblocks
        <5>2. inbox[p] # NoMessage => \A x \in FirstKind \ {p} : inbox'[x] # inbox[p]
          BY <4>2, <2>4, <1>2, <1>5, MessagesAre
        <5> QED
          BY <4>1, <5>1, <5>2, <1>2, <1>9, MessagesAre
      <4> QED
        BY <4>3, <4>4
    <3>2. ASSUME NEW m \in ToSet(Content(mq[rid])), NEW p \in FirstKind
          PROVE  WillBeSent(m) /\ inbox'[p] # m
      <4>1. IsSent(m) /\ inbox[p] # m
        BY <2>1, <1>2, MessagesAre
      <4> QED
        BY <4>1, <2>4, <1>5, <1>9
    <3>3. FirstKind # {}
      BY WorkersAre DEF FirstKind
    <3>4. /\ IsInjective(Content(mq'[rid']))
          /\ \A m \in ToSet(Content(mq'[rid'])) : WillBeSent(m) /\ \A p \in FirstKind : inbox'[p] # m
      BY <3>2, <3>3, <2>1, <2>2, <1>2, <1>3, MessagesAre
    <3> QED
      BY <3>1, <3>4, MessagesKept
  <2>7. /\ ret'[InitPid] = ret[InitPid] /\ ~BlockedOnResource(sched', InitPid)
        /\ \A p \in Pids : ret'[p] = ret[p] \/ ret'[p] = 0
    BY <2>4, <2>5, <1>1, <1>5 DEF Unblocks
  <2> QED
    BY <2>1, <2>4, <2>6, <2>7, <1>1, <1>3, <1>4, <1>7, WorkerCallKeeps DEF processVars, semVars
<1>12. CASE MqSendStores(rid, me)
  <2>1. /\ rid \in mq_rids /\ mq[rid].wait_recv = <<>> /\ ~IsFull(mq[rid])
        /\ mq' = [mq EXCEPT ![rid] = Put(@, me)] /\ Return(0)
        /\ UNCHANGED <<processVars, ptrs, mq_rids, inbox>>
    BY <1>12 DEF MqSendStores
  <2>2. ret' = [ret EXCEPT ![me] = 0] /\ KeepsBlocked(sched, sched')
    <3>1. 0 \in Int
      OBVIOUS
    <3> QED
      BY <3>1, <2>1, <1>5, ReturnKeepsInv DEF Return, processVars
  <2>3. Content(mq'[rid]) = Append(Content(mq[rid]), me) /\ Content(mq[rid]) \in Seq(Contents)
    <3>1. QueueOK(mq[rid])
      BY <1>2, <1>5, MqFacts
    <3>2. Content(Put(mq[rid], me)) = Append(Content(mq[rid]), me)
      BY <3>1, <2>1, <1>8, PutAppends
    <3> QED
      BY <3>1, <3>2, <2>1, <1>2, <1>5, ContentIs
  <2>4. MessagesApart'
    <3>1. ASSUME NEW p \in FirstKind
          PROVE  /\ ~InCall(sched', p, {"mq_send"})
                 /\ Through(p)' => inbox'[p] # NoMessage
                 /\ inbox'[p] # NoMessage => /\ WillBeSent(inbox'[p])
                                             /\ \A x \in FirstKind \ {p} : inbox'[x] # inbox'[p]
      <4>1. ~InCall(sched', p, {"mq_send"})
        BY <2>2, <1>2, <1>5, <1>10, MessagesAre, BlockedKeepCalls DEF KeepsCalls
      <4>2. Through(p)' => Through(p)
        BY <2>2, <1>5, <1>6 DEF Through, KeepsBlocked
      <4> QED
        BY <4>1, <4>2, <2>1, <1>2, <1>9, MessagesAre
    <3>2. me \notin ToSet(Content(mq[rid]))
      BY <2>1, <1>2, <1>9, MessagesAre
    <3>3. /\ IsInjective(Content(mq'[rid]))
          /\ ToSet(Content(mq'[rid])) = ToSet(Content(mq[rid])) \cup {me}
      <4>1. me \in Contents /\ IsInjective(Content(mq[rid]))
        BY <2>1, <1>2, <1>8, MessagesAre DEF Contents
      <4> QED
        BY <4>1, <2>3, <3>2, SeqAppend
    <3>4. ASSUME NEW m \in ToSet(Content(mq'[rid]))
          PROVE  WillBeSent(m) /\ \A p \in FirstKind : inbox'[p] # m
      <4>1. CASE m \in ToSet(Content(mq[rid]))
        BY <4>1, <2>1, <1>2, <1>9, MessagesAre
      <4>2. CASE m = me
        BY <4>2, <2>1, <1>2, <1>8, <1>9, MessagesAre
      <4> QED
        BY <3>3, <4>1, <4>2
    <3> QED
      BY <3>1, <3>3, <3>4, <1>3, MessagesKept
  <2>5. /\ ret' \in [Pids -> Int] /\ ret'[InitPid] = ret[InitPid]
        /\ \A p \in Pids : ret'[p] = ret[p] \/ ret'[p] = 0
        /\ ~BlockedOnResource(sched', InitPid)
    BY <2>2, <1>1, <1>5 DEF KeepsBlocked
  <2> QED
    BY <2>1, <2>4, <2>5, <1>1, <1>3, <1>4, <1>7, WorkerCallKeeps DEF processVars, semVars
<1>13. CASE MqSendBlocks(rid)
  <2> DEFINE r == [mq[rid] EXCEPT !.wait_send = Append(@, me)]
  <2>1. /\ rid \in mq_rids /\ ptrs < MaxProcs /\ ptrs' = ptrs + 1
        /\ EndTrap(ParkAndPop(sched, "mq_send", rid))
        /\ mq' = [mq EXCEPT ![rid] = r]
        /\ UNCHANGED <<processVars, ret, mq_rids, inbox>>
    BY <1>13 DEF MqSendBlocks
  <2>2. Blocks(sched, sched', me, [num |-> "mq_send", arg |-> rid])
    <3>1. rid \in Nat /\ "mq_send" \in ResourceCalls
      BY <1>2, <1>5, MqFacts DEF ResourceCalls
    <3> QED
      BY <3>1, <2>1, <1>1, <1>5, BlockKeepsInv DEF processVars
  <2>3. Content(mq'[rid]) = Content(mq[rid])
    <3>1. r.count = mq[rid].count /\ r.slots = mq[rid].slots /\ r.head = mq[rid].head
          /\ r.capacity = mq[rid].capacity /\ mq'[rid] = r
      BY <2>1, <1>2, <1>5 DEF MqType
    <3> HIDE DEF r
    <3> QED
      BY <3>1 DEF Content
  <2>4. \A p \in FirstKind :
          /\ Through(p)' => Through(p)
          /\ InCall(sched', p, {"mq_send"}) => InCall(sched, p, {"mq_send"})
    BY <2>1, <2>2, <1>5, <1>6 DEF Through, Blocks, InCall, BlockedOnResource, ResourceCalls
  <2>5. MessagesApart'
    <3>1. \A p \in SecondKind : pc[p] > 1 => pc'[p] > 1
      BY <1>2, <1>5, <1>6
    <3> QED
      BY <3>1, <2>1, <2>3, <2>4, <1>3, MessagesStay
  <2>6. ~BlockedOnResource(sched', InitPid)
    BY <2>2, <1>1, <1>5 DEF Blocks
  <2> QED
    BY <2>1, <2>5, <2>6, <1>1, <1>3, <1>4, <1>5, <1>7, WorkerCallKeeps DEF processVars, semVars
<1>14. CASE MqUnknown(rid)
  <2>1. /\ rid \notin mq_rids /\ Return(EINVAL) /\ UNCHANGED <<mq_rids, inbox>>
        /\ UNCHANGED <<processVars, ptrs, mqVars>>
    BY <1>14 DEF MqUnknown, mqVars
  <2>2. ret' = [ret EXCEPT ![me] = EINVAL] /\ EINVAL \in Int /\ KeepsBlocked(sched, sched')
    <3>1. EINVAL \in Int
      BY DEF EINVAL
    <3> QED
      BY <3>1, <2>1, <1>5, ReturnKeepsInv DEF Return, processVars
  <2>3. pc[InitPid] > CloseAt
    BY <2>1, <1>1, <1>2, ClosedBefore
  <2>4. MessagesApart'
    <3>1. \A p \in SecondKind : pc[p] > 1 => pc'[p] > 1
      BY <1>2, <1>5, <1>6
    <3>2. \A p \in FirstKind : InCall(sched', p, {"mq_send"}) => InCall(sched, p, {"mq_send"})
      BY <2>2, <1>5, <1>10, BlockedKeepCalls DEF KeepsCalls
    <3>3. \A p \in FirstKind : Through(p)' => Through(p)
      BY <2>2, <1>5, <1>6 DEF Through, KeepsBlocked
    <3>4. rid' \notin mq_rids'
      BY <2>1, <1>3
    <3> QED
      BY <3>1, <3>2, <3>3, <3>4, <2>1, <1>3, MessagesStay
  <2>5. /\ ret' \in [Pids -> Int] /\ ret'[InitPid] = ret[InitPid]
        /\ ~BlockedOnResource(sched', InitPid)
    BY <2>2, <1>1, <1>5 DEF KeepsBlocked
  <2> QED
    BY <2>1, <2>3, <2>4, <2>5, <1>1, <1>3, <1>4, <1>7, WorkerCallKeeps DEF processVars, semVars
<1> QED
  BY <1>3, <1>11, <1>12, <1>13, <1>14

\* A receiver takes the oldest message and wakes a sender, blocks, or is refused.
LEMMA ReceiveKeeps ==
    ASSUME ProgramsInv, Receive
    PROVE  ProgramsInv'
<1>1. /\ InUserCode /\ halt = "no" /\ me \in WorkerPids /\ me \in Pids /\ me # InitPid
      /\ me < last_pid /\ WorkerAt("receive", me, pc[me])
      /\ pc[InitPid] \in Nat /\ pc[InitPid] >= 3
  BY WorkerDoes DEF Receive, Makes
<1>2. /\ program = "mq" /\ me \in FirstKind /\ pc[me] = 1 /\ rid \in MqRids /\ sem_rids = {}
  BY <1>1, WorkerDoes DEF Receive, Makes, WorkerAt, ProgramsInv, OneResource
<1>3. /\ MqReceiveTakes(rid) \/ MqReceiveBlocks(rid) \/ MqUnknown(rid)
      /\ Goes(1) /\ UNCHANGED <<semVars, program, alive, rid>>
  BY DEF Receive, Makes, OfMq
<1>4. Inv' /\ pc[me] < CallsOf(me)
  BY NotTheLast, ProgramsKeepAll DEF ProgramsNext, ProgramStep, Receive, Makes
<1>5. /\ KernelInv /\ MqInv /\ ret \in [Pids -> Int] /\ ~BlockedOnResource(sched, InitPid)
      /\ FirstKind \subseteq Pids /\ SecondKind \subseteq Pids /\ me \notin SecondKind
      /\ InitPid \in Pids /\ inbox \in [Pids -> Contents] /\ mq \in [MqRids -> MqType]
  BY <1>2, WorkersAre
     DEF ProgramsInv, Inv, KernelInv, KernelTypeOK, InitIsFree, MqInv, MqTypes
<1>6. /\ pc'[me] = 2 /\ \A p \in Pids : p # me => pc'[p] = pc[p]
  <2>1. 1 \in Int /\ pc[me] + 1 \in Nat
    BY <1>2
  <2> QED
    BY <2>1, <1>1, <1>2, <1>3, PcMoves
<1>7. PostsSuffice'
  BY <1>2, <1>3 DEF PostsSuffice
<1>8. (\A p \in SecondKind : pc[p] > 1 => pc'[p] > 1) /\ (\A m : IsSent(m) => WillBeSent(m))
  BY <1>5, <1>6 DEF IsSent, WillBeSent
<1>9. {"mq_send"} \in SUBSET ResourceCalls
  BY DEF ResourceCalls
<1>10. CASE MqReceiveTakes(rid)
  <2> DEFINE q == mq[rid]
             w == FirstSender(q)
             r == [Take(q) EXCEPT !.wait_send = SubSeq(@, 1 + Len(w), Len(@))]
             h == q.slots[q.head]
  <2>1. /\ rid \in mq_rids /\ ~IsEmpty(q) /\ inbox' = [inbox EXCEPT ![me] = h]
        /\ ptrs' = ptrs - Len(w) /\ EndTrap(WakeAll(sched, w))
        /\ mq' = [mq EXCEPT ![rid] = r]
        /\ ret' = [p \in Pids |-> IF p = me \/ p \in ToSet(w) THEN 0 ELSE ret[p]]
        /\ UNCHANGED <<processVars, mq_rids>>
    BY <1>10 DEF MqReceiveTakes, FreePtrs
  <2>2. QueueOK(q) /\ ToSet(q.wait_send) = BlockedInMq(sched, "mq_send", rid)
    BY <1>2, <1>5, MqFacts DEF MqSound
  <2>3. /\ Content(mq'[rid]) = Tail(Content(q)) /\ h = Head(Content(q)) /\ Content(q) # <<>>
        /\ Content(q) \in Seq(Contents)
    <3>1. /\ Content(q) # <<>> /\ h = Head(Content(q)) /\ Content(Take(q)) = Tail(Content(q))
      BY <2>1, <2>2, TakeIsHead
    <3>2. QueueOK(Take(q))
      BY <2>1, <2>2, TakeOK
    <3>3. mq'[rid] = r
      BY <2>1, <1>2, <1>5
    <3>4. Content(r) = Content(Take(q))
      <4>1. Take(q) \in MqType
        BY <3>2 DEF QueueOK
      <4>2. /\ r.count = Take(q).count /\ r.slots = Take(q).slots /\ r.head = Take(q).head
            /\ r.capacity = Take(q).capacity
        BY <4>1 DEF MqType
      <4> HIDE DEF r
      <4> QED
        BY <4>2 DEF Content
    <3>5. Content(q) \in Seq(Contents)
      BY <2>2, ContentIs
    <3> HIDE DEF q, r, h
    <3> QED
      BY <3>1, <3>3, <3>4, <3>5
  <2>4. /\ w \in Seq(Pids) /\ IsInjective(w) /\ ToSet(w) \subseteq BlockedInMq(sched, "mq_send", rid)
    <3> HIDE DEF q
    <3>1. w \in Seq(Pids) /\ IsInjective(w) /\ ToSet(w) \subseteq ToSet(q.wait_send)
      BY <2>2, FirstSenderLeaves
    <3> QED
      BY <3>1, <2>2
  <2> HIDE DEF w, r, h
  <2>5. \A p \in ToSet(w) : InCall(sched, p, {"mq_send"}) /\ BlockedOnResource(sched, p)
    BY <2>4, CallKinds, MqCallsAre DEF BlockedInMq, InCall, BlockedOnResource
  <2>6. /\ ret' \in [Pids -> Int] /\ InitPid \notin ToSet(w)
        /\ \A p \in Pids : ret'[p] = IF p = me \/ p \in ToSet(w) THEN 0 ELSE ret[p]
        /\ \A p \in Pids : inbox'[p] = IF p = me THEN h ELSE inbox[p]
    BY <2>1, <2>5, <1>1, <1>5
  <2>7. Unblocks(sched, sched', ToSet(w))
    BY <2>1, <2>4, <2>5, <2>6, <1>1, <1>5, UnblockKeepsInv DEF processVars
  <2>8. /\ IsInjective(Content(q)) /\ h \in ToSet(Content(q))
        /\ \A m \in ToSet(Content(q)) : IsSent(m) /\ \A p \in FirstKind : inbox[p] # m
        /\ IsInjective(Content(mq'[rid])) /\ ToSet(Content(mq'[rid])) = ToSet(Content(q)) \ {h}
    <3>1. /\ IsInjective(Content(q))
          /\ \A m \in ToSet(Content(q)) : IsSent(m) /\ \A p \in FirstKind : inbox[p] # m
      BY <2>1, <1>2, MessagesAre
    <3> HIDE DEF q
    <3> QED
      BY <3>1, <2>3, SeqTail
  <2>9. h # NoMessage /\ WillBeSent(h)
    <3>1. h \in SecondKind /\ NoMessage = InitPid /\ InitPid \notin SecondKind
      BY <2>8, ProgramsAssumption, WorkersAre DEF IsSent
    <3> QED
      BY <3>1, <2>8, <1>8
  <2>10. MessagesApart'
    <3>1. ASSUME NEW p \in FirstKind
          PROVE  /\ ~InCall(sched', p, {"mq_send"})
                 /\ Through(p)' => inbox'[p] # NoMessage
                 /\ inbox'[p] # NoMessage => /\ WillBeSent(inbox'[p])
                                             /\ \A x \in FirstKind \ {p} : inbox'[x] # inbox'[p]
      <4>1. ~InCall(sched, p, {"mq_send"}) /\ p \notin ToSet(w)
        BY <2>5, <1>2, MessagesAre
      <4>2. ~InCall(sched', p, {"mq_send"})
        BY <4>1, <2>7, <1>5 DEF Unblocks, InCall, BlockedOnResource, ResourceCalls
      <4>3. CASE p = me
        BY <4>2, <4>3, <2>6, <2>8, <2>9, <1>5
      <4>4. CASE p # me
        <5>1. inbox'[p] = inbox[p] /\ (Through(p)' => Through(p))
          BY <4>1, <4>4, <2>6, <2>7, <1>5, <1>6 DEF Through, Unblocks
        <5>2. inbox[p] # NoMessage => \A x \in FirstKind \ {p} : inbox'[x] # inbox[p]
          BY <2>6, <2>8, <1>2, <1>5, MessagesAre
        <5> QED
          BY <4>2, <5>1, <5>2, <1>2, <1>8, MessagesAre
      <4> QED
        BY <4>3, <4>4
    <3>2. ASSUME NEW m \in ToSet(Content(mq'[rid]))
          PROVE  WillBeSent(m) /\ \A p \in FirstKind : inbox'[p] # m
      BY <2>6, <2>8, <1>5, <1>8
    <3> QED
      BY <3>1, <3>2, <2>8, <1>3, MessagesKept
  <2>11. /\ ret'[InitPid] = ret[InitPid] /\ ~BlockedOnResource(sched', InitPid)
         /\ \A p \in Pids : ret'[p] = ret[p] \/ ret'[p] = 0
    BY <2>6, <2>7, <1>1, <1>5 DEF Unblocks
  <2> QED
    BY <2>1, <2>6, <2>10, <2>11, <1>1, <1>3, <1>4, <1>7, WorkerCallKeeps DEF processVars, semVars
<1>11. CASE MqReceiveBlocks(rid)
  <2> DEFINE r == [mq[rid] EXCEPT !.wait_recv = Append(@, me)]
  <2>1. /\ rid \in mq_rids /\ ptrs < MaxProcs /\ ptrs' = ptrs + 1
        /\ EndTrap(ParkAndPop(sched, "mq_receive", rid))
        /\ mq' = [mq EXCEPT ![rid] = r]
        /\ UNCHANGED <<processVars, ret, mq_rids, inbox>>
    BY <1>11 DEF MqReceiveBlocks
  <2>2. Blocks(sched, sched', me, [num |-> "mq_receive", arg |-> rid])
    <3>1. rid \in Nat /\ "mq_receive" \in ResourceCalls
      BY <1>2, <1>5, MqFacts DEF ResourceCalls
    <3> QED
      BY <3>1, <2>1, <1>1, <1>5, BlockKeepsInv DEF processVars
  <2>3. Content(mq'[rid]) = Content(mq[rid])
    <3>1. r.count = mq[rid].count /\ r.slots = mq[rid].slots /\ r.head = mq[rid].head
          /\ r.capacity = mq[rid].capacity /\ mq'[rid] = r
      BY <2>1, <1>2, <1>5 DEF MqType
    <3> HIDE DEF r
    <3> QED
      BY <3>1 DEF Content
  <2>4. \A p \in FirstKind :
          /\ Through(p)' => Through(p)
          /\ InCall(sched', p, {"mq_send"}) => InCall(sched, p, {"mq_send"})
    BY <2>1, <2>2, <1>5, <1>6 DEF Through, Blocks, InCall, BlockedOnResource, ResourceCalls
  <2>5. MessagesApart'
    BY <2>1, <2>3, <2>4, <1>3, <1>8, MessagesStay
  <2>6. ~BlockedOnResource(sched', InitPid)
    BY <2>2, <1>1, <1>5 DEF Blocks
  <2> QED
    BY <2>1, <2>5, <2>6, <1>1, <1>3, <1>4, <1>5, <1>7, WorkerCallKeeps DEF processVars, semVars
<1>12. CASE MqUnknown(rid)
  <2>1. /\ rid \notin mq_rids /\ Return(EINVAL) /\ UNCHANGED <<mq_rids, inbox>>
        /\ UNCHANGED <<processVars, ptrs, mqVars>>
    BY <1>12 DEF MqUnknown, mqVars
  <2>2. /\ ret' = [ret EXCEPT ![me] = EINVAL] /\ EINVAL \in Int /\ EINVAL # 0
        /\ KeepsBlocked(sched, sched')
    <3>1. EINVAL \in Int /\ EINVAL # 0
      BY DEF EINVAL
    <3> QED
      BY <3>1, <2>1, <1>5, ReturnKeepsInv DEF Return, processVars
  <2>3. pc[InitPid] > CloseAt
    BY <2>1, <1>1, <1>2, ClosedBefore
  <2>4. MessagesApart'
    <3>1. \A p \in FirstKind : InCall(sched', p, {"mq_send"}) => InCall(sched, p, {"mq_send"})
      BY <2>2, <1>5, <1>9, BlockedKeepCalls DEF KeepsCalls
    <3>2. \A p \in FirstKind : Through(p)' => Through(p)
      BY <2>2, <1>1, <1>5, <1>6 DEF Through, KeepsBlocked
    <3>3. rid' \notin mq_rids'
      BY <2>1, <1>3
    <3> QED
      BY <3>1, <3>2, <3>3, <2>1, <1>3, <1>8, MessagesStay
  <2>5. /\ ret' \in [Pids -> Int] /\ ret'[InitPid] = ret[InitPid]
        /\ ~BlockedOnResource(sched', InitPid)
    BY <2>2, <1>1, <1>5 DEF KeepsBlocked
  <2> QED
    BY <2>1, <2>3, <2>4, <2>5, <1>1, <1>3, <1>4, <1>7, WorkerCallKeeps DEF processVars, semVars
<1> QED
  BY <1>3, <1>10, <1>11, <1>12

-----------------------------------------------------------------------------
(* The programs                                                            *)

\* When init starts it is alone, with everything ahead of it.
LEMMA ProgramsStart ==
    ASSUME ProgramsInit
    PROVE  ProgramsInv
<1>1. /\ Init /\ program \in {"sem", "mq"} /\ pc = [p \in Pids |-> 1] /\ alive = 2 * Workers /\ rid = 0
  BY DEF ProgramsInit, Alive
<1>2. /\ ret = [p \in Pids |-> 0] /\ children = [p \in Pids |-> <<>>] /\ last_pid = 1
      /\ parent = [p \in Pids |-> NoPid] /\ sem_rids = {} /\ mq_rids = {}
      /\ \A p \in Pids : ~BlockedOnResource(sched, p)
      /\ inbox = [p \in Pids |-> NoMessage] /\ \A p \in Pids : sched.status[p] # "Waiting"
  BY <1>1 DEF Init, KernelInit, SemInit, MqInit, BlockedOnResource
<1>3. /\ InitPid \in Pids /\ WorkerPids \subseteq Pids /\ FirstKind \subseteq Pids
      /\ SecondKind \subseteq Pids /\ WaitAt \in Nat /\ CountAt = WaitAt + 1 /\ CloseAt = WaitAt + 2
      /\ WaitAt >= 5 /\ Workers \in Nat
  BY WorkersAre DEF WaitAt
<1>4. Inv
  BY <1>1, InitEstablishesAll
<1>5. AtTheirCalls
  BY <1>1, <1>2, <1>3 DEF AtTheirCalls, IsAlive, CallsOf
<1>6. ChildrenSuffice
  <2>1. /\ pc[InitPid] = 1 /\ 1 # CountAt /\ Len(children[InitPid]) = 0
    BY <1>1, <1>2, <1>3
  <2>2. SpawnsLeft(pc[InitPid]) = 2 * Workers
    BY <2>1 DEF SpawnsLeft
  <2> QED
    BY <2>1, <2>2, <1>1, <1>3 DEF ChildrenSuffice
<1>7. OneResource
  BY <1>1, <1>2, <1>3 DEF OneResource, IsOpenAt
<1>8. ResultsFit
  BY <1>1, <1>2, <1>3 DEF ResultsFit
<1>9. InitIsFree
  BY <1>2, <1>3 DEF InitIsFree
<1>10. PostsSuffice
  <2>1. {p \in FirstKind : Through(p)} = {} /\ {p \in SecondKind : pc[p] >= 3} = {}
    BY <1>1, <1>3 DEF Through
  <2>2. PermitsLeft = 0
    BY <1>2 DEF PermitsLeft
  <2> QED
    BY <2>1, <2>2, FS_EmptySet DEF PostsSuffice
<1>11. MessagesApart
  BY <1>1, <1>2, <1>3 DEF MessagesApart, Through, InCall
<1> QED
  BY <1>4, <1>5, <1>6, <1>7, <1>8, <1>9, <1>10, <1>11 DEF ProgramsInv

\* Every step keeps the invariant.
LEMMA ProgramsKeep ==
    ASSUME ProgramsInv, [ProgramsNext]_allVars
    PROVE  ProgramsInv'
<1>1. ASSUME UNCHANGED allVars PROVE ProgramsInv'
  <2>1. /\ UNCHANGED <<sched, time, last_pid, zombies, parent, children, ret, ptrs, halt>>
        /\ UNCHANGED <<sem_rids, sem, mq_rids, mq, inbox, program, pc, alive, rid>>
    BY <1>1 DEF allVars, vars, programVars, kernelVars, semVars, mqVars
  <2>2. Inv'
    BY ProgramsKeepAll
  <2>3. AtTheirCalls' /\ ChildrenSuffice' /\ OneResource' /\ ResultsFit' /\ InitIsFree'
    BY <2>1 DEF ProgramsInv, AtTheirCalls, ChildrenSuffice, OneResource, ResultsFit, InitIsFree,
                IsAlive, CallsOf
  <2>4. PostsSuffice' /\ MessagesApart'
    BY <2>1 DEF ProgramsInv, PostsSuffice, MessagesApart, Through, PermitsLeft, IsSent
  <2> QED
    BY <2>2, <2>3, <2>4 DEF ProgramsInv
<1> QED
  BY <1>1, TickKeepsPrograms, OpenKeeps, SpawnWorkerKeeps, PreemptOnceKeeps, WaitForChildKeeps,
     AllGoneKeeps, CountKeeps, CloseKeeps, ShutDownKeeps, WaitSemKeeps, PostKeeps, SendKeeps,
     ReceiveKeeps, SleepAWhileKeeps, ExitWorkerKeeps
     DEF ProgramsNext, ProgramStep

\* The invariant holds of the programs.
THEOREM ProgramsInvariant == ProgramsSpec => []ProgramsInv
BY ProgramsStart, ProgramsKeep, PTL DEF ProgramsSpec

\* No call of init fails, and none of a worker's while the resource is open, whatever
\* the number of workers and the order in which the ticks come.
THEOREM CallsDoNotFail == ProgramsSpec => []NoCallFails
<1>1. ASSUME ProgramsInv PROVE NoCallFails
  <2>1. InitPid \in Pids /\ ret \in [Pids -> Int]
    BY <1>1, WorkersAre DEF ProgramsInv, Inv, KernelInv, KernelTypeOK
  <2>2. IsOpen => pc[InitPid] <= CloseAt
    BY <1>1 DEF ProgramsInv, OneResource, IsOpen, IsOpenAt
  <2>3. \A p \in Pids : ret[p] < 0 => ~(ret[p] >= 0)
    BY <2>1
  <2> QED
    BY <1>1, <2>1, <2>2, <2>3 DEF ProgramsInv, ResultsFit, NoCallFails
<1> QED
  BY <1>1, ProgramsInvariant, PTL

\* No more waiters pass than posters posted, and each consumer that succeeds has a message
\* of its own, whatever the number of workers and the capacity.
THEOREM OnlyWhatWasSentArrives == ProgramsSpec => []OnlyWhatWasSent
<1>1. ASSUME ProgramsInv PROVE OnlyWhatWasSent
  <2>1. \A p : Passed(p) => Through(p)
    BY DEF Passed, Through, BlockedOnResource
  <2>2. CASE program = "sem"
    <3> DEFINE T == {p \in FirstKind : Through(p)}
               U == {p \in FirstKind : Passed(p)}
               P == {p \in SecondKind : pc[p] >= 3}
    <3>1. U \subseteq T /\ T \subseteq FirstKind /\ U \subseteq FirstKind /\ P \subseteq SecondKind
      BY <2>1
    <3>2. Cardinality(T) + PermitsLeft <= Cardinality(P)
      BY <1>1, <2>2 DEF ProgramsInv, PostsSuffice
    <3> HIDE DEF T, U, P
    <3>3. /\ IsFiniteSet(T) /\ Cardinality(T) \in Nat /\ Cardinality(U) \in Nat
          /\ Cardinality(P) \in Nat /\ PermitsLeft \in Nat
      BY <1>1, <3>1, WorkersAreCounted, PermitsAreCounted DEF ProgramsInv
    <3>4. Cardinality(U) <= Cardinality(T)
      BY <3>1, <3>3, FS_Subset
    <3>5. Cardinality(U) <= Cardinality(P)
      BY <3>2, <3>3, <3>4
    <3> QED
      BY <3>5, <2>2 DEF OnlyWhatWasSent, U, P
  <2>3. CASE program # "sem"
    <3>1. program = "mq"
      BY <1>1, <2>3 DEF ProgramsInv, OneResource
    <3> QED
      BY <1>1, <2>1, <2>3, <3>1, MessagesAre DEF OnlyWhatWasSent, IsSent
  <2> QED
    BY <2>2, <2>3
<1> QED
  BY <1>1, ProgramsInvariant, PTL

=============================================================================
