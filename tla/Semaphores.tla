----------------------------- MODULE Semaphores -----------------------------
(***************************************************************************)
(* The semaphores of disastrOS (sem.c) on top of the kernel: sem_open,     *)
(* sem_wait, sem_post and sem_close.                                       *)
(*                                                                         *)
(* A negative value counts the waiters.  A waiter is linked to its         *)
(* semaphore by a block of the PCBPtr pool, the one the child links come   *)
(* from.                                                                   *)
(***************************************************************************)
EXTENDS Kernel

CONSTANTS
    MaxSemRid,  \* bound: the largest rid a behaviour hands out
    MaxSems,    \* SEMAPHORE_MAX_ITEMS, the blocks of the semaphore pool
    MaxValue,   \* bound: no post raises a value above it
    SemValues   \* the initial values processes ask for

ASSUME SemaphoresAssumption ==
    /\ MaxSemRid \in Nat
    /\ MaxSems \in Nat \ {0}
    /\ MaxValue \in Nat
    /\ SemValues \subseteq Int

VARIABLES
    sem_rids,       \* the rids of the semaphores on resources_list
    sem,            \* their value and waiting list
    next_sem_rid    \* _next_sem_rid

semVars == <<sem_rids, sem, next_sem_rid>>
semaphoresVars == <<kernelVars, semVars>>

SemRids == 1 .. MaxSemRid
NoSemaphore == [value |-> 0, waiting |-> <<>>]

ESEM_CLOSED == -14

-----------------------------------------------------------------------------
(* System calls                                                            *)

\* The call names no semaphore.
SemUnknown(rid) ==
    /\ InUserCode
    /\ rid \notin sem_rids
    /\ Return(EINVAL)
    /\ UNCHANGED <<processVars, ptrs, semVars>>

SemOpen(v) ==
    /\ InUserCode
    /\ Cardinality(sem_rids) < MaxSems
    /\ next_sem_rid <= MaxSemRid
    /\ Return(next_sem_rid)
    /\ sem_rids' = sem_rids \cup {next_sem_rid}
    /\ sem' = [sem EXCEPT ![next_sem_rid] = [value |-> v, waiting |-> <<>>]]
    /\ next_sem_rid' = next_sem_rid + 1
    /\ UNCHANGED <<processVars, ptrs>>

SemOpenFails ==
    /\ InUserCode
    /\ Cardinality(sem_rids) = MaxSems
    /\ Return(ENOMEM)
    /\ UNCHANGED <<processVars, ptrs, semVars>>

\* sem_wait finds a permit.
SemWaitPasses(rid) ==
    /\ InUserCode
    /\ rid \in sem_rids /\ sem[rid].value > 0
    /\ sem' = [sem EXCEPT ![rid].value = @ - 1]
    /\ Return(0)
    /\ UNCHANGED <<processVars, ptrs, sem_rids, next_sem_rid>>

\* Mutant: the newcomer is put in front of the waiting list.
Enqueue_Front(rid, p) ==
    sem' = [sem EXCEPT ![rid].value = @ - 1, ![rid].waiting = <<p>> \o @]

\* Mutant: the value stays as it is when somebody has to wait.
Enqueue_NotCounted(rid, p) == sem' = [sem EXCEPT ![rid].waiting = Append(@, p)]

Enqueue(rid, p) == sem' = [sem EXCEPT ![rid].value = @ - 1, ![rid].waiting = Append(@, p)]

SemWaitBlocks(rid) ==
    /\ InUserCode
    /\ rid \in sem_rids /\ sem[rid].value <= 0
    /\ ptrs < MaxProcs
    /\ Enqueue(rid, me)
    /\ ptrs' = ptrs + 1
    /\ EndTrap(ParkAndPop(sched, "sem_wait", rid))
    /\ UNCHANGED <<processVars, ret, sem_rids, next_sem_rid>>

\* PCBPtr_alloc writes through the null pointer of an empty pool.
SemWaitWithoutPtr(rid) ==
    /\ InUserCode
    /\ rid \in sem_rids /\ sem[rid].value <= 0
    /\ ptrs = MaxProcs
    /\ Stop("pool_exhausted")
    /\ UNCHANGED semVars

SemWait(rid) == SemWaitPasses(rid) \/ SemWaitBlocks(rid) \/ SemWaitWithoutPtr(rid)

\* sem_post when nobody is counted as waiting.
SemPostCounts(rid) ==
    /\ InUserCode
    /\ rid \in sem_rids /\ sem[rid].value >= 0
    /\ sem[rid].value < MaxValue
    /\ sem' = [sem EXCEPT ![rid].value = @ + 1]
    /\ Return(0)
    /\ UNCHANGED <<processVars, ptrs, sem_rids, next_sem_rid>>

\* The first waiter and its block leave the list.
Dequeue(rid) ==
    /\ sem' = [sem EXCEPT ![rid].value = @ + 1, ![rid].waiting = Tail(@)]
    /\ ptrs' = ptrs - 1

SemPostWakes(rid) ==
    LET woken == Head(sem[rid].waiting) IN
    /\ InUserCode
    /\ rid \in sem_rids /\ sem[rid].value < 0
    /\ sem[rid].waiting # <<>>
    /\ Dequeue(rid)
    /\ ret' = [ret EXCEPT ![woken] = 0, ![me] = 0]
    /\ EndTrap(WakeAll(sched, <<woken>>))
    /\ UNCHANGED <<processVars, sem_rids, next_sem_rid>>

\* A semaphore opened with a negative value owes posts to nobody: List_detach is
\* handed the null head of the empty waiting list.
SemPostWithoutWaiter(rid) ==
    /\ InUserCode
    /\ rid \in sem_rids /\ sem[rid].value < 0
    /\ sem[rid].waiting = <<>>
    /\ Stop("post_without_waiter")
    /\ UNCHANGED semVars

SemPost(rid) == SemPostCounts(rid) \/ SemPostWakes(rid) \/ SemPostWithoutWaiter(rid)

\* Mutant: the waiters of a closed semaphore get the result of a post.
SemCloseResult_Zero(woken, p) == IF p \in woken \cup {me} THEN 0 ELSE ret[p]

\* What a close leaves in syscall_retvalue.
SemCloseResult(woken, p) ==
    IF p \in woken THEN ESEM_CLOSED ELSE IF p = me THEN 0 ELSE ret[p]

\* Mutant: the semaphore is freed under its waiters.
SemWokenByClose_None(rid) == <<>>

\* Everybody who waits wakes.
SemWokenByClose(rid) == sem[rid].waiting

SemClose(rid) ==
    LET woken == SemWokenByClose(rid) IN
    /\ InUserCode
    /\ rid \in sem_rids
    /\ sem_rids' = sem_rids \ {rid}
    /\ sem' = [sem EXCEPT ![rid] = NoSemaphore]
    /\ ptrs' = ptrs - Len(sem[rid].waiting)
    /\ ret' = [p \in Pids |-> SemCloseResult(ToSet(woken), p)]
    /\ EndTrap(WakeAll(sched, woken))
    /\ UNCHANGED <<processVars, next_sem_rid>>

-----------------------------------------------------------------------------
(* The specification                                                       *)

SemInit ==
    /\ sem_rids = {}
    /\ sem = [rid \in SemRids |-> NoSemaphore]
    /\ next_sem_rid = 1

SemCall ==
    \/ \E v \in SemValues : SemOpen(v)
    \/ SemOpenFails
    \/ \E rid \in SemRids :
         SemUnknown(rid) \/ SemWait(rid) \/ SemPost(rid) \/ SemClose(rid)

SemaphoresInit == KernelInit /\ SemInit
SemaphoresNext == SemCall \/ (KernelNext /\ UNCHANGED semVars)
SemaphoresSpec == SemaphoresInit /\ [][SemaphoresNext]_semaphoresVars

-----------------------------------------------------------------------------
(* Properties                                                              *)

\* Every variable holds a value of its type.
SemTypeOK ==
    /\ KernelTypeOK
    /\ sem_rids \subseteq SemRids
    /\ sem \in [SemRids -> [value : Int, waiting : Seq(Pids)]]
    /\ next_sem_rid \in 1 .. MaxSemRid + 1

\* The processes on the waiting list of rid.
SemWaiters(rid) == ToSet(sem[rid].waiting)

\* A process is blocked in sem_wait exactly while it is on the waiting list of
\* that open semaphore, once: no post or close wakes a process that is not
\* waiting, none is left behind by a close.
SemWaitersAreBlocked ==
    /\ SemTypeOK
    /\ \A rid \in SemRids :
        /\ SemWaiters(rid) = {p \in Pids : /\ sched.status[p] = "Waiting"
                                           /\ sched.call[p] = [num |-> "sem_wait", arg |-> rid]}
        /\ IsInjective(sem[rid].waiting)
        /\ rid \notin sem_rids => sem[rid].waiting = <<>>

\* A negative value counts the waiters, on top of the negative value the semaphore
\* may have been opened with, and nobody waits while there is a permit.
ValueCountsWaiters ==
    \A rid \in sem_rids :
        IF sem[rid].value < 0
        THEN \E v \in SemValues : sem[rid].value = Min({v, 0}) - Len(sem[rid].waiting)
        ELSE sem[rid].waiting = <<>>

\* A process leaves sem_wait with 0 when the semaphore still exists, with
\* DSOS_ESEM_CLOSED when it was closed under it.
WaitResultTellsClose ==
    [][\A rid \in SemRids : \A p \in SemWaiters(rid) :
          p \notin ToSet(sem'[rid].waiting) =>
              ret'[p] = IF rid \in sem_rids' THEN 0 ELSE ESEM_CLOSED]_semaphoresVars

\* The abstract semaphore: the permits are what is left of the value above zero.
Semaphore == INSTANCE CountingSemaphore WITH
    Rids <- SemRids,
    Users <- Pids,
    Initial <- {Max({v, 0}) : v \in SemValues},
    open <- sem_rids,
    permits <- [rid \in SemRids |-> Max({sem[rid].value, 0})],
    queue <- [rid \in SemRids |-> sem[rid].waiting]

\* The semaphores hand out their permits first come, first served: the kernel
\* implements the abstract counting semaphore.
ImplementsCountingSemaphore == Semaphore!Spec

=============================================================================
