------------------------------- MODULE Kernel -------------------------------
(***************************************************************************)
(* The process core of disastrOS, as built in                              *)
(* disastr0S_05_Carrell0's-Semaphore: the scheduler, the timer interrupt   *)
(* and the process system calls (spawn, wait, exit, preempt, sleep,        *)
(* shutdown).                                                              *)
(*                                                                         *)
(* SIGALRM is blocked while the trap runs, so a system call is one atomic  *)
(* step: the handler, then the tail of disastrOS_trap, which may run the   *)
(* scheduler once more.  The timer interrupt may come between any two      *)
(* steps, whether a process runs or the CPU idles.                         *)
(*                                                                         *)
(* A process is its pid.  A list whose order the code observes is a        *)
(* sequence (ready list, timer list, children); waiting_list and           *)
(* zombie_list, which are only inserted into and detached from, are sets.  *)
(***************************************************************************)
EXTENDS Integers, Sequences, FiniteSets, FiniteSetsExt, SequencesExt

CONSTANTS
    MaxPid,     \* bound: the largest pid a behaviour hands out
    MaxProcs,   \* MAX_NUM_PROCESSES, the blocks of the PCB, PCBPtr and timer pools
    MaxTime,    \* bound: disastrOS_time stays there once it is reached
    SleepArgs   \* the sleeps processes ask for

ASSUME KernelAssumption ==
    /\ MaxPid \in Nat
    /\ MaxProcs \in Nat \ {0}
    /\ MaxTime \in Nat
    /\ SleepArgs \subseteq Int

VARIABLES
    sched,      \* what internal_schedule works on, see SchedType
    time,       \* disastrOS_time
    last_pid,   \* the pid PCB_alloc hands out next
    zombies,    \* zombie_list
    parent,     \* pcb->parent
    children,   \* pcb->children
    ret,        \* pcb->syscall_retvalue
    ptrs,       \* blocks in use in the PCBPtr pool
    halt        \* "no" while the system is up, else how it stopped

kernelVars == <<sched, time, last_pid, zombies, parent, children, ret, ptrs, halt>>

\* The part of the kernel no call on a semaphore or a queue touches.
processVars == <<time, last_pid, zombies, parent, children, halt>>

Pids == 0 .. MaxPid
InitPid == 0            \* init_pcb
NoPid == -1             \* a null PCB*
AnyChild == 0           \* the pid argument of a wait for whichever child

EWAIT == -5
ESLEEP == -7
EINVAL == -8
ENOMEM == -12

Statuses == {"Free", "Running", "Ready", "Waiting", "Zombie"}
Halts == {"no", "shutdown", "fork_not_implemented", "exit_without_parent", "pool_exhausted",
          "post_without_waiter", "stack_overwritten"}

\* The system call a process is blocked in, with the argument somebody else
\* reads.  The code leaves syscall_num and syscall_args in the PCB afterwards and
\* reads them only while the process waits: a process that does not has NoCall.
CallNums == {"none", "wait", "sleep", "sem_wait", "mq_send", "mq_receive"}
Calls == [num : CallNums, arg : Nat]
NoCall == [num |-> "none", arg |-> 0]

Timers == [pid : Pids, at : 0 .. MaxTime]

\* The scheduler's data: the lists internal_schedule moves PCBs between.
SchedType ==
    [running : Pids \cup {NoPid},
     ready   : Seq(Pids),
     waiting : SUBSET Pids,
     status  : [Pids -> Statuses],
     timers  : Seq(Timers),
     armed   : SUBSET Pids,         \* the processes with pcb->timer set
     call    : [Pids -> Calls]]     \* what a waiting process is blocked in

-----------------------------------------------------------------------------
(* The timer list                                                          *)

\* The first position whose timer is later than t, or the one after the last.
FirstLater(ts, t) == Min({i \in DOMAIN ts : ts[i].at > t} \cup {Len(ts) + 1})

\* Mutant: every timer goes to the end.
TimerList_add_Unsorted(ts, timer) == Append(ts, timer)

\* Sorted insertion, after the timers of the same time.
TimerList_add(ts, timer) == InsertAt(ts, FirstLater(ts, timer.at), timer)

-----------------------------------------------------------------------------
(* The scheduler                                                           *)

\* The processes of q, which wait, become ready in this order.
WakeAll(s, q) ==
    LET woken == ToSet(q)
    IN [s EXCEPT !.waiting = @ \ woken,
                 !.status = [p \in Pids |-> IF p \in woken THEN "Ready" ELSE @[p]],
                 !.call = [p \in Pids |-> IF p \in woken THEN NoCall ELSE @[p]],
                 !.ready = @ \o q]

\* The processes the first n timers belong to.
Owners(ts, n) == [i \in 1 .. n |-> ts[i].pid]

\* Mutant: pcb->timer keeps its value when the timer fires.
WakeExpired_KeepsTimer(s, now) ==
    LET n == FirstLater(s.timers, now) - 1
    IN [WakeAll(s, Owners(s.timers, n)) EXCEPT !.timers = SubSeq(@, n + 1, Len(@))]

\* The loop at the head of internal_schedule: every timer at the front of the
\* list that is not later than now fires, in order.
WakeExpired(s, now) ==
    LET n == FirstLater(s.timers, now) - 1
        owners == Owners(s.timers, n)
    IN [WakeAll(s, owners) EXCEPT !.timers = SubSeq(@, n + 1, Len(@)),
                                  !.armed = @ \ ToSet(owners)]

\* The head of the ready list runs, or nothing does.
PopReady(s) ==
    IF s.ready = <<>>
    THEN [s EXCEPT !.running = NoPid]
    ELSE [s EXCEPT !.running = Head(s.ready),
                   !.status[Head(s.ready)] = "Running",
                   !.ready = Tail(@)]

\* Mutant: the process that ran keeps its status.
Requeue_StatusKept(s) == [s EXCEPT !.ready = Append(@, s.running)]

\* The process that ran goes to the end of the ready list.
Requeue(s) == [s EXCEPT !.status[s.running] = "Ready", !.ready = Append(@, s.running)]

\* The choice at the end of internal_schedule.
Dispatch(s) ==
    IF s.ready = <<>> THEN s
    ELSE IF s.running = NoPid \/ s.status[s.running] # "Running" THEN PopReady(s)
    ELSE PopReady(Requeue(s))

internal_schedule(s, now) == Dispatch(WakeExpired(s, now))

\* The tail of disastrOS_trap: one more turn of the scheduler, if it has a choice.
TrapTail(s, now) ==
    IF s.running # NoPid /\ s.ready # <<>> THEN internal_schedule(s, now) ELSE s

\* The running process waits, blocked in call num.
Park(s, num, arg) == [s EXCEPT !.status[s.running] = "Waiting",
                               !.call[s.running] = [num |-> num, arg |-> arg],
                               !.waiting = @ \cup {s.running}]

\* Mutant: the CPU goes idle though a process is ready.
ParkAndPop_Idle(s, num, arg) == [Park(s, num, arg) EXCEPT !.running = NoPid]

\* The blocking path of sleep, sem_wait, mq_send and mq_receive.
ParkAndPop(s, num, arg) == PopReady(Park(s, num, arg))

-----------------------------------------------------------------------------
(* System calls                                                            *)

me == sched.running

\* A process is in user code and can make a system call.
InUserCode == halt = "no" /\ me # NoPid

\* The handler leaves the scheduler in state s; the trap ends and somebody runs.
EndTrap(s) == sched' = TrapTail(s, time)

\* A handler that ends with its caller still running, and returns v to it.
Return(v) == EndTrap(sched) /\ ret' = [ret EXCEPT ![me] = v]

\* The system stops: by exit(0), or on a null pointer or an assertion.
Stop(how) ==
    /\ halt' = how
    /\ UNCHANGED <<sched, time, last_pid, zombies, parent, children, ret, ptrs>>

\* internal_fork asserts that it is not called.
Fork == InUserCode /\ Stop("fork_not_implemented")

PcbsInUse == Cardinality({p \in Pids : sched.status[p] # "Free"})

Preempt ==
    /\ InUserCode
    /\ EndTrap(internal_schedule(sched, time))
    /\ UNCHANGED <<time, last_pid, zombies, parent, children, ret, ptrs, halt>>

Spawn ==
    LET child == last_pid IN
    /\ InUserCode
    /\ child <= MaxPid
    /\ PcbsInUse < MaxProcs /\ ptrs < MaxProcs
    /\ EndTrap([sched EXCEPT !.status[child] = "Ready", !.ready = Append(@, child)])
    /\ ret' = [ret EXCEPT ![me] = child]
    /\ parent' = [parent EXCEPT ![child] = me]
    /\ children' = [children EXCEPT ![me] = Append(@, child)]
    /\ last_pid' = last_pid + 1
    /\ ptrs' = ptrs + 1
    /\ UNCHANGED <<time, zombies, halt>>

\* PCB_alloc and PCBPtr_alloc write through the null pointer of an empty pool,
\* before internal_spawn can answer DSOS_ESPAWN or its assertion is reached.
SpawnFromEmptyPool ==
    /\ InUserCode
    /\ PcbsInUse = MaxProcs \/ ptrs = MaxProcs
    /\ Stop("pool_exhausted")

\* The positions of the dead children of p that a wait for pid accepts.
DeadChildren(p, pid) ==
    {i \in DOMAIN children[p] : /\ sched.status[children[p][i]] = "Zombie"
                                /\ pid \in {AnyChild, children[p][i]}}

WaitWithoutChildren ==
    /\ InUserCode
    /\ children[me] = <<>>
    /\ Return(EWAIT)
    /\ UNCHANGED <<time, last_pid, zombies, parent, children, ptrs, halt>>

\* Mutant: the block of the child link is freed twice.
FreeLink_Twice(p, i) == children' = [children EXCEPT ![p] = RemoveAt(@, i)] /\ ptrs' = ptrs - 2

FreeLink(p, i) == children' = [children EXCEPT ![p] = RemoveAt(@, i)] /\ ptrs' = ptrs - 1

\* wait finds a dead child: the first one of the list is reaped.
WaitReaps(pid) ==
    LET i == Min(DeadChildren(me, pid))
        z == children[me][i]
    IN
    /\ InUserCode
    /\ DeadChildren(me, pid) # {}
    /\ EndTrap([sched EXCEPT !.status[z] = "Free"])
    /\ ret' = [ret EXCEPT ![me] = z]
    /\ FreeLink(me, i)
    /\ parent' = [parent EXCEPT ![z] = NoPid]
    /\ zombies' = zombies \ {z}
    /\ UNCHANGED <<time, last_pid, halt>>

WaitBlocks(pid) ==
    /\ InUserCode
    /\ children[me] # <<>>
    /\ DeadChildren(me, pid) = {}
    /\ EndTrap(internal_schedule([Park(sched, "wait", pid) EXCEPT !.running = NoPid], time))
    /\ UNCHANGED <<time, last_pid, zombies, parent, children, ret, ptrs, halt>>

Wait(pid) == WaitWithoutChildren \/ WaitReaps(pid) \/ WaitBlocks(pid)

\* Mutant: only a wait for exactly this pid is answered.
WaitsFor_Exact(p, c) == /\ sched.status[p] = "Waiting"
                        /\ sched.call[p].num = "wait"
                        /\ sched.call[p].arg = c

\* p is blocked in a wait that the death of its child c ends.
WaitsFor(p, c) == /\ sched.status[p] = "Waiting"
                  /\ sched.call[p].num = "wait"
                  /\ sched.call[p].arg \in {AnyChild, c}

\* Mutant: the orphans keep their dead parent.
Orphans_KeepParent(p) ==
    /\ children' = [children EXCEPT ![InitPid] = @ \o children[p], ![p] = <<>>]
    /\ parent' = parent

\* The children of p become init's.
Orphans(p) ==
    /\ children' = [children EXCEPT ![InitPid] = @ \o children[p], ![p] = <<>>]
    /\ parent' = [q \in Pids |-> IF q \in ToSet(children[p]) THEN InitPid ELSE parent[q]]

Exit ==
    LET dead == [sched EXCEPT !.status[me] = "Zombie", !.running = NoPid]
        wakes == WaitsFor(parent[me], me)
    IN
    /\ InUserCode
    /\ parent[me] # NoPid
    /\ EndTrap(internal_schedule(IF wakes THEN WakeAll(dead, <<parent[me]>>) ELSE dead, time))
    /\ Orphans(me)
    /\ zombies' = zombies \cup {me}
    /\ UNCHANGED <<time, last_pid, ret, ptrs, halt>>

\* The first line of internal_exit reads the pid of a parent init does not have.
ExitOfInit ==
    /\ InUserCode
    /\ parent[me] = NoPid
    /\ Stop("exit_without_parent")

\* What internal_sleep refuses, or 0.
SleepError(n) ==
    IF me \in sched.armed THEN ESLEEP
    ELSE IF n < 0 THEN EINVAL
    ELSE IF Len(sched.timers) = MaxProcs THEN ESLEEP
    ELSE 0

SleepRefused(n) ==
    /\ InUserCode
    /\ SleepError(n) # 0
    /\ Return(SleepError(n))
    /\ UNCHANGED <<time, last_pid, zombies, parent, children, ptrs, halt>>

SleepBlocks(n) ==
    LET timer == [pid |-> me, at |-> time + n] IN
    /\ InUserCode
    /\ SleepError(n) = 0
    /\ time + n <= MaxTime
    /\ EndTrap(ParkAndPop([sched EXCEPT !.timers = TimerList_add(@, timer),
                                        !.armed = @ \cup {me}], "sleep", n))
    /\ UNCHANGED <<time, last_pid, zombies, parent, children, ret, ptrs, halt>>

Sleep(n) == SleepRefused(n) \/ SleepBlocks(n)

\* setcontext(&main_context), where disastrOS_start calls exit(0).
Shutdown == InUserCode /\ Stop("shutdown")

-----------------------------------------------------------------------------
(* The timer interrupt                                                     *)

\* SIGALRM in user code or in the idle loop.  At MaxTime the clock stands (no
\* timer is later), the interrupts go on.
Tick ==
    /\ halt = "no"
    /\ time' = Min({time + 1, MaxTime})
    /\ sched' = internal_schedule(sched, time')
    /\ UNCHANGED <<last_pid, zombies, parent, children, ret, ptrs, halt>>

-----------------------------------------------------------------------------
(* The specification                                                       *)

\* disastrOS_start: init runs, with pid 0 and no parent.
KernelInit ==
    /\ sched = [running |-> InitPid,
                ready   |-> <<>>,
                waiting |-> {},
                status  |-> [p \in Pids |-> IF p = InitPid THEN "Running" ELSE "Free"],
                timers  |-> <<>>,
                armed   |-> {},
                call    |-> [p \in Pids |-> NoCall]]
    /\ time = 0
    /\ last_pid = 1
    /\ zombies = {}
    /\ parent = [p \in Pids |-> NoPid]
    /\ children = [p \in Pids |-> <<>>]
    /\ ret = [p \in Pids |-> 0]
    /\ ptrs = 0
    /\ halt = "no"

\* The calls of syscall_vector that are the kernel's own.
SystemCall ==
    \/ Fork
    \/ Preempt
    \/ Spawn
    \/ SpawnFromEmptyPool
    \/ \E pid \in Pids : Wait(pid)
    \/ Exit
    \/ ExitOfInit
    \/ \E n \in SleepArgs : Sleep(n)
    \/ Shutdown

KernelNext == Tick \/ SystemCall

KernelSpec == KernelInit /\ [][KernelNext]_kernelVars

-----------------------------------------------------------------------------
(* Properties                                                              *)

\* Every variable holds a value of its type.
KernelTypeOK ==
    /\ sched \in SchedType
    /\ time \in 0 .. MaxTime
    /\ last_pid \in 0 .. MaxPid + 1
    /\ zombies \subseteq Pids
    /\ parent \in [Pids -> Pids \cup {NoPid}]
    /\ children \in [Pids -> Seq(Pids)]
    /\ ret \in [Pids -> Int]
    /\ ptrs \in 0 .. MaxProcs
    /\ halt \in Halts

\* A process is on the one list its status names, once, and on no other: every
\* handler moves it and sets its status by hand.
ListsMatchStatus ==
    /\ \A p \in Pids : /\ sched.status[p] = "Running" <=> p = sched.running
                       /\ sched.status[p] = "Ready" <=> p \in ToSet(sched.ready)
                       /\ sched.status[p] = "Waiting" <=> p \in sched.waiting
                       /\ sched.status[p] = "Zombie" <=> p \in zombies
    /\ IsInjective(sched.ready)

\* The CPU idles only when no process is ready: no handler ends with running = 0
\* and somebody on the ready list, where only a tick would find him.
WorkConserving == sched.running = NoPid => sched.ready = <<>>

\* A process sleeps exactly while one timer is set for it, so that whoever runs
\* has none and internal_sleep never answers DSOS_ESLEEP.
OneTimerPerSleeper ==
    /\ \A i, j \in DOMAIN sched.timers :
          sched.timers[i].pid = sched.timers[j].pid => i = j
    /\ sched.armed = {sched.timers[i].pid : i \in DOMAIN sched.timers}
    /\ sched.armed = {p \in Pids : sched.status[p] = "Waiting"
                                  /\ sched.call[p].num = "sleep"}

\* The timer list is in order and no timer is overdue: internal_schedule looks at
\* the front of the list only.
TimersOnTime ==
    /\ \A i, j \in DOMAIN sched.timers : i < j => sched.timers[i].at <= sched.timers[j].at
    /\ \A i \in DOMAIN sched.timers : sched.timers[i].at >= time

\* Parent and child links agree, a parent is alive, and only init has none: an
\* exit hands its children over to init, dead ones too.
FamilyTree ==
    \A p, q \in Pids :
        /\ q \in ToSet(children[p]) <=> parent[q] = p
        /\ parent[q] = p => /\ sched.status[p] \notin {"Free", "Zombie"}
                            /\ sched.status[q] # "Free"
        /\ IsInjective(children[p])
        /\ parent[p] = NoPid <=> p = InitPid \/ sched.status[p] = "Free"

\* The dead children of p that end a wait with argument arg.
Awaited(p, arg) ==
    {q \in ToSet(children[p]) : sched.status[q] = "Zombie" /\ arg \in {AnyChild, q}}

BlockedInWait(p) == sched.status[p] = "Waiting" /\ sched.call[p].num = "wait"

\* A wait for any child blocks only while a child is alive, so that there is an
\* exit to end it.
WaiterHasLiveChild ==
    \A p \in Pids :
        BlockedInWait(p) /\ sched.call[p].arg = AnyChild =>
            \E q \in ToSet(children[p]) : sched.status[q] # "Zombie"

\* A zombie is released by its own parent alone, whose wait returns its pid.
ReapedByParent ==
    [][\A p \in zombies : p \notin zombies' => parent[p] = me /\ ret'[me] = p]_kernelVars

\* A wait is missed only by init, and only through orphans: whoever is blocked in a
\* wait that a dead child of its own would end was already, or is init and was just
\* handed that child by the exit of another parent, which wakes nobody but its own.
OnlyOrphansAreMissed ==
    [][\A p \in Pids : BlockedInWait(p)' =>
          \A q \in Awaited(p, sched.call[p].arg)' :
              \/ BlockedInWait(p) /\ q \in Awaited(p, sched.call[p].arg)
              \/ p = InitPid /\ p # me /\ parent[q] = me]_kernelVars

-----------------------------------------------------------------------------
(* What the repository says and the code does not do                       *)

\* A process leaves a wait with the pid of the child whose exit ended it
\* (disastrOS_01_structures/README.txt:49-54).
WaitReturnsDeadChild ==
    [][\A p \in Pids : BlockedInWait(p) /\ sched'.status[p] # "Waiting" => ret'[p] = me]_kernelVars

=============================================================================
