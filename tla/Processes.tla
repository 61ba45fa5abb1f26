----------------------------- MODULE Processes ------------------------------
(***************************************************************************)
(* The processes of the stages of disastrOS before 05: what pcb, spawn,    *)
(* wait, exit and the start-up code do in disastrOS_01_structures and      *)
(* disastrOS_02_processes, and in the stages built on them.                *)
(* Timers, Resources, Ageing and Quanta are those stages: each has its own *)
(* scheduler and adds what it keeps per process.                           *)
(*                                                                         *)
(* Unlike stage 05, an exit here may hand the CPU to the waiting parent    *)
(* and free the PCB of the caller at once, and it leaves pcb->parent of    *)
(* the orphans alone.  Such a pointer outlives the parent and may come to  *)
(* point to another process: a process is therefore the block of its PCB,  *)
(* and the pool is the stack that pool_allocator.c makes of it.            *)
(***************************************************************************)
EXTENDS Integers, Sequences, FiniteSets, FiniteSetsExt, SequencesExt

CONSTANTS
    MaxPid,     \* bound: the largest pid a behaviour hands out
    MaxProcs,   \* MAX_NUM_PROCESSES, the blocks of the PCB and PCBPtr pools
    WaitArgs    \* the pids processes wait for

ASSUME ProcessesAssumption ==
    /\ MaxPid \in Nat
    /\ MaxProcs \in Nat \ {0}
    /\ WaitArgs \subseteq Nat

VARIABLES
    pcb,        \* the blocks of the PCB pool
    free,       \* its free list: getBlock and releaseBlock work at the front
    ptrs,       \* free blocks of the PCBPtr pool
    last_pid,   \* the pid PCB_alloc hands out next
    init_pcb,
    running,
    ready_list,
    ret,        \* pcb->syscall_retvalue
    halt        \* "no" while the system is up, else how it stopped

procVars == <<pcb, free, ptrs, last_pid, init_pcb, running, ready_list, ret, halt>>

Blocks == 1 .. MaxProcs
Null == 0
Pids == 0 .. MaxPid
AnyChild == 0           \* the pid argument of a wait for whichever child
NotInWait == -1         \* in place of that argument, for who is not in wait
EWAIT == -5

Halts == {"no", "shutdown", "fork_not_implemented", "pool_exhausted", "no_process",
          "init_adopts_itself", "no_parent", "not_in_parent", "nothing_ready"}

PcbType == [pid      : Pids \cup {-1},
            status   : {"Running", "Ready", "Waiting", "Zombie"},
            parent   : Blocks \cup {Null},
            children : Seq(Blocks),
            awaits   : WaitArgs \cup {NotInWait}]    \* syscall_num and syscall_args[0]

\* A block on the free list.  PCB_free changes nothing in it; all that is read of
\* it, through the parent pointer of an orphan, is that the status is Zombie.
FreePcb == [pid |-> -1, status |-> "Zombie", parent |-> Null, children |-> <<>>,
            awaits |-> NotInWait]

NewPcb(status, parent) == [pid |-> last_pid, status |-> status, parent |-> parent,
                           children |-> <<>>, awaits |-> NotInWait]

InUserCode == halt = "no" /\ running # Null

\* The system stops: by exit(0), on a null pointer or an assertion, or in a loop.
Stop(how) ==
    /\ halt' = how
    /\ UNCHANGED <<pcb, free, ptrs, last_pid, init_pcb, running, ready_list, ret>>

-----------------------------------------------------------------------------
(* The scheduler                                                           *)

\* The i-th process of the ready list q runs, the running one goes to its end.
SwitchTo(p, q, i) ==
    /\ pcb' = [p EXCEPT ![running].status = "Ready", ![q[i]].status = "Running"]
    /\ ready_list' = Append(RemoveAt(q, i), running)
    /\ running' = q[i]

\* The tail of internal_schedule, with the PCBs and the ready list as they are by then.
Rotate(p, q) ==
    IF q = <<>>
    THEN pcb' = p /\ ready_list' = q /\ running' = running
    ELSE SwitchTo(p, q, 1)

-----------------------------------------------------------------------------
(* System calls                                                            *)

\* The block the next PCB_alloc returns.
NextPcb == Head(free)

Spawn ==
    /\ InUserCode
    /\ last_pid <= MaxPid
    /\ free # <<>> /\ ptrs > 0
    /\ pcb' = [pcb EXCEPT ![NextPcb] = NewPcb("Ready", running),
                          ![running].children = Append(@, NextPcb)]
    /\ ready_list' = Append(ready_list, NextPcb)
    /\ ret' = [ret EXCEPT ![running] = last_pid]
    /\ free' = Tail(free)
    /\ ptrs' = ptrs - 1
    /\ last_pid' = last_pid + 1
    /\ UNCHANGED <<init_pcb, running, halt>>

\* PCB_alloc and PCBPtr_alloc write through the null pointer of an empty pool.
SpawnFromEmptyPool ==
    /\ InUserCode
    /\ free = <<>> \/ ptrs = 0
    /\ Stop("pool_exhausted")

Fork == InUserCode /\ Stop("fork_not_implemented")

Shutdown == InUserCode /\ Stop("shutdown")

WaitWithoutChildren ==
    /\ InUserCode
    /\ pcb[running].children = <<>>
    /\ ret' = [ret EXCEPT ![running] = EWAIT]
    /\ UNCHANGED <<pcb, free, ptrs, last_pid, init_pcb, running, ready_list, halt>>

\* The positions of the dead children that a wait of b for pid accepts.
DeadChildren(b, pid) ==
    {i \in DOMAIN pcb[b].children :
        LET child == pcb[pcb[b].children[i]]
        IN child.status = "Zombie" /\ pid \in {AnyChild, child.pid}}

WaitReaps(pid) ==
    LET i == Min(DeadChildren(running, pid))
        z == pcb[running].children[i]
    IN
    /\ InUserCode
    /\ DeadChildren(running, pid) # {}
    /\ ret' = [ret EXCEPT ![running] = pcb[z].pid]
    /\ pcb' = [pcb EXCEPT ![running].children = RemoveAt(@, i), ![z] = FreePcb]
    /\ free' = <<z>> \o free
    /\ ptrs' = ptrs + 1
    /\ UNCHANGED <<last_pid, init_pcb, running, ready_list, halt>>

\* The PCBs p, and the head of the ready list runs, or nothing does.
PopReady(p) ==
    IF ready_list = <<>>
    THEN /\ pcb' = p
         /\ running' = Null
         /\ UNCHANGED ready_list
    ELSE /\ pcb' = [p EXCEPT ![Head(ready_list)].status = "Running"]
         /\ running' = Head(ready_list)
         /\ ready_list' = Tail(ready_list)

\* The PCBs, with the caller waiting for pid.
Parked(pid) == [pcb EXCEPT ![running].status = "Waiting", ![running].awaits = pid]

\* The caller waits and leaves the CPU.  How it leaves it is a reconstruction: the
\* one wait.c of the repository, that of disastrOS_01_structures, includes a header
\* only stage 05 has, sets running = 0 and calls internal_schedule.  Stage 05's
\* accepts that; those of these stages write through the null pointer or assert
\* that a process runs.  Their Makefiles name a wait.c that is not there; this is
\* the block their exits expect to find.
WaitBlocks(pid) ==
    /\ InUserCode
    /\ pcb[running].children # <<>>
    /\ DeadChildren(running, pid) = {}
    /\ PopReady(Parked(pid))
    /\ UNCHANGED <<free, ptrs, last_pid, init_pcb, ret, halt>>

Wait(pid) == WaitWithoutChildren \/ WaitReaps(pid) \/ WaitBlocks(pid)

-----------------------------------------------------------------------------
(* Exit                                                                    *)

father == pcb[running].parent

\* Mutant: the children stay with the dead process.
Orphaned_Kept == pcb

\* The children of the caller go to the end of init's list.  Their parent
\* pointers stay as they are.
Orphaned == [pcb EXCEPT ![init_pcb].children = @ \o pcb[running].children,
                        ![running].children = <<>>]

\* The loop that moves the children of init to the end of init's children.
ExitAdoptsItself ==
    /\ InUserCode
    /\ running = init_pcb
    /\ pcb[running].children # <<>>
    /\ Stop("init_adopts_itself")

CanExit == InUserCode /\ (running = init_pcb => pcb[running].children = <<>>)

\* running->parent->signals, for init or an earlier init.
ExitWithoutParent == CanExit /\ father = Null /\ Stop("no_parent")

\* The parent pointer leads to a process blocked in a wait that this exit ends.
FatherWaits == pcb[father].status = "Waiting"
               /\ pcb[father].awaits \in {AnyChild, pcb[running].pid}

\* The father runs at once, with the pid of the child as its result; the PCB is
\* free and the PCBPtr that led to it is not.
ExitToParent ==
    /\ CanExit
    /\ father # Null
    /\ FatherWaits
    /\ running \in ToSet(pcb[father].children)
    /\ pcb' = [Orphaned EXCEPT ![father].status = "Running",
                               ![father].awaits = NotInWait,
                               ![father].children = RemoveFirst(@, running),
                               ![running] = FreePcb]
    /\ ret' = [ret EXCEPT ![father] = pcb[running].pid]
    /\ free' = <<running>> \o free
    /\ running' = father
    /\ UNCHANGED <<ptrs, last_pid, init_pcb, ready_list, halt>>

\* The waiting process is not the one that spawned the caller, it has its block:
\* PCBPtr_byPID finds nothing and List_detach is given a null pointer.
ExitToStranger ==
    /\ CanExit
    /\ father # Null
    /\ FatherWaits
    /\ running \notin ToSet(pcb[father].children)
    /\ Stop("not_in_parent")

ExitToNext ==
    /\ CanExit
    /\ father # Null
    /\ ~ FatherWaits
    /\ ready_list # <<>>
    /\ PopReady([Orphaned EXCEPT ![running].status = "Zombie"])
    /\ UNCHANGED <<free, ptrs, last_pid, init_pcb, ret, halt>>

\* List_detach of the first of no processes.
ExitToNobody ==
    /\ CanExit
    /\ father # Null
    /\ ~ FatherWaits
    /\ ready_list = <<>>
    /\ Stop("nothing_ready")

-----------------------------------------------------------------------------
(* Start and restart                                                       *)

\* The trap ends with running = 0 and returns to main_context, in the middle of
\* disastrOS_start: a new init runs, beside the processes there are.
Restart ==
    /\ halt = "no" /\ running = Null
    /\ last_pid <= MaxPid
    /\ free # <<>>
    /\ pcb' = [pcb EXCEPT ![NextPcb] = NewPcb("Running", Null)]
    /\ running' = NextPcb
    /\ init_pcb' = NextPcb
    /\ free' = Tail(free)
    /\ last_pid' = last_pid + 1
    /\ UNCHANGED <<ptrs, ready_list, ret, halt>>

RestartWithEmptyPool ==
    /\ halt = "no" /\ running = Null
    /\ free = <<>>
    /\ Stop("pool_exhausted")

\* SIGALRM comes before the new init is there: timerHandler saves the context of
\* a process in running->cpu_state.
InterruptOfNobody == halt = "no" /\ running = Null /\ Stop("no_process")

ProcessesInit ==
    /\ pcb = [b \in Blocks |-> IF b = 1 THEN [FreePcb EXCEPT !.pid = 0, !.status = "Running"]
                                        ELSE FreePcb]
    /\ free = [i \in 1 .. MaxProcs - 1 |-> i + 1]
    /\ ptrs = MaxProcs
    /\ last_pid = 1
    /\ init_pcb = 1
    /\ running = 1
    /\ ready_list = <<>>
    /\ ret = [b \in Blocks |-> 0]
    /\ halt = "no"

\* The steps that create no process and hand no CPU to a waiting parent.
OtherStep ==
    \/ SpawnFromEmptyPool
    \/ Fork
    \/ Shutdown
    \/ \E pid \in WaitArgs : Wait(pid)
    \/ ExitAdoptsItself
    \/ ExitWithoutParent
    \/ ExitToStranger
    \/ ExitToNext
    \/ ExitToNobody
    \/ RestartWithEmptyPool
    \/ InterruptOfNobody

-----------------------------------------------------------------------------
(* Properties                                                              *)

Allocated == Blocks \ ToSet(free)

ProcessesTypeOK ==
    /\ pcb \in [Blocks -> PcbType]
    /\ free \in Seq(Blocks)
    /\ ptrs \in 0 .. MaxProcs
    /\ last_pid \in 0 .. MaxPid + 1
    /\ init_pcb \in Blocks
    /\ running \in Blocks \cup {Null}
    /\ ready_list \in Seq(Blocks)
    /\ ret \in [Blocks -> Int]
    /\ halt \in Halts

\* The lists agree with the PCBs, whose blocks are freed and used again at once:
\* no block is free twice; who is ready is on the ready list once, and but for
\* the process that runs nobody has another status there; and a process that is
\* allocated is on exactly one list of children, however often it was handed on
\* by the exits of its parents, unless it has been init.
ProcessesListed ==
    /\ ProcessesTypeOK
    /\ IsInjective(free) /\ IsInjective(ready_list)
    /\ \A b \in Allocated \ {running} : pcb[b].status = "Ready" <=> b \in ToSet(ready_list)
    /\ running \in Allocated \cup {Null} /\ running \notin ToSet(ready_list)
    /\ \A b \in Blocks :
          Cardinality({x \in Allocated \X Blocks :
                          LET list == pcb[x[1]].children
                          IN x[2] \in DOMAIN list /\ list[x[2]] = b})
          = IF b \in Allocated /\ pcb[b].parent # Null THEN 1 ELSE 0

=============================================================================
