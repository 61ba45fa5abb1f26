------------------------------ MODULE Contexts ------------------------------
(***************************************************************************)
(* The contexts behind the kernel of disastrOS 05: how swapcontext,        *)
(* setcontext and the signal mask hand the one CPU from process code to    *)
(* the trap or the interrupt and back, and where SIGALRM may come in.      *)
(*                                                                         *)
(* swapcontext and setcontext change the mask before they load registers,  *)
(* in two steps between which a pending SIGALRM is delivered.  The handler *)
(* has no stack of its own; trap and interrupt share one system stack and  *)
(* start from its top each time, so that a context saved while the kernel  *)
(* is on it is overwritten before it is resumed.                           *)
(*                                                                         *)
(* Kernel's system calls and its Tick stay one step each: an alarm in the  *)
(* middle of internal_schedule, which timerInterrupt runs with SIGALRM     *)
(* unblocked, is left out; one just before or behind it is not.            *)
(***************************************************************************)
EXTENDS Kernel

VARIABLES
    cpu,        \* where the one CPU is
    masked,     \* SIGALRM is blocked
    pending,    \* SIGALRM has been raised and waits to be delivered
    saved       \* pcb->cpu_state

contextVars == <<cpu, masked, pending, saved>>
vars == <<kernelVars, contextVars>>

\* Process code, on the stack of a process:
\*   user     - its function
\*   call     - in the swapcontext of disastrOS_syscall, its registers saved
\*   handler  - in the swapcontext of timerHandler, its registers saved
\*   return   - at the end of timerHandler, resumed
\* Kernel code, on the system stack:
\*   trap, interrupt - about to run disastrOS_trap, timerInterrupt
\*   idle     - in idle_routine
\*   switch   - at its setcontext, the mask not yet changed
\*   load     - in that setcontext, the mask changed
\* astray: on what other code has left of a frame on the system stack.
Places == {"user", "call", "handler", "return",
           "trap", "interrupt", "idle", "switch", "load", "astray"}

\* What resuming a saved context leads to:
\*   syscall  - the end of a system call, or the start of the function
\*   user, call, handler - through the end of timerHandler, what it interrupted there
\*   lost     - a frame on the system stack
Codes == {"syscall", "user", "call", "handler", "lost"}

\* A context with which a process goes on where its own code stopped, once.
Own == {"syscall", "user"}

\* Mutant: the mask of the spawning trap, which getcontext reads, is kept.
Fresh_Masked == [code |-> "syscall", masked |-> TRUE]

\* The context internal_spawn makes: its function, with no signal blocked.
Fresh == [code |-> "syscall", masked |-> FALSE]

On(place, p) == cpu' = [at |-> place, of |-> p]

\* The CPU takes no step while a signal can be delivered.
At(place) == halt = "no" /\ cpu.at = place /\ ~(pending /\ ~masked)

-----------------------------------------------------------------------------
(* SIGALRM                                                                 *)

\* setitimer: another interval has passed.
Alarm ==
    /\ halt = "no"
    /\ ~pending /\ pending' = TRUE
    /\ UNCHANGED <<kernelVars, cpu, masked, saved>>

\* Mutant: the mask of sigsuspend holds SIGALRM like all other signals.
Deliverable_NotInIdle == pending /\ ~masked

\* sigsuspend lets SIGALRM in, whatever the mask.
Deliverable == pending /\ (~masked \/ cpu.at = "idle")

\* What the handler, whose context is saved, was called from.
Interrupted ==
    IF cpu.at = "return" THEN saved[me].code
    ELSE IF cpu.at \in {"user", "call", "handler"} THEN cpu.at
    ELSE "lost"

\* timerHandler, up to the middle of its swapcontext (or setcontext, if no process
\* runs): the alarm is blocked until then.
TimerHandler ==
    /\ halt = "no"
    /\ Deliverable
    /\ pending' = FALSE
    /\ saved' = IF me = NoPid THEN saved
                ELSE [saved EXCEPT ![me] = [code |-> Interrupted, masked |-> TRUE]]
    /\ masked' = FALSE
    /\ On("handler", me)
    /\ UNCHANGED kernelVars

\* The registers of interrupt_context.
EnterInterrupt ==
    /\ At("handler")
    /\ On("interrupt", NoPid)
    /\ UNCHANGED <<kernelVars, masked, pending, saved>>

\* The end of trap and interrupt: the setcontext to the process that runs now.
Resume == IF sched'.running = NoPid THEN On("idle", NoPid) ELSE On("switch", sched'.running)

TimerInterrupt ==
    /\ At("interrupt")
    /\ Tick
    /\ Resume
    /\ UNCHANGED <<masked, pending, saved>>

-----------------------------------------------------------------------------
(* System calls                                                            *)

\* disastrOS_syscall, up to the point where swapcontext has saved the registers.
UserCall ==
    /\ At("user")
    /\ On("call", me)
    /\ saved' = [saved EXCEPT ![me].code = "syscall"]
    /\ UNCHANGED <<kernelVars, masked, pending>>

\* Mutant: the trap context does not block SIGALRM.
TrapMask_Empty == FALSE

\* trap_context.uc_sigmask holds SIGALRM.
TrapMask == TRUE

\* The rest of that swapcontext: the old mask is saved, that of trap_context set.
EnterTrap ==
    /\ At("call")
    /\ saved' = [saved EXCEPT ![me].masked = masked]
    /\ masked' = TrapMask
    /\ On("trap", NoPid)
    /\ UNCHANGED <<kernelVars, pending>>

\* disastrOS_trap; a repeated call is any call.
Trap ==
    /\ At("trap")
    /\ SystemCall
    /\ saved' = IF last_pid' # last_pid THEN [saved EXCEPT ![last_pid] = Fresh] ELSE saved
    /\ Resume
    /\ UNCHANGED <<masked, pending>>

-----------------------------------------------------------------------------
(* Back to a process                                                       *)

\* setcontext sets the mask of the context.
Switch ==
    /\ At("switch")
    /\ masked' = saved[cpu.of].masked
    /\ On("load", cpu.of)
    /\ UNCHANGED <<kernelVars, pending, saved>>

\* It loads the registers.
Load ==
    /\ At("load")
    /\ On(CASE saved[cpu.of].code = "syscall" -> "user"
            [] saved[cpu.of].code = "lost" -> "astray"
            [] OTHER -> "return", cpu.of)
    /\ UNCHANGED <<kernelVars, masked, pending, saved>>

\* timerHandler returns: sigreturn restores what it interrupted, unblocked.
HandlerReturns ==
    /\ At("return")
    /\ masked' = FALSE
    /\ On(saved[me].code, me)
    /\ UNCHANGED <<kernelVars, pending, saved>>

\* What the overwritten frame leads to: the program crashes or hangs, or a sigreturn
\* to a frame of other code, again and again until an alarm takes the CPU away.
Astray ==
    /\ At("astray")
    /\ \/ Stop("stack_overwritten") /\ UNCHANGED contextVars
       \/ masked /\ masked' = FALSE /\ UNCHANGED <<kernelVars, cpu, pending, saved>>

-----------------------------------------------------------------------------
(* The specification                                                       *)

\* The first interval is long enough for init to be started.
ContextsInit ==
    /\ KernelInit
    /\ cpu = [at |-> "user", of |-> InitPid]
    /\ masked = FALSE
    /\ pending = FALSE
    /\ saved = [p \in Pids |-> Fresh]

\* What the CPU does without being asked by a process.
KernelStep == EnterTrap \/ Trap \/ Switch \/ Load \/ HandlerReturns \/ Astray

ContextsNext ==
    \/ Alarm
    \/ TimerHandler
    \/ EnterInterrupt
    \/ TimerInterrupt
    \/ UserCall
    \/ KernelStep

ContextsSpec == ContextsInit /\ [][ContextsNext]_vars

\* The alarms go on and are delivered, the CPU does not stop in the kernel.  The
\* interval is much longer than an interrupt: not every one of them is interrupted
\* by the next.  Nothing is assumed of process code.
ContextsFairSpec ==
    /\ ContextsSpec
    /\ WF_vars(Alarm)
    /\ WF_vars(TimerHandler)
    /\ SF_vars(EnterInterrupt)
    /\ SF_vars(TimerInterrupt)
    /\ WF_vars(KernelStep)

-----------------------------------------------------------------------------
(* Properties                                                              *)

\* Every variable holds a value of its type.
ContextsTypeOK ==
    /\ KernelTypeOK
    /\ cpu \in [at : Places, of : Pids \cup {NoPid}]
    /\ masked \in BOOLEAN
    /\ pending \in BOOLEAN
    /\ saved \in [Pids -> [code : Codes, masked : BOOLEAN]]

\* Code of a process is on the CPU only while the kernel counts that process as
\* running, and in its function SIGALRM can interrupt it: the mask of every context
\* it may come back with is the right one, or it would keep the CPU for ever.
RunsAsRunning ==
    /\ ContextsTypeOK
    /\ cpu.of # NoPid => cpu.of = me /\ sched.status[me] = "Running"
    /\ cpu.at = "user" => ~masked

\* A process that is preempted in its function, or whose system call waits, keeps
\* the context it stopped with, however often alarms interrupt the others: it loses
\* it only to an alarm inside a swapcontext or setcontext, or to one that interrupts
\* an interrupt.
LostOnlyInSwitches ==
    [][\A p \in Pids : saved[p].code \in Own /\ saved'[p].code \notin Own =>
          cpu.at \in {"call", "handler", "interrupt", "switch", "load"}]_vars

\* Every sleeper wakes, whatever the processes do: no mask stays set, the idle loop
\* lets the alarm in, and an interrupt that is interrupted is made up for.
SleeperWakes == \A p \in Pids : p \in sched.armed ~> (p \notin sched.armed \/ halt # "no")

-----------------------------------------------------------------------------
(* What the repository says and the code does not do                       *)

\* The context that a process saves before a system call is the one the trap
\* resumes (disastrOS_02_processes/disastrOS.c:131): no frame of the kernel's takes
\* its place.
SyscallContextStays ==
    [][\A p \in Pids : saved[p].code = "syscall" => saved'[p].code # "lost"]_vars

=============================================================================
