-------------------------- MODULE Contexts_proofs --------------------------
(***************************************************************************)
(* What the context switches of disastrOS 05 keep, for every number of     *)
(* processes and wherever the alarms come.                                 *)
(*                                                                         *)
(* The inductive invariant adds to KernelInv which mask goes with which    *)
(* place (MasksFit) and whose context is on the CPU (FramesFit).           *)
(***************************************************************************)
EXTENDS Contexts, Kernel_proofs

\* SIGALRM is blocked in the trap and not on the way into it, nor on the way back
\* to the code after a system call.
MasksFit ==
    /\ cpu.at = "trap" => masked
    /\ cpu.at \in {"user", "call"} => ~masked
    /\ cpu.at = "load" /\ saved[cpu.of].code = "syscall" => ~masked
    /\ \A p \in Pids : saved[p].code = "syscall" /\ ~(cpu.at = "call" /\ cpu.of = p)
                          => ~saved[p].masked

\* Process code is somebody's, kernel code is nobody's; the end of a handler returns
\* to process code, and only a lost frame leads astray.
FramesFit ==
    /\ cpu.at \in {"user", "call", "return", "switch", "load", "astray"} => cpu.of # NoPid
    /\ cpu.at \in {"trap", "interrupt", "idle"} => cpu.of = NoPid
    /\ cpu.at = "idle" => me = NoPid
    /\ cpu.at = "return" => saved[cpu.of].code \in {"user", "call", "handler"}
    /\ cpu.at = "astray" => saved[cpu.of].code = "lost"

ContextsInv == KernelInv /\ RunsAsRunning /\ MasksFit /\ FramesFit

-----------------------------------------------------------------------------
(* The steps                                                               *)

\* The types of the variables, and that whoever runs is a process.
LEMMA ContextTypes ==
    ASSUME ContextsInv
    PROVE  /\ cpu \in [at : Places, of : Pids \cup {NoPid}]
           /\ masked \in BOOLEAN /\ pending \in BOOLEAN
           /\ saved \in [Pids -> [code : Codes, masked : BOOLEAN]]
           /\ me \in Pids \cup {NoPid} /\ NoPid \notin Pids
           /\ cpu.of # NoPid => cpu.of = me
BY InvTypes DEF ContextsInv, RunsAsRunning, ContextsTypeOK, me, NoPid, Pids

\* A context on the CPU after a step is right if it belongs to the process that runs.
LEMMA RunningIsRunning ==
    ASSUME KernelInv, NEW p \in Pids, p = me
    PROVE  sched.status[p] = "Running"
BY DEF KernelInv, Settled, RunsAlone, me

\* The first context is init's.
LEMMA InitEstablishesContexts == ContextsInit => ContextsInv
<1> SUFFICES ASSUME ContextsInit PROVE ContextsInv
  OBVIOUS
<1>1. KernelInv
  BY InitEstablishesInv DEF ContextsInit
<1>2. InitPid \in Pids /\ me = InitPid /\ InitPid # NoPid
  BY KernelAssumption DEF ContextsInit, KernelInit, InitPid, Pids, NoPid, me
<1>3. sched.status[InitPid] = "Running"
  BY <1>1, <1>2, RunningIsRunning
<1>4. ContextsTypeOK
  BY <1>1, <1>2 DEF ContextsInit, KernelInv, ContextsTypeOK, Fresh, Places, Codes
<1> QED
  BY <1>1, <1>2, <1>3, <1>4 DEF ContextsInit, ContextsInv, RunsAsRunning, MasksFit, FramesFit, Fresh

\* A step of the contexts is one of the kernel, or it stops the system, or the kernel
\* does not see it.
LEMMA ContextsKeepKernel ==
    ASSUME ContextsInv, [ContextsNext]_vars
    PROVE  KernelInv'
<1>1. CASE TimerInterrupt \/ Trap
  BY <1>1, NextKeepsInv DEF TimerInterrupt, Trap, KernelNext, ContextsInv
<1>2. CASE Astray /\ Stop("stack_overwritten")
  BY <1>2, StopKeepsInv DEF Halts, ContextsInv
<1>3. CASE UNCHANGED kernelVars
  BY <1>3, NextKeepsInv DEF ContextsInv
<1> QED
  BY <1>1, <1>2, <1>3
     DEF ContextsNext, KernelStep, Alarm, TimerHandler, EnterInterrupt, UserCall, EnterTrap,
         Switch, Load, HandlerReturns, Astray, vars

\* A step that leaves the kernel alone and puts the context of whoever runs, or none,
\* on the CPU.
LEMMA SameKernelRunsAsRunning ==
    ASSUME ContextsInv, KernelInv', UNCHANGED sched,
           cpu' \in [at : Places, of : Pids \cup {NoPid}],
           cpu'.of # NoPid => cpu'.of = me,
           cpu'.at = "user" => ~masked',
           masked' \in BOOLEAN, pending' \in BOOLEAN,
           saved' \in [Pids -> [code : Codes, masked : BOOLEAN]]
    PROVE  RunsAsRunning'
<1>1. cpu'.of # NoPid => cpu'.of \in Pids /\ sched'.status[cpu'.of] = "Running"
  BY RunningIsRunning DEF ContextsInv
<1>2. ContextsTypeOK'
  BY DEF ContextsTypeOK, KernelInv
<1> QED
  BY <1>1, <1>2 DEF RunsAsRunning, me

\* At the end of a trap or an interrupt the context of whoever runs then is resumed.
LEMMA ResumeRunsAsRunning ==
    ASSUME ContextsInv, KernelInv', Resume, UNCHANGED <<masked, pending>>,
           saved' \in [Pids -> [code : Codes, masked : BOOLEAN]]
    PROVE  RunsAsRunning' /\ cpu'.of = sched'.running
           /\ cpu'.at = IF sched'.running = NoPid THEN "idle" ELSE "switch"
<1>1. sched'.running \in Pids \cup {NoPid}
  BY DEF KernelInv, KernelTypeOK, SchedType
<1>2. /\ cpu' \in [at : Places, of : Pids \cup {NoPid}] /\ cpu'.of = sched'.running
      /\ cpu'.at = IF sched'.running = NoPid THEN "idle" ELSE "switch"
  BY <1>1 DEF Resume, On, Places
<1>3. \A p \in Pids : p = sched'.running => sched'.status[p] = "Running"
  BY DEF KernelInv, Settled, RunsAlone
<1>4. ContextsTypeOK'
  BY <1>2, ContextTypes DEF ContextsTypeOK, KernelInv
<1> QED
  BY <1>1, <1>2, <1>3, <1>4 DEF RunsAsRunning, me

\* Another alarm is pending.
LEMMA AlarmKeeps ==
    ASSUME ContextsInv, KernelInv', Alarm
    PROVE  ContextsInv'
<1>1. RunsAsRunning'
  BY ContextTypes, SameKernelRunsAsRunning DEF Alarm, kernelVars, ContextsInv, RunsAsRunning
<1> QED
  BY <1>1 DEF Alarm, kernelVars, ContextsInv, MasksFit, FramesFit, me

\* The handler may save a frame of the kernel's, and is itself never in user code.
LEMMA TimerHandlerKeeps ==
    ASSUME ContextsInv, KernelInv', TimerHandler
    PROVE  ContextsInv'
<1>1. cpu' = [at |-> "handler", of |-> me] /\ masked' = FALSE /\ UNCHANGED sched
      /\ pending' = FALSE
  BY DEF TimerHandler, On, kernelVars
<1>2. Interrupted \in Codes /\ (me \in Pids => Interrupted # "syscall")
  <2>1. cpu.at = "return" => cpu.of = me /\ me \in Pids
                             /\ saved[me].code \in {"user", "call", "handler"}
    BY ContextTypes DEF ContextsInv, FramesFit
  <2> QED
    BY <2>1 DEF Interrupted, Codes
<1>3. saved' \in [Pids -> [code : Codes, masked : BOOLEAN]]
  BY <1>2, ContextTypes DEF TimerHandler
<1>4. RunsAsRunning'
  BY <1>1, <1>3, ContextTypes, SameKernelRunsAsRunning DEF Places
<1>5. MasksFit'
  <2> SUFFICES ASSUME NEW p \in Pids, saved'[p].code = "syscall"
               PROVE  ~saved'[p].masked
    BY <1>1 DEF MasksFit
  <2>1. p # me
    BY <1>2, ContextTypes DEF TimerHandler
  <2>2. saved'[p] = saved[p] /\ ~(cpu.at = "call" /\ cpu.of = p)
    BY <2>1, ContextTypes DEF TimerHandler
  <2> QED
    BY <2>2 DEF ContextsInv, MasksFit
<1>6. FramesFit'
  BY <1>1 DEF FramesFit
<1> QED
  BY <1>4, <1>5, <1>6 DEF ContextsInv

\* Interrupts start with no context of a process on the CPU.
LEMMA EnterInterruptKeeps ==
    ASSUME ContextsInv, KernelInv', EnterInterrupt
    PROVE  ContextsInv'
<1>1. cpu' = [at |-> "interrupt", of |-> NoPid] /\ UNCHANGED <<sched, masked, pending, saved>>
  BY DEF EnterInterrupt, On, kernelVars
<1>2. RunsAsRunning'
  BY <1>1, ContextTypes, SameKernelRunsAsRunning DEF Places
<1>3. ~(cpu.at = "call")
  BY DEF EnterInterrupt, At
<1> QED
  BY <1>1, <1>2, <1>3 DEF ContextsInv, MasksFit, FramesFit

\* The interrupt may hand the CPU over; it ends in idle or towards whoever has it.
LEMMA TimerInterruptKeeps ==
    ASSUME ContextsInv, KernelInv', TimerInterrupt
    PROVE  ContextsInv'
<1>1. Resume /\ UNCHANGED <<masked, pending, saved>> /\ cpu.at = "interrupt"
  BY DEF TimerInterrupt, At
<1>2. RunsAsRunning' /\ cpu'.of = sched'.running
      /\ cpu'.at = IF sched'.running = NoPid THEN "idle" ELSE "switch"
  BY <1>1, ContextTypes, ResumeRunsAsRunning
<1> QED
  BY <1>1, <1>2 DEF ContextsInv, MasksFit, FramesFit, me

\* A call is made in user code, unmasked.
LEMMA UserCallKeeps ==
    ASSUME ContextsInv, KernelInv', UserCall
    PROVE  ContextsInv'
<1>1. /\ cpu' = [at |-> "call", of |-> me] /\ UNCHANGED <<sched, masked, pending>>
      /\ cpu.at = "user" /\ saved' = [saved EXCEPT ![me].code = "syscall"]
  BY DEF UserCall, On, kernelVars, At
<1>2. cpu.of = me /\ me \in Pids /\ ~masked
  BY <1>1, ContextTypes DEF ContextsInv, FramesFit, MasksFit
<1>3. saved' \in [Pids -> [code : Codes, masked : BOOLEAN]]
  BY <1>1, ContextTypes DEF Codes
<1>4. RunsAsRunning'
  BY <1>1, <1>3, ContextTypes, SameKernelRunsAsRunning DEF Places
<1>5. MasksFit'
  <2>1. \A p \in Pids : p # me => saved'[p] = saved[p]
    BY <1>1, ContextTypes
  <2> QED
    BY <1>1, <1>2, <2>1 DEF ContextsInv, MasksFit
<1> QED
  BY <1>1, <1>2, <1>4, <1>5, ContextTypes DEF ContextsInv, FramesFit

\* The mask saved with a call is that of the code that made it.
LEMMA EnterTrapKeeps ==
    ASSUME ContextsInv, KernelInv', EnterTrap
    PROVE  ContextsInv'
<1>1. /\ cpu' = [at |-> "trap", of |-> NoPid] /\ UNCHANGED <<sched, pending>>
      /\ masked' = TRUE /\ cpu.at = "call" /\ saved' = [saved EXCEPT ![me].masked = masked]
  BY DEF EnterTrap, On, kernelVars, At, TrapMask
<1>2. cpu.of = me /\ me \in Pids /\ ~masked
  BY <1>1, ContextTypes DEF ContextsInv, FramesFit, MasksFit
<1>3. saved' \in [Pids -> [code : Codes, masked : BOOLEAN]]
  BY <1>1, ContextTypes
<1>4. RunsAsRunning'
  BY <1>1, <1>3, ContextTypes, SameKernelRunsAsRunning DEF Places
<1>5. MasksFit'
  <2>1. \A p \in Pids : p # me => saved'[p] = saved[p]
    BY <1>1, ContextTypes
  <2>2. saved'[me].masked = masked
    BY <1>1, <1>2, ContextTypes
  <2> QED
    BY <1>1, <1>2, <2>1, <2>2 DEF ContextsInv, MasksFit
<1> QED
  BY <1>1, <1>4, <1>5 DEF ContextsInv, FramesFit

\* A new process gets a context with nothing blocked; everybody else keeps his.
LEMMA TrapKeeps ==
    ASSUME ContextsInv, KernelInv', Trap
    PROVE  ContextsInv'
<1>1. /\ Resume /\ UNCHANGED <<masked, pending>> /\ cpu.at = "trap"
      /\ saved' = saved \/ saved' = [saved EXCEPT ![last_pid] = Fresh]
  BY DEF Trap, At
<1>2. saved' \in [Pids -> [code : Codes, masked : BOOLEAN]]
  <2>1. Fresh \in [code : Codes, masked : BOOLEAN]
    BY DEF Fresh, Codes
  <2> QED
    BY <1>1, <2>1, ContextTypes
<1>3. RunsAsRunning' /\ cpu'.of = sched'.running
      /\ cpu'.at = IF sched'.running = NoPid THEN "idle" ELSE "switch"
  BY <1>1, <1>2, ResumeRunsAsRunning
<1>4. \A p \in Pids : saved'[p] = saved[p] \/ saved'[p] = Fresh
  BY <1>1, ContextTypes
<1>5. MasksFit'
  BY <1>1, <1>3, <1>4 DEF ContextsInv, MasksFit, Fresh
<1> QED
  BY <1>3, <1>5 DEF ContextsInv, FramesFit, me

\* The mask and then the registers of the process that runs are restored, and a
\* handler returns to what it interrupted.
LEMMA BackKeeps ==
    ASSUME ContextsInv, KernelInv', Switch \/ Load \/ HandlerReturns
    PROVE  ContextsInv'
<1>1. /\ UNCHANGED <<sched, pending, saved>>
      /\ cpu.at \in {"switch", "load", "return"} /\ cpu'.of = cpu.of
      /\ cpu.of = me /\ me \in Pids
  BY ContextTypes DEF ContextsInv, FramesFit, Switch, Load, HandlerReturns, On, At, kernelVars
<1>2. CASE Switch
  <2>1. cpu' = [at |-> "load", of |-> me] /\ masked' = saved[me].masked
    BY <1>1, <1>2 DEF Switch, On
  <2>2. RunsAsRunning'
    BY <1>1, <2>1, ContextTypes, SameKernelRunsAsRunning DEF Places
  <2> QED
    BY <1>1, <1>2, <2>1, <2>2, ContextTypes DEF ContextsInv, MasksFit, FramesFit, Switch, At
<1>3. CASE Load
  <2>1. /\ cpu' = [at |-> CASE saved[me].code = "syscall" -> "user"
                            [] saved[me].code = "lost" -> "astray"
                            [] OTHER -> "return", of |-> me]
        /\ masked' = masked /\ cpu.at = "load"
    BY <1>1, <1>3 DEF Load, On, At
  <2>2. saved[me].code \in Codes
    BY <1>1, ContextTypes
  <2>3. /\ cpu'.at \in {"user", "astray", "return"}
        /\ cpu'.at = "user" => ~masked'
        /\ cpu'.at = "return" => saved[me].code \in {"user", "call", "handler"}
        /\ cpu'.at = "astray" => saved[me].code = "lost"
    BY <1>1, <2>1, <2>2 DEF Codes, ContextsInv, MasksFit
  <2>4. RunsAsRunning'
    BY <1>1, <2>1, <2>3, ContextTypes, SameKernelRunsAsRunning DEF Places
  <2> QED
    BY <1>1, <2>1, <2>3, <2>4, ContextTypes DEF ContextsInv, MasksFit, FramesFit
<1>4. CASE HandlerReturns
  <2>1. cpu' = [at |-> saved[me].code, of |-> me] /\ masked' = FALSE /\ cpu.at = "return"
    BY <1>1, <1>4 DEF HandlerReturns, On, At
  <2>2. saved[me].code \in {"user", "call", "handler"}
    BY <1>1, <2>1 DEF ContextsInv, FramesFit
  <2>3. RunsAsRunning'
    BY <1>1, <2>1, <2>2, ContextTypes, SameKernelRunsAsRunning DEF Places
  <2> QED
    BY <1>1, <2>1, <2>2, <2>3, ContextTypes DEF ContextsInv, MasksFit, FramesFit
<1> QED
  BY <1>2, <1>3, <1>4

\* What has gone astray stays so.
LEMMA AstrayKeeps ==
    ASSUME ContextsInv, KernelInv', Astray
    PROVE  ContextsInv'
<1>1. /\ UNCHANGED <<sched, cpu, pending, saved>> /\ cpu.at = "astray"
      /\ masked' \in BOOLEAN
  BY ContextTypes DEF Astray, Stop, contextVars, kernelVars, At
<1>2. RunsAsRunning'
  BY <1>1, ContextTypes, SameKernelRunsAsRunning
<1> QED
  BY <1>1, <1>2 DEF ContextsInv, MasksFit, FramesFit, me

\* Every step keeps the invariant.
LEMMA ContextsStepKeeps == ContextsInv /\ [ContextsNext]_vars => ContextsInv'
<1> SUFFICES ASSUME ContextsInv, [ContextsNext]_vars PROVE ContextsInv'
  OBVIOUS
<1>1. KernelInv'
  BY ContextsKeepKernel
<1>2. CASE UNCHANGED vars
  <2>1. RunsAsRunning'
    BY <1>1, <1>2, ContextTypes, SameKernelRunsAsRunning
       DEF vars, kernelVars, contextVars, ContextsInv, RunsAsRunning
  <2> QED
    BY <1>1, <1>2, <2>1 DEF vars, kernelVars, contextVars, ContextsInv, MasksFit, FramesFit, me
<1> QED
  BY <1>1, <1>2, AlarmKeeps, TimerHandlerKeeps, EnterInterruptKeeps, TimerInterruptKeeps,
     UserCallKeeps, EnterTrapKeeps, TrapKeeps, BackKeeps, AstrayKeeps
     DEF ContextsNext, KernelStep

\* The invariant holds in every behaviour.
THEOREM ContextsInvariant == ContextsSpec => []ContextsInv
<1> QED
  BY InitEstablishesContexts, ContextsStepKeeps, PTL DEF ContextsSpec

-----------------------------------------------------------------------------
(* What the invariant gives                                                *)

\* The code on the CPU is that of the process the kernel counts as running, and in
\* its function an alarm can interrupt it.
THEOREM CpuBelongsToRunning == ContextsSpec => []RunsAsRunning
<1>1. ContextsInv => RunsAsRunning
  BY DEF ContextsInv
<1> QED
  BY <1>1, ContextsInvariant, PTL

\* A process loses the context it stopped with only to an alarm inside a switch, or
\* to one that interrupts an interrupt.
THEOREM ContextsSurvive == ContextsSpec => LostOnlyInSwitches
<1> DEFINE Kept == \A p \in Pids : saved[p].code \in Own /\ saved'[p].code \notin Own =>
                      cpu.at \in {"call", "handler", "interrupt", "switch", "load"}
<1>1. ContextsInv /\ [ContextsNext]_vars => [Kept]_vars
  <2> SUFFICES ASSUME ContextsInv, ContextsNext, NEW p \in Pids,
                      saved[p].code \in Own, saved'[p].code \notin Own
               PROVE  cpu.at \in {"call", "handler", "interrupt", "switch", "load"}
    OBVIOUS
  <2>1. TimerHandler
    <3>1. saved'[p].code = saved[p].code \/ saved'[p].code = "syscall" \/ TimerHandler
      BY ContextTypes
         DEF ContextsNext, KernelStep, Alarm, EnterInterrupt, TimerInterrupt, UserCall,
             EnterTrap, Trap, Switch, Load, HandlerReturns, Astray, Stop, contextVars, Fresh
    <3> QED
      BY <3>1 DEF Own
  <2>2. p = me /\ saved'[p].code = Interrupted
    BY <2>1, ContextTypes DEF TimerHandler
  <2>3. cpu.at \notin {"user", "return"}
    BY <2>2 DEF Interrupted, Own
  <2>4. cpu.at \notin {"trap", "idle", "astray"}
    BY <2>1, <2>2, ContextTypes
       DEF TimerHandler, Deliverable, ContextsInv, MasksFit, FramesFit, Own
  <2> QED
    BY <2>3, <2>4, ContextTypes DEF Places
<1> QED
  BY <1>1, ContextsInvariant, PTL DEF ContextsSpec, LostOnlyInSwitches

=============================================================================
