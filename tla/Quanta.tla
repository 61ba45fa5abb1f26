------------------------------- MODULE Quanta -------------------------------
(***************************************************************************)
(* The exercise on stage 02 (disastrOS_02_exercise): a scheduler that runs *)
(* the ready process with most quanta to go, and spawnWithPriority, which  *)
(* gives a process its quanta.                                             *)
(***************************************************************************)
EXTENDS Processes

CONSTANTS
    MAX_PRIORITY,   \* DSOS_MAX_PRIORITY
    Requests        \* the quanta processes ask for

ASSUME QuantaAssumption == MAX_PRIORITY \in Nat \ {0} /\ Requests \subseteq Int

VARIABLE quanta     \* the three quantum fields of a PCB

quantaVars == <<procVars, quanta>>

ESPAWN_W_PRIORITY == -8

Fresh(n) == [total |-> n, elapsed |-> 0, to_go |-> n]

-----------------------------------------------------------------------------
(* The scheduler                                                           *)

\* Mutant: the running process gets no new quanta.
Refilled_Never == quanta

\* The running process starts over if it has used up its quanta.
Refilled ==
    IF quanta[running].to_go = 0
    THEN [quanta EXCEPT ![running] = Fresh(quanta[running].total)]
    ELSE quanta

\* Mutant: the last of those with most quanta to go.
MostToGo_Last ==
    CHOOSE i \in DOMAIN ready_list : \A j \in DOMAIN ready_list :
        /\ quanta[ready_list[i]].to_go >= quanta[ready_list[j]].to_go
        /\ j > i => quanta[ready_list[i]].to_go > quanta[ready_list[j]].to_go

\* The position of the first process with most quanta to go.
MostToGo ==
    CHOOSE i \in DOMAIN ready_list : \A j \in DOMAIN ready_list :
        /\ quanta[ready_list[i]].to_go >= quanta[ready_list[j]].to_go
        /\ j < i => quanta[ready_list[i]].to_go > quanta[ready_list[j]].to_go

\* b uses up one of its quanta.
Consume(q, b) ==
    [q EXCEPT ![b].to_go = @ - 1, ![b].elapsed = q[b].total - (q[b].to_go - 1)]

\* What internal_schedule asserts of the process on the CPU.  That there is one it
\* asserts first; the interrupt without one ends in timerHandler, before this call
\* (InterruptOfNobody).
Healthy(b) == quanta[b].to_go > -1 /\ quanta[b].elapsed <= quanta[b].total

QuantaSchedule ==
    /\ IF ready_list = <<>>
       THEN UNCHANGED <<pcb, running, ready_list>>
       ELSE SwitchTo(pcb, ready_list, MostToGo)
    /\ quanta' = Consume(Refilled, running')
    /\ UNCHANGED <<free, ptrs, last_pid, init_pcb, ret, halt>>

\* disastrOS_preempt and the timer interrupt are the same to the scheduler.
QuantaPreempt == InUserCode /\ QuantaSchedule
QuantaTick == InUserCode /\ QuantaSchedule

-----------------------------------------------------------------------------
(* Processes that come and go                                              *)

\* PCB_alloc gives every process one quantum.
SpawnPlain == Spawn /\ quanta' = [quanta EXCEPT ![NextPcb] = Fresh(1)]

QuantaRestart == Restart /\ quanta' = [quanta EXCEPT ![NextPcb] = Fresh(1)]

Acceptable(n) == n >= 1 /\ n <= MAX_PRIORITY

SpawnWithPriority(n) ==
    /\ Spawn
    /\ Acceptable(n)
    /\ quanta' = [quanta EXCEPT ![NextPcb] = Fresh(n)]

SpawnRefused(n) ==
    /\ InUserCode
    /\ ~ Acceptable(n)
    /\ ret' = [ret EXCEPT ![running] = ESPAWN_W_PRIORITY]
    /\ UNCHANGED <<pcb, free, ptrs, last_pid, init_pcb, running, ready_list, halt, quanta>>

QuantaExit == ExitToParent /\ UNCHANGED quanta

-----------------------------------------------------------------------------
(* The specification                                                       *)

QuantaInit == ProcessesInit /\ quanta = [b \in Blocks |-> Fresh(1)]

QuantaNext ==
    \/ OtherStep /\ UNCHANGED quanta
    \/ QuantaTick
    \/ QuantaPreempt
    \/ SpawnPlain
    \/ \E n \in Requests : SpawnWithPriority(n) \/ SpawnRefused(n)
    \/ QuantaRestart
    \/ QuantaExit

\* What follows a trap that ends without a process.
QuantaLeavesTrap ==
    \/ QuantaRestart
    \/ (RestartWithEmptyPool \/ InterruptOfNobody) /\ UNCHANGED quanta

\* The interrupts go on, and so does disastrOS_start after such a trap.  Nothing
\* is assumed of the processes.
QuantaSpec == QuantaInit /\ [][QuantaNext]_quantaVars
QuantaFairSpec == QuantaSpec /\ WF_quantaVars(QuantaTick) /\ WF_quantaVars(QuantaLeavesTrap)

-----------------------------------------------------------------------------
(* Properties                                                              *)

\* The process on the CPU is never one that internal_schedule would assert to be
\* sick, though wait and exit hand the CPU over without counting a quantum, and
\* whoever is ready has a quantum to spend.
QuantaHealthy ==
    /\ running # Null => Healthy(running)
    /\ \A b \in ToSet(ready_list) : quanta[b].to_go >= 1

\* Many quanta are no licence to starve the others: every ready process runs.
EveryReadyRuns ==
    \A b \in Blocks : b \in ToSet(ready_list) ~> (b \notin ToSet(ready_list) \/ halt # "no")

=============================================================================
