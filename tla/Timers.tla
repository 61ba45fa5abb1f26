------------------------------- MODULE Timers -------------------------------
(***************************************************************************)
(* Stage 03 of disastrOS (disastrOS_03_timers): sleep, the timer list and  *)
(* the scheduler that wakes the sleepers, on the processes of the stages   *)
(* before it.  Resources (stage 04) and Ageing (the exercise in class) are *)
(* built on this stage.                                                    *)
(*                                                                         *)
(* No code but PCB_alloc writes pcb->timer, so that the first check of     *)
(* internal_sleep always passes; and its second one does as long as no     *)
(* process has two timers, for the pool has a block for each.              *)
(*                                                                         *)
(* The pids of this stage start at 9, here at 0 as those of the others:    *)
(* no child has pid 0 in either case, and pids are only compared.          *)
(***************************************************************************)
EXTENDS Processes

CONSTANTS
    MaxTime,    \* bound: disastrOS_time stays there once it is reached
    SleepArgs   \* the sleeps processes ask for

ASSUME TimersAssumption == MaxTime \in Nat /\ SleepArgs \subseteq Int

VARIABLES
    timers,     \* timer_list
    time        \* disastrOS_time

timerVars == <<timers, time>>
stageVars == <<procVars, timerVars>>

TimerItem == [pcb : Blocks, at : Int]

\* The first position whose timer is later than t, or the one after the last.
FirstLater(t) == Min({i \in DOMAIN timers : timers[i].at > t} \cup {Len(timers) + 1})

\* Mutant: the new timer goes to the front.
TimerList_add_Front(timer) == timers' = <<timer>> \o timers

TimerList_add(timer) == timers' = InsertAt(timers, FirstLater(timer.at), timer)

-----------------------------------------------------------------------------
(* The scheduler                                                           *)

\* The processes whose timers, at the front of the list, are not later than now.
Woken(now) == [i \in 1 .. FirstLater(now) - 1 |-> timers[i].pcb]

RemoveExpired(now) == timers' = SubSeq(timers, FirstLater(now), Len(timers))

\* The PCBs and the ready list when the loop over the timers is over.
PcbsAwake(now) ==
    [b \in Blocks |-> IF b \in ToSet(Woken(now)) THEN [pcb[b] EXCEPT !.status = "Ready"]
                                                 ELSE pcb[b]]
ReadyAwake(now) == ready_list \o Woken(now)

internal_schedule(now) ==
    /\ RemoveExpired(now)
    /\ Rotate(PcbsAwake(now), ReadyAwake(now))
    /\ UNCHANGED <<free, ptrs, last_pid, init_pcb, ret, halt>>

Preempt == InUserCode /\ internal_schedule(time) /\ UNCHANGED time

\* timerInterrupt, while a process runs.  At MaxTime the clock stands.
Tick ==
    /\ InUserCode
    /\ time' = Min({time + 1, MaxTime})
    /\ internal_schedule(time')

-----------------------------------------------------------------------------
(* Sleep and exit                                                          *)

\* The caller sleeps, and the first ready process runs, its status still Ready.
Sleep(n) ==
    /\ InUserCode
    /\ time + n <= MaxTime
    /\ TimerList_add([pcb |-> running, at |-> time + n])
    /\ pcb' = [pcb EXCEPT ![running].status = "Waiting"]
    /\ running' = IF ready_list = <<>> THEN Null ELSE Head(ready_list)
    /\ ready_list' = IF ready_list = <<>> THEN <<>> ELSE Tail(ready_list)
    /\ UNCHANGED <<free, ptrs, last_pid, init_pcb, ret, halt, time>>

\* The timers that the loop over the list leaves when it takes out those of b.
TimersWithout(b) ==
    LET kept[i \in 0 .. Len(timers)] ==
            IF i = 0 THEN <<>>
            ELSE IF timers[i].pcb = b THEN kept[i - 1] ELSE Append(kept[i - 1], timers[i])
    IN kept[Len(timers)]

\* An exit that wakes the parent releases the timers of its caller, too.
ExitReleasesTimers ==
    /\ ExitToParent
    /\ timers' = TimersWithout(running)
    /\ UNCHANGED time

-----------------------------------------------------------------------------

TimersInit == ProcessesInit /\ timers = <<>> /\ time = 0

TimersTypeOK == timers \in Seq(TimerItem) /\ time \in 0 .. MaxTime

\* A process sleeps exactly while it has a timer, and it has one only: whoever
\* runs or exits has none, and the exit finds nothing to release.  The list is in
\* order, for only its front is looked at, and a sleeper is not in wait.
SleepersHaveTimers ==
    /\ TimersTypeOK
    /\ \A i, j \in DOMAIN timers : i < j => /\ timers[i].pcb # timers[j].pcb
                                            /\ timers[i].at <= timers[j].at
    /\ {timers[i].pcb : i \in DOMAIN timers}
       = {b \in Allocated : pcb[b].status = "Waiting" /\ pcb[b].awaits = NotInWait}

=============================================================================
