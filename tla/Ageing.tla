------------------------------- MODULE Ageing -------------------------------
(***************************************************************************)
(* The exercise in class (disastros_02_exercise_in_class): a scheduler     *)
(* with priorities, the least number first, that lets the priorities of    *)
(* the processes that are ready age, on the timers of stage 03.            *)
(*                                                                         *)
(* The priorities and gains of the code are floats; here they are          *)
(* naturals, which are compared and lowered in the same way.  A negative   *)
(* one, or a gain too small to lower a priority in float, is left out.     *)
(***************************************************************************)
EXTENDS Timers

CONSTANTS
    Priorities,     \* the priorities processes are spawned with
    Gains           \* and their gains

ASSUME AgeingAssumption == Priorities \subseteq Nat /\ Gains \subseteq Nat

VARIABLE prio   \* priority_default, priority_current and priority_time_gain of each PCB

ageingVars == <<stageVars, prio>>

NewPrio(d, g) == [default |-> d, current |-> d, gain |-> g]

-----------------------------------------------------------------------------
(* The scheduler                                                           *)

\* Mutant: nobody ages.
Aged_Never(q) == prio

\* One turn of the scheduler lowers the priorities on the ready list q, to 0 at
\* the least.
Aged(q) ==
    [b \in Blocks |->
        IF b \in ToSet(q) THEN [prio[b] EXCEPT !.current = Max({@ - prio[b].gain, 0})]
                          ELSE prio[b]]

\* Mutant: the last of the least.
LeastIn_Last(q, pr) ==
    CHOOSE i \in DOMAIN q : \A j \in DOMAIN q :
        /\ pr[q[i]].current <= pr[q[j]].current
        /\ j > i => pr[q[i]].current < pr[q[j]].current

\* The position of the first of the least.
LeastIn(q, pr) ==
    CHOOSE i \in DOMAIN q : \A j \in DOMAIN q :
        /\ pr[q[i]].current <= pr[q[j]].current
        /\ j < i => pr[q[i]].current < pr[q[j]].current

\* Who leaves the CPU has its default priority again.
AgeingSchedule(now) ==
    LET q == ReadyAwake(now)
        aged == Aged(q)
    IN
    /\ RemoveExpired(now)
    /\ IF q = <<>>
       THEN UNCHANGED <<pcb, running, ready_list, prio>>
       ELSE /\ SwitchTo(PcbsAwake(now), q, LeastIn(q, aged))
            /\ prio' = [aged EXCEPT ![running].current = prio[running].default]
    /\ UNCHANGED <<free, ptrs, last_pid, init_pcb, ret, halt>>

AgeingPreempt == InUserCode /\ AgeingSchedule(time) /\ UNCHANGED time

AgeingTick ==
    /\ InUserCode
    /\ time' = Min({time + 1, MaxTime})
    /\ AgeingSchedule(time')

-----------------------------------------------------------------------------
(* Processes that come and go                                              *)

AgeingSpawn(d, g) ==
    /\ Spawn
    /\ prio' = [prio EXCEPT ![NextPcb] = NewPrio(d, g)]
    /\ UNCHANGED timerVars

AgeingRestart ==
    /\ Restart
    /\ prio' = [prio EXCEPT ![NextPcb] = NewPrio(0, 0)]
    /\ UNCHANGED timerVars

AgeingExit == ExitReleasesTimers /\ UNCHANGED prio

AgeingSleep(n) == Sleep(n) /\ UNCHANGED prio

-----------------------------------------------------------------------------
(* The specification                                                       *)

AgeingInit == TimersInit /\ prio = [b \in Blocks |-> NewPrio(0, 0)]

AgeingNext ==
    \/ OtherStep /\ UNCHANGED <<timerVars, prio>>
    \/ AgeingTick
    \/ AgeingPreempt
    \/ \E n \in SleepArgs : AgeingSleep(n)
    \/ \E d \in Priorities, g \in Gains : AgeingSpawn(d, g)
    \/ AgeingRestart
    \/ AgeingExit

\* What follows a trap that ends without a process.
AgeingLeavesTrap ==
    \/ AgeingRestart
    \/ (RestartWithEmptyPool \/ InterruptOfNobody) /\ UNCHANGED <<timerVars, prio>>

\* The interrupts go on, and so does disastrOS_start after such a trap.  Nothing
\* is assumed of the processes.
AgeingSpec == AgeingInit /\ [][AgeingNext]_ageingVars
AgeingFairSpec ==
    /\ AgeingSpec
    /\ WF_ageingVars(AgeingTick)
    /\ WF_ageingVars(AgeingLeavesTrap)

-----------------------------------------------------------------------------
(* Properties                                                              *)

Ready(b) == b \in ToSet(ready_list)

\* The processes in front of b on the ready list.
Ahead(b) ==
    {ready_list[i] : i \in {i \in DOMAIN ready_list :
                              \E j \in DOMAIN ready_list : i < j /\ ready_list[j] = b}}

\* Once a ready process has aged down to 0, nobody overtakes it: no process gets in
\* front of it, and each that runs before it was in front of it, whatever is spawned
\* or wakes meanwhile and whoever calls.  Only the parent that waited for a process
\* which exits gets the CPU past the ready list.
NobodyOvertakes ==
    [][\A b \in Blocks : Ready(b) /\ Ready(b)' /\ prio[b].current = 0 =>
          /\ prio'[b].current = 0
          /\ Ahead(b)' \subseteq Ahead(b)
          /\ running \notin {Null, running'} =>
                \/ running' \in Ahead(b) \ ToSet(ready_list')
                \/ pcb[running'].awaits # NotInWait]_ageingVars

\* Ageing is there so that nobody starves: a ready process whose priority ages
\* runs in the end, whatever is spawned, sleeps and wakes beside it.
AgedRuns ==
    \A b \in Blocks :
        Ready(b) /\ prio[b].gain > 0 ~> (~ Ready(b) \/ halt # "no")

=============================================================================
