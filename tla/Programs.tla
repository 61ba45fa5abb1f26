------------------------------ MODULE Programs ------------------------------
(***************************************************************************)
(* The two programs disastrOS 05 is built with, test_sem.c and test_mq.c,  *)
(* as processes of the whole system: what each process calls next is its   *)
(* program's, everything else is DisastrOS's.                              *)
(*                                                                         *)
(* Init opens a semaphore or a queue, spawns two kinds of workers, waits   *)
(* for as many children as it counts, closes and shuts down.  In the       *)
(* semaphore test the first kind waits and the second sleeps and posts; in *)
(* the queue test the first receives and the second sends, and both sleep. *)
(***************************************************************************)
EXTENDS DisastrOS

CONSTANTS
    Workers,    \* N_WAITERS = N_POSTERS, N_CONSUMERS = N_PRODUCERS
    CAPACITY,   \* of the queue
    BusyTime    \* bound: from this time on no tick comes while a process runs

ASSUME ProgramsAssumption ==
    /\ Workers \in Nat \ {0}
    /\ MaxPid = 2 * Workers /\ 1 .. MaxPid \subseteq SleepArgs
    /\ MaxProcs >= 4 * Workers      \* a child link and a waiter's block for each
    /\ CAPACITY \in Capacities /\ 0 \in SemValues
    /\ Messages = Pids \ {InitPid} /\ NoMessage = InitPid
    /\ BusyTime \in Nat

VARIABLES
    program,    \* the program that was started
    pc,         \* pc[p]: the number of the call process p makes next
    alive,      \* init's local variable
    rid         \* the program's sem_rid or mq_rid

programVars == <<program, pc, alive, rid>>
allVars == <<vars, programVars>>

FirstKind == 1 .. Workers
SecondKind == Workers + 1 .. 2 * Workers

\* Mutant: init counts itself.
Alive_WithInit == 2 * Workers + 1

\* The children init waits for.
Alive == 2 * Workers

Times(n, op) == [i \in 1 .. n |-> op]

\* The calls of process p, in their order; count is what init does with a result.
Script(p) ==
    IF p = InitPid
    THEN <<"open">> \o Times(Workers, "spawn") \o <<"preempt">> \o Times(Workers, "spawn")
         \o <<"wait", "count", "close", "shutdown">>
    ELSE CASE program = "sem" /\ p \in FirstKind -> <<"wait_sem", "exit">>
           [] program = "sem" /\ p \in SecondKind -> <<"sleep", "post", "exit">>
           [] program = "mq" /\ p \in FirstKind -> <<"receive", "sleep", "exit">>
           [] program = "mq" /\ p \in SecondKind -> <<"send", "sleep", "exit">>

\* The running process is at op.
Does(op) == InUserCode /\ Script(me)[pc[me]] = op

Goes(n) == pc' = [pc EXCEPT ![me] = @ + n]

-----------------------------------------------------------------------------
(* The calls                                                               *)

\* A step of the kernel, of the semaphores or of the queues alone.
OfKernel(step) == step /\ UNCHANGED <<semVars, mqVars>>
OfSem(step) == step /\ UNCHANGED mqVars
OfMq(step) == step /\ UNCHANGED semVars

\* A call of op, as its line in the program.
Makes(op, step) == Does(op) /\ step /\ Goes(1) /\ UNCHANGED <<program, alive, rid>>

Open ==
    /\ Does("open")
    /\ IF program = "sem" THEN OfSem(SemOpen(0)) ELSE OfMq(MqOpen(CAPACITY))
    /\ rid' = ret'[me]
    /\ Goes(1)
    /\ UNCHANGED <<program, alive>>

SpawnWorker == Makes("spawn", OfKernel(Spawn))
PreemptOnce == Makes("preempt", OfKernel(Preempt))

\* The loop's condition: alive, and then the wait.
WaitForChild == alive > 0 /\ Makes("wait", OfKernel(Wait(AnyChild)))

AllGone ==
    /\ Does("wait") /\ alive = 0
    /\ Goes(2)
    /\ UNCHANGED <<vars, program, alive, rid>>

\* The wait returned a pid, or failed.
Count ==
    /\ Does("count")
    /\ IF ret[me] > 0 THEN alive' = alive - 1 /\ Goes(-1) ELSE alive' = alive /\ Goes(1)
    /\ UNCHANGED <<vars, program, rid>>

Close == Makes("close", IF program = "sem" THEN OfSem(SemClose(rid)) ELSE OfMq(MqClose(rid)))
ShutDown == Makes("shutdown", OfKernel(Shutdown))

WaitSem == Makes("wait_sem", OfSem(SemWait(rid) \/ SemUnknown(rid)))
Post == Makes("post", OfSem(SemPost(rid) \/ SemUnknown(rid)))

\* The sender's pid is the message.
Send == Makes("send", OfMq(\/ MqSendHandsOver(rid, me) \/ MqSendStores(rid, me)
                           \/ MqSendBlocks(rid) \/ MqUnknown(rid)))
Receive == Makes("receive", OfMq(\/ MqReceiveTakes(rid) \/ MqReceiveBlocks(rid)
                                 \/ MqUnknown(rid)))

\* 1000 of the code is 1 here: a poster sleeps by its pid, the others alike.
SleepAWhile == Makes("sleep", OfKernel(Sleep(IF program = "sem" THEN me ELSE 1)))

ExitWorker ==
    /\ Does("exit")
    /\ OfKernel(Exit)
    /\ Goes(1)
    /\ UNCHANGED <<program, alive, rid>>

\* Between two calls the tick comes as it likes while the clock has room for the
\* sleeps ahead, and always while the CPU idles.
ProgramTick ==
    /\ me = NoPid \/ time < BusyTime
    /\ OfKernel(Tick)
    /\ UNCHANGED programVars

-----------------------------------------------------------------------------
(* The specification                                                       *)

ProgramsInit ==
    /\ Init
    /\ program \in {"sem", "mq"}
    /\ pc = [p \in Pids |-> 1]
    /\ alive = Alive
    /\ rid = 0

ProgramStep ==
    \/ Open \/ SpawnWorker \/ PreemptOnce \/ WaitForChild \/ AllGone \/ Count
    \/ Close \/ ShutDown
    \/ WaitSem \/ Post \/ Send \/ Receive \/ SleepAWhile \/ ExitWorker

ProgramsNext == ProgramTick \/ ProgramStep

\* What a step of the running process does to pc, and a tick to the time: no other
\* step changes them.
GoesOn == InUserCode /\ \E n \in {-1, 1, 2} : Goes(n)
ClockRuns == halt = "no" /\ me = NoPid /\ time' = Min({time + 1, MaxTime})

\* A process computes for a finite time between two calls, and the ticks go on.
ProgramsSpec == ProgramsInit /\ [][ProgramsNext]_allVars
ProgramsFairSpec == ProgramsSpec /\ WF_pc(GoesOn) /\ WF_time(ClockRuns)

-----------------------------------------------------------------------------
(* Properties                                                              *)

IsOpen == rid \in sem_rids \cup mq_rids

\* Both programs end by their shutdown, whatever the order in which the workers
\* and the ticks come: nobody waits for a child, a permit or a message that never
\* comes, and no pool runs out.
TestsEnd == <>(halt = "shutdown")

\* No call of init fails, and none of the workers while the resource is open: init
\* never waits for more children than it has, though it counts some twice.
NoCallFails == \A p \in Pids : ret[p] < 0 => p # InitPid /\ ~IsOpen

\* p has come back from its first call with success.
Passed(p) == pc[p] > 1 /\ sched.status[p] # "Waiting" /\ ret[p] = 0

\* No more waiters pass than posters posted; each consumer that succeeds has a
\* message of its own, which a producer sent.
OnlyWhatWasSent ==
    IF program = "sem"
    THEN Cardinality({p \in FirstKind : Passed(p)}) <= Cardinality({p \in SecondKind : pc[p] >= 3})
    ELSE \A p \in FirstKind :
            /\ Passed(p) => inbox[p] # NoMessage
            /\ inbox[p] # NoMessage => /\ inbox[p] \in SecondKind /\ pc[inbox[p]] > 1
                                       /\ \A q \in FirstKind \ {p} : inbox[q] # inbox[p]

=============================================================================
