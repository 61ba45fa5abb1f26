# disastrOS in TLA+

A specification of the disastrOS teaching kernel. The tree holds the kernel in several
stages, one directory per lesson; the last one,
`disastr0S_05_Carrell0's-Semaphore` ("05" below), is the complete system: processes,
timers, semaphores and message queues. Files a stage does not contain it takes from the
stages before it (05 builds with `disastrOS_wait.c` of 01 and `disastrOS_spawn.c`,
`disastrOS_fork.c`, `disastrOS_shutdown.c` of 02, and with the lists and the pool
allocator of 00). The core of this project is 05 with everything it links. Around it stand
the stages before it, 01 to 04, and two exercises that replace the scheduler of 02 and 03.

disastrOS runs inside one Unix process. A disastrOS process is a `ucontext_t`; a system
call is a `swapcontext` to the trap context; the clock is a periodic `SIGALRM`.

## Inventory

| part | source | state | operations |
|---|---|---|---|
| scheduler | 05 `disastrOS_schedule.c`, `disastrOS_preempt.c`, the trap in `disastrOS.c` | `running`, `ready_list`, `waiting_list` | `internal_schedule`, `internal_preempt`, the tail of `disastrOS_trap` |
| timer interrupt | 05 `disastrOS.c` | `disastrOS_time` | `timerHandler`, `timerInterrupt`, `idle_routine` |
| processes | 02 `disastrOS_spawn.c`, 01 `disastrOS_wait.c`, 05 `disastrOS_exit.c`, 05 `disastrOS_pcb.c` | PCBs: status, parent, children, call in progress, return value; `zombie_list`, `last_pid`; the PCB and PCBPtr pools | `spawn`, `wait`, `exit`, `fork`, `shutdown` |
| timers | 05 `disastrOS_timer.c`, `disastrOS_sleep.c` | `timer_list` (sorted), `pcb->timer` | `sleep`, wake-up in `internal_schedule` |
| semaphores | 05 `sem.c` | per semaphore: value, waiting list; `resources_list` | `sem_open`, `sem_wait`, `sem_post`, `sem_close` |
| message queues | 05 `queue.c` | per queue: ring of messages, head, tail, count, waiting senders and receivers | `mq_open`, `mq_send`, `mq_receive`, `mq_close` |
| linked lists | 00 `linked_list.c` | `first`, `last`, `size`; `prev`, `next` in the items | `List_find`, `List_insert`, `List_detach`, push and pop |
| pool allocator | 00 `pool_allocator.c` | free list of indices, `first_idx`, `size` | `getBlock`, `releaseBlock` |
| contexts and signals | 05 `disastrOS.c`, 02 `disastrOS_spawn.c` | the saved context of each process, the signal mask, the one system stack | `swapcontext` in `disastrOS_syscall` and `timerHandler`, `setcontext` at the end of trap and interrupt, `sigsuspend` in `idle_routine`, `getcontext` in `internal_spawn` |
| earlier kernels | 01, 02, 03 | PCBs, `running`, `ready_list`, `init_pcb`; from 03 on `timer_list` | `spawn`, `wait`, an `exit` that hands over the CPU, `sleep` |
| resources and descriptors | 04 | `resources_list`, per process `descriptors` and `last_fd`, three pools | `open`, `close`, `destroy`, the `exit` of a process that has some |
| ageing scheduler | `disastros_02_exercise_in_class` | per process a priority, its default and its gain | another `internal_schedule`, a `spawn` with priorities |
| quanta scheduler | `disastrOS_02_exercise` | per process quanta in total, elapsed, to go | another `internal_schedule`, `spawnWithPriority` |
| exercise on 01 | `disastrOS_01_exercise` | | `revertAndPreempt` |
| test programs | 05 `test_sem.c`, `test_mq.c` | per process the next call; `alive`, `sem_rid`, `mq_rid` | the calls of init and of its two kinds of workers |

How the parts meet. Every handler moves PCBs between the lists and sets `status`,
`running` and `syscall_retvalue` by hand, then returns to the trap, which may run the
scheduler once more. The timer interrupt runs the scheduler between any two system calls
and while the CPU idles. Semaphores and queues keep waiters both on their own list and
on the kernel's `waiting_list`; the list nodes that link children to parents and
waiters to semaphores and queues come from one pool, `PCBPtr`, of
`MAX_NUM_PROCESSES` blocks. Both kinds of resource are on one `resources_list`.

What is hard. There is one CPU and SIGALRM is masked in the trap, so handlers do not
interleave; what interleaves are whole handlers of different processes and the tick. Below
that, `swapcontext` and `setcontext` change the signal mask and the registers one after the
other, an alarm can come between the two, and the signal handler runs on whatever stack it
finds.
The hazards (each with its line in `PROJECT.json`) are orders nobody tried: a child that
dies before, during or after the wait of its parent; orphans handed to a process that
already waits; a waiter woken twice or not at all when several structures hold it; a
semaphore or queue closed under its waiters; a pool at its limit; a ring that wraps
around; a counter whose sign means something; a timer that is not looked at; a
sleeper that must eventually wake.

The stages before 05 have hazards of their own. Their exit frees the PCB of the caller at once
when the parent waits, and never rewrites `pcb->parent` of the orphans: the pointer
outlives the parent and may come to point to whoever has the block next. A trap may end with
no process on the CPU; `disastrOS_start` then goes on behind it and creates a second init.
In 04 resource and process point at each other across a close, a destroy and an exit. The
two schedulers of the exercises must let everybody run.

What makes each part correct:

* scheduler: a process is on exactly the list its status names; the CPU is not idle
  beside a ready process;
* processes: parent and child links agree and a parent is alive; a zombie is reaped by
  its own parent; no wait is missed;
* timers: one timer per sleeper, in order, none overdue; every sleeper wakes;
* semaphores and queues: waiting lists and blocked processes agree; together with the
  kernel they implement an abstract semaphore and an abstract channel;
* contexts: the code on the CPU is that of the running process, it can be interrupted, and
  a process that is preempted comes back where it was;
* tests: they end, whatever the order of the workers and the ticks;
* lists and pool: the pointers implement sequences, the free list a set of blocks;
* earlier stages: whoever is on a list has a PCB, and every PCB is where its status says;
* resources: a resource and its users list each other, and stays while it is open;
* schedulers of the exercises: nobody overtakes a process that has aged to 0, no process on
  the CPU is one the scheduler asserts to be sick, and every ready process runs.

## Modules

| module | what it is |
|---|---|
| `Kernel` | the process core of 05: scheduler, tick, timers, process calls |
| `Semaphores` | `sem.c` on top of `Kernel` (EXTENDS it) |
| `CountingSemaphore` | the abstract semaphore `Semaphores` implements |
| `MessageQueues` | `queue.c` on top of `Kernel` (EXTENDS it) |
| `MessageChannel` | the abstract channel `MessageQueues` implements |
| `DisastrOS` | the whole: `Semaphores` and `MessageQueues` over the same kernel state (EXTENDS both) |
| `LinkedList`, `ListSpec` | `linked_list.c` link by link, and the sequences it implements |
| `PoolAllocator`, `BlockPool` | `pool_allocator.c`, and the set of free blocks it implements |
| `PooledLists` | the two libraries as the kernel uses them: lists of blocks of a pool (EXTENDS `PoolAllocator`, with `LinkedList` as an instance over the same blocks) |
| `Contexts` | contexts, stacks and the signal mask under `Kernel` (EXTENDS it) |
| `Programs` | `test_sem.c` and `test_mq.c` on the whole system (EXTENDS `DisastrOS`) |
| `Processes` | the process calls of 01 and 02, which the stages before 05 share |
| `Timers` | the sleep, timers and wake-up of 03 (EXTENDS `Processes`) |
| `Resources` | 04: open, close, destroy, exit with descriptors (EXTENDS `Timers`) |
| `Ageing` | the scheduler of the exercise in class, on 03 (EXTENDS `Timers`) |
| `Quanta` | the scheduler of the exercise on 02 (EXTENDS `Processes`) |
| `MCKernel`, `MCSemaphores`, `MCMessageQueues`, `MCDisastrOS`, `MCPooledLists`, `MCContexts`, `MCPrograms`, `MCResources`, `MCAgeing`, `MCQuanta` | the instances TLC checks |
| `SequenceLemmas` | what the operators on sequences do, for the proofs |
| `Kernel_proofs` | what the scheduler's operators do, and the proofs about `Kernel` |
| `Contexts_proofs`, `Semaphores_proofs`, `MessageQueues_proofs` | the proofs about these modules, on those of `Kernel` |
| `DisastrOS_proofs` | the proofs about the whole, on those of its two halves, and about the test programs on it (EXTENDS `Programs`) |
| `PooledLists_proofs` | the proofs about `PoolAllocator`, `LinkedList` and their composition |
| `Stages_proofs` | the proofs about the stages before 05 and the two schedulers (EXTENDS `Resources`, `Ageing` and `Quanta`) |

### How `Kernel` corresponds to the code

A process is its pid. `sched` is the record of what `internal_schedule` works on
(`running`, the lists, the statuses, the timers); the operators `WakeAll`,
`WakeExpired`, `PopReady`, `Requeue`, `Dispatch` are the parts of `internal_schedule`, and
take and return such a record, because handlers call the scheduler in the middle and the
trap calls it again at the end (`TrapTail`). A system call is one action: the guard is
the branch of the handler, `EndTrap` the rest of the trap. Lists whose order matters are
sequences; `waiting_list` and `zombie_list`, from which PCBs are only detached by
pointer, are sets.

* `Spawn`, `WaitReaps`, `WaitBlocks`, `WaitWithoutChildren`, `Exit`, `SleepBlocks`,
  `SleepRefused`, `Preempt`, `Shutdown`, `Fork`: the handlers and their branches.
* `Tick`: `timerHandler` and `timerInterrupt`, whether a process runs or the CPU idles.
* `ExitOfInit`, `SpawnFromEmptyPool`, `Fork`, and in the other modules
  `SemWaitWithoutPtr`, `SemPostWithoutWaiter`, `MqBlocksWithoutPtr`: calls that
  dereference a null pointer or hit an assertion. The system stops, `halt` says how. That
  they can be reached is part of the model; properties speak of the states before.
* `call` is `syscall_num` with the one argument somebody else reads. The code leaves both
  in the PCB after the call and looks at them only while the process waits, so a
  process that does not wait has `NoCall`.

Abstractions. A system call is one step, which the trap's signal mask justifies. The tick
is one step as well, although `interrupt_context` leaves SIGALRM unblocked: a second alarm
before or behind its work is in `Contexts`, one in the middle of its list operations is
nowhere. The return value of a process, its code and its stack are not state.
A wait names a pid that a process can have, or 0 for any child. `resources_list` is the
set of rids of each kind, and a call names a rid of its own kind, or none.

### How the other modules correspond

`Semaphores` and `MessageQueues` have one action per branch of their four handlers, with
the loop of `close` over the waiters as `SemWokenByClose` and `MqWokenByClose`. Each has a
specification of its own, the kernel with one kind of resource; `DisastrOS` extends both and
puts their calls side by side. A message is a model value, an
inbox is where a receiver's `msg` pointer points. A message of a sender that blocked is
lost (the code wakes the sender with success and nobody reads its argument): the
abstract channel says so in `Block`.

`LinkedList` has the operations of `linked_list.c` and the callers are the kernel's: an
item is inserted while on no list, at either end or behind an item of that list, and detached
from the list it is on. `PoolAllocator` has those of `pool_allocator.c`, with any address
given back, aligned or not, in the buffer or beside it. Neither has a life of its own in the
program: every list item is a block of a pool. `PooledLists` is that composition. A block is
linked only while it is allocated and is given back only while it is on no list;
`AllocateCleared` is an allocation that clears the links of the block (`PCB_alloc`,
`PCBPtr_alloc`, `TimerItem_alloc`), `Allocate` one that leaves them as the previous owner
did (`Semaphore_alloc`, `internal_mq_open`). Since `List_insert` refuses an item that has
links, and no caller looks at the answer, the second kind relies on `List_detach` having
cleared them: `DetachedIsInsertable`.

### How `Contexts` corresponds to the code

`Contexts` puts the machinery of `disastrOS.c` under the system calls and the tick of
`Kernel`, whose variables it shares. `cpu` is where the one CPU is and for which process,
`masked` and `pending` are the signal mask and the pending SIGALRM, `saved[p]` is
`pcb->cpu_state`: what resuming it leads to, and its mask.

* A context switch is two steps, the mask and the registers, because glibc's `swapcontext`
  and `setcontext` are: `UserCall` saves the registers of a process that makes a system call,
  `EnterTrap` changes the mask and goes to `trap_context`; `Switch` sets the mask of the
  process to be resumed, `Load` its registers. `TimerHandler` and `EnterInterrupt` are the
  `swapcontext` of the signal handler. A pending alarm is delivered as soon as the mask lets
  it: no other step of the CPU comes first (`At`).
* `Trap` is `disastrOS_trap` with one `SystemCall` of `Kernel`, `TimerInterrupt` the
  interrupt with one `Tick`; both end in the `setcontext` to the running process, or in the
  idle loop if there is none, where `sigsuspend` lets SIGALRM in whatever the mask.
* Trap and interrupt share `system_stack` and start at its top each time. A frame of theirs
  that somebody saves is overwritten before it is resumed: its code is `lost`, and resuming it
  is `Astray`, which is either the end of the program or a return to some other frame.
* A process that `timerHandler` interrupted comes back at its end (`HandlerReturns`), and
  `sigreturn` takes it where it was: `user` code, or the middle of the `swapcontext` of a call
  or of a handler, which then runs again.

### How `Programs` corresponds to the code

`Script(p)` is the program of process p as the sequence of its calls, `pc[p]` the next one:
init's loop over `wait` is `WaitForChild`, `Count` (the result is looked at and `alive`
decremented) and `AllGone`. Everything a call does is that of `Kernel`, `Semaphores` and
`MessageQueues`. Both programs are checked in one run, `program` tells which was started.
The message of a producer, ten times its pid, is its pid. The sleeps are scaled down: a
poster sleeps by its pid, as in the code up to the factor 1000, the workers of the queue for
one tick. A tick may come between any two calls of a running process until `BusyTime`; from
then on only while the CPU idles, so that the clock has room for the sleeps that are still
to come.

### The stages before 05

`Processes` is the common part; it has no specification of its own, because each stage
brings its scheduler: `Resources` that of 03, `Ageing` and `Quanta` their own.

* A process is the *block* of its PCB, not its pid: a stale parent pointer survives the
  parent and, once the block is allocated again, points to another process. The pool is
  therefore the stack `pool_allocator.c` makes of it (`free`), and a free block keeps the
  contents `PCB_free` leaves (`FreePcb`).
* `exit` has its branches as actions. `ExitToParent`: the parent waits for the caller, gets the CPU and
  the pid, and the PCB is freed; its node on the list of children is not (`ptrs` stays).
  `ExitToNext`: the caller is a zombie and the head of the ready list runs. `ExitToNobody`:
  there is no such head, and the code stands still. `ExitToStranger`: the stale parent
  happens to wait for the caller, which is not among its children, and the detach
  dereferences null. `ExitWithoutParent`: an init has no parent to signal.
  `ExitAdoptsItself`: an init with children hands them to itself, without end.
* A wait that finds no process to run ends the trap with `running` null. In 01 to 04
  `uc_link` and the trap then lead back to `main_context`, into `disastrOS_start` behind its
  `setcontext`: `Restart` creates another init, `RestartWithEmptyPool` has no block for it,
  and `InterruptOfNobody` is the alarm that comes before.
* The blocking branch of a wait is in part a reconstruction. What it makes of the caller
  (`Parked`) is lines 48 and 49 of 01's `disastrOS_wait.c`, the only one under `src/`; how
  the caller leaves the CPU (`WaitBlocks`) is external. That file includes a header only 05
  has, and then sets `running` to 0 and calls `internal_schedule`, which 05 allows: in 01 to
  04 it writes through `running` when somebody is ready, and in the exercise on 02 it asserts
  `running`. The Makefiles of 02 to 04 and of the exercises name a `disastrOS_wait.c` of their
  own that is not there. The model takes what the exits of these stages expect of it, the CPU
  given to the first ready process and the caller on no list; all that is checked and proved
  of 01 to 04 and of the exercises holds relative to that.
* Reasons for which the system stops are in `halt`, as in `Kernel`. Pids count from 0 (03
  starts at 9; nothing depends on it).

`Timers` adds the timer list, the scheduler that wakes before it switches, and an exit that
releases the timer of the caller. In `Resources` a descriptor and its `DescriptorPtr` are one
pair of pid and fd: with the resource on the list of the process, without it on the list of
the resource. A mode is the two of its bits that are tested; `DSOS_WRITE` contains the one of
`DSOS_CREATE`, as in the header. Only the exit that wakes the parent releases descriptors;
of a zombie, and of the process reaped after it, the entries on the resources' lists stay. In `Ageing` priorities and
gains are naturals instead of floats, compared and lowered (to 0 at the least) in the same
way. A gain too small for the float it is taken from, with which a process would not age at
all, and negative priorities and gains are outside the model, and so outside `AgedRuns` and
`NobodyOvertakes`. In `Quanta` the three quantum counters are kept as they are.
`QuantaHealthy` states one of the two assertions of `internal_schedule`, that against a sick
process (lines 11 to 13); the other, `assert(running)` in line 10, is where the step splits:
with a process on the CPU it is `QuantaTick`, without one `InterruptOfNobody`.

## Runs

| run | shows |
|---|---|
| `kernel` | all safety of `Kernel`: types, lists, idling, timers, family tree, reaping; no wait is missed but by an init that is handed orphans |
| `semaphores` | waiting lists, value and result codes; `Semaphores` implements `CountingSemaphore` |
| `message_queues` | waiting lists, ring, result codes; `MessageQueues` implements `MessageChannel` |
| `disastros` | everything together: a waiting process hangs on exactly one structure, the common pool is accounted for |
| `pooled_lists` | the links implement sequences and the free list a set, while blocks come and go; a block on no list has no links, only allocated blocks are on lists |
| `contexts` | the code on the CPU belongs to the running process and can be interrupted; a preempted process loses its context only to an alarm inside a switch; every sleeper wakes |
| `programs` | both test programs end; no call of init fails, nobody passes without a post, no message is received twice |
| `resources` | 04: PCBs and lists agree, resources and descriptors list each other, the pools are accounted for, a resource stays while it is open and only its owner gives it up |
| `ageing` | 03 with ageing: sleepers have timers, nobody overtakes who has aged to 0, who ages runs in the end |
| `quanta` | 02 with quanta: PCBs and lists agree, the process on the CPU is never one the scheduler asserts to be sick, every ready process runs |
| `wait_result`, `alarm_in_switch` | counterexamples, see Findings |

Bounds. `MaxPid` bounds the pids handed out, `MaxProcs` is `MAX_NUM_PROCESSES`. `kernel`
takes five pids for four PCBs: init, a child, a grandchild and its child exist together
(three generations are needed for an exit that hands a dead child upwards), and a PCB is
allocated a second time. `MaxTime` is a clock that stands at its bound; no timer is later
than that, so a tick there fires everything, as a tick of the real clock would once the
last timer is due. `MaxTime` 2 with sleeps of 0, 1 and 2 gives equal and different
wake-up times in either order. In `semaphores` and `message_queues` four processes
suffice for two waiters of the same list, the one who wakes them and one who runs in between;
semaphores are opened with -1, 0 or 1;
`MaxProcs` 5 leaves the pool of links one block short of what four processes can
want, so that it also runs dry. Capacities 0, 1 and 2 give the ring that is always full, the
one without a second slot, and one that wraps around. The `disastros` run has one
semaphore that is opened with 0 or -1 and one queue of one slot, and no clock: a
`sleep(0)` blocks until the next tick, which is all the composition asks of a sleep.
`pooled_lists` has two lists for four blocks of two bytes: an item has neighbours on both
sides and moves between lists, the pool runs empty, blocks are given back in an order other
than that of their allocation, and there are unaligned addresses and one beside the buffer.

`contexts` has init and two descendants, a clock of two ticks and sleeps of none, one and
two: one process runs, one sleeps and one is preempted, which is all a context switch tells
apart. An alarm may come at every step. `programs` takes the numbers of the tests themselves:
two workers of each kind and a queue of two slots. `BusyTime` 10 is what it takes for the
ticks to preempt the processes so often that two messages are in the ring at once; `MaxTime` is
that and the sleeps that can still follow. `MaxProcs` is 8, a child link and a waiter's block for each
worker, so that no pool runs out, as none does with the 1024 of the code.

`resources` hands out four pids over three blocks, so that a block is used again while old
pointers to it exist, and has two ids and two types for one resource, so that a create
can fail for want of a block and a reopen can meet the other type. It has no clock and no
sleep; both are left to `ageing`, whose two sleepers have wake-up times in any order beside
a process that ages and one that does not. `quanta` has the least `MAX_PRIORITY` that lets a
process spend some of its quanta, be overtaken and go on, and requests of none, the maximum and
one too many. `ExitToStranger` needs five pids over four blocks, which none of these runs
has; `Quanta` with `MaxPid` 4, `MaxProcs` 4, `WaitArgs` {0} and `MAX_PRIORITY` 2 reaches it.
Ids and types are symmetric: the code compares them for equality only, and the
properties of that run are safety.

`VIEW NoResults` leaves `ret` out of the fingerprint: no guard reads it, and the properties
that speak of it speak of the value the same step wrote. In `MCResources`, `MCAgeing` and
`MCQuanta` it also makes one state of all in which the system has stopped in the same way: the
step that stops it changes nothing else and no step follows. Deadlock is not checked:
a system that has stopped (`halt`) has no step, and that is meant.

Fairness. `ContextsFairSpec` assumes nothing of the processes, which may compute for ever.
`Alarm` is weakly fair, because `setitimer` rearms SIGALRM for ever, and so are the signal's
delivery (`TimerHandler`) and what the CPU does by itself in the kernel (`KernelStep`). That
is not enough for an interrupt, which a next alarm may start again before its tick:
`EnterInterrupt` and `TimerInterrupt` are strongly fair, because the timer fires every ten
milliseconds and the interrupt takes microseconds. `ProgramsFairSpec` assumes
that a process computes for a finite time between two calls, as those of the tests do, and
that time goes on while the CPU idles; the two are stated by what such a step does to `pc`
and `time`, which no other step changes. `Ageing` and `Quanta` assume weak
fairness of their tick and of the way out of the trap (`AgeingLeavesTrap`,
`QuantaLeavesTrap`): `disastrOS_start` is ordinary code that goes
on after a trap that left the CPU to nobody. `AgedRuns` speaks of processes with a gain only;
one without may starve, as the exercise intends.

## Findings

* `wait_result` - `internal_exit` makes a waiting parent ready without writing its
  `syscall_retvalue` and without reaping the child. The parent returns from `wait` with the
  result of an earlier call, and the next `wait` reports the same child. 01's README says
  the parent gets the pid.
  In the tests init counts the same child twice (`test_sem.c:50-53`) and shuts down while
  workers live.
* `alarm_in_switch` - SIGALRM is blocked during a system call. The `setcontext` at its end
  unblocks it before it loads the registers, so that an alarm that came meanwhile is
  delivered there, on the system stack. `timerHandler` saves that frame as the context of the
  running process, over the one the process saved before its call, and the interrupt it jumps
  to overwrites the frame. The run's counterexample is the shortest case: `UserCall`,
  `EnterTrap`, `Alarm`, `Trap`, `Switch`, `TimerHandler`. A build of the repository's code
  agrees: of processes that make system calls in a loop some do not come back after a number
  of alarms, while others go on.

Met while modelling, and listed under the hazards:

* Waiters of semaphores and queues use blocks of the PCBPtr pool, so that `spawn` can find
  it empty although there is a PCB; the assertion behind `PCBPtr_alloc` comes too late.
* An alarm in the middle of the `swapcontext` of a system call, when the registers are saved
  and the mask is not yet changed, lets `timerHandler` replace the context the call has just
  saved; the process comes back to the rest of that `swapcontext` and makes a call again.
* A consumer of `test_mq.c` that a close wakes ignores the error and prints a message it
  never got.
* An exit in 05 hands its dead children to init without waking an init that is blocked in
  a wait they would end. `OnlyOrphansAreMissed` says that no wait is missed in another way.
* `internal_preempt` of 05 schedules, and the tail of the trap schedules again: with one
  ready process, `preempt` comes back to its caller.
* Semaphores count from 1, queues from 100, both up to 1024 on one list: the hundredth
  semaphore and the first queue have the same rid.
* In 04 the descriptors of a process that becomes a zombie are never released, not even
  when it is reaped: the resource stays in use for ever (`OpenResourcesStay` leaves nobody to
  give it up), and the pools miss their blocks.

## Proofs

Every theorem holds for all values of the constants that satisfy the assumptions of the
modules (`KernelAssumption`, `SemaphoresAssumption`, `MessageQueuesAssumption`,
`PoolAllocatorAssumption`, `PooledListsAssumption`, `ProcessesAssumption`,
`TimersAssumption`, `ResourcesAssumption`, `AgeingAssumption`, `QuantaAssumption`,
`ProgramsAssumption`): bounds are
naturals, initial values integers, capacities naturals; a pool has at least one block of at
least one byte, and no list head is the null index. Sleeps and requests for quanta are any
integers, priorities and gains naturals, and the largest priority is at least 1. Of the test
programs there is at least one worker of each kind, pids for all of them and no more, and a
pool of links with two blocks for each.

| module | specification | proved |
|---|---|---|
| `Kernel_proofs` | `KernelSpec` | `KernelTypeOK`, `ListsMatchStatus`, `WorkConserving`, `OneTimerPerSleeper`, `TimersOnTime`, `FamilyTree`, `WaiterHasLiveChild`; the action properties `ReapedByParent`, `OnlyOrphansAreMissed` |
| `Contexts_proofs` | `ContextsSpec` | `RunsAsRunning`; the action property `LostOnlyInSwitches` |
| `Semaphores_proofs` | `SemaphoresSpec` | `SemWaitersAreBlocked`, `ValueCountsWaiters`; the action property `WaitResultTellsClose`; the refinement `ImplementsCountingSemaphore` |
| `MessageQueues_proofs` | `QueuesSpec` | `MqWaitersAreBlocked`, `RingConsistent`; the action property `MqResultTellsClose`; the refinement `ImplementsMessageChannel` |
| `DisastrOS_proofs` | `Spec` of the whole | `OneReasonToWait`, `PtrsAccounted`; both refinements again, with both kinds of resource in one system |
| | `ProgramsSpec` | `NoCallFails`, `OnlyWhatWasSent` |
| `PooledLists_proofs` | `PooledSpec` | `FreeListIsChain`, `ChainsAgree`, `FindsItsItems`, `DetachedIsInsertable`; the refinements `ImplementsBlockPool` and `ImplementsListSpec` |
| `Stages_proofs` | `ResourcesSpec` | `ProcessesListed`, `SleepersHaveTimers`, `DescriptorsLinked`, `DescriptorsAccounted`; the action property `OpenResourcesStay` |
| | `AgeingSpec` | `ProcessesListed`, `SleepersHaveTimers`; the action property `NobodyOvertakes` |
| | `QuantaSpec` | `ProcessesListed`, `QuantaHealthy` |

**The kernel.** No invariant above is inductive alone. `KernelInv` is their conjunction with
what they rest on: a process other than init that is blocked in a wait has no dead child that
would end it (`WaiterSeesDeadChild`), a pid that was not handed out is nobody's (`PidsFresh`, or `Spawn`
might revive a process that is on a list), init is alive (`InitLives`, or orphans would
get a dead parent), and `ptrs` counts the processes that have a parent and the waiters of
semaphores and queues (`LinksCounted`, from which the bounds of `ptrs` in the type invariant
follow: a reaped child or a woken waiter is in one of the two sets, so the count was
positive). Since `LinksCounted` counts the waiters of resources from the start, `KernelInv`
is an invariant of the kernel on its own and of every module above it: a call on a resource
has to show what it does to the scheduler, and `BlockKeepsInv` and `UnblockKeepsInv` say
that parking the caller and waking waiters keep it. `OnlyOrphansAreMissed` compares two
states and covers init too; each action is shown to keep the invariant and to satisfy it
(`MissesOrphansOnly`), from which `WaiterSeesDeadChild` follows (`OthersMissNothing`). A wait
blocks only when it has found no dead child, a zombie that an exit makes wakes the parent that
waits for it, and those an exit hands on go to init.

The scheduler is treated once, in the first part of `Kernel_proofs`, for any record `s`: `Settled(s, now)`
says that the lists match the statuses, the CPU is idle only if it must be and the
timers are in order. `ScheduleSettles` shows that `internal_schedule` establishes it from
any record whose lists match, `TrapTailSettles` that the tail of the trap keeps it, and
`OnlyMoves` that neither makes, kills or blocks a process. Each action then needs an
argument for its own assignments only. The timers need that the expired ones are
a prefix (`FirstLaterSplits`) and that their owners, whom the prefix names once each, are
the sleepers that stop sleeping (`WakeExpiredWakesSleepers`). `Asleep`, that whoever waits in a
sleep has a timer and the reverse, includes that whoever waits does so in a call.

`SequenceLemmas` states what Append, Tail, concatenation, RemoveAt and InsertAt do to the
elements of a sequence and to its being free of repetitions. `PlacesCount` is the counting
argument of the composition: the places on lists that share no element and repeat none are
as many as the elements on them.

**Contexts.** `ContextsInv` is `KernelInv`, which every step of the
contexts keeps because it is a step of the kernel, or stops it, or is none that the kernel
sees (`ContextsKeepKernel`), together with two facts about the contexts. `MasksFit`: SIGALRM
is blocked in the trap, and not on the way into it nor in a saved context that leads back
to the end of a call; without it `Load` might start a function that cannot be interrupted.
`FramesFit`: process code is somebody's and kernel code nobody's, so that the trap and the
interrupt, which change who runs, never do so under a process that is on the CPU, and the end
of a handler has something of the process's to return to.

**Semaphores and queues.** `SemInv` is `SemWaitersAreBlocked` and `ValueCountsWaiters`, with
what the next call needs: a semaphore that will be opened is not open yet and has no
waiters. Together with `KernelInv` it is inductive. Which processes are blocked in which
call changes only through the caller of a call and those it wakes (`BlocksKeepsCalls`,
`UnblocksKeepsCalls`); every action then compares one waiting list with that set. `MqInv` is
the same for the two waiting lists of a queue, with the ring: both indices are in the ring and
their distance is the count. A blocked receiver's queue is empty, which makes it safe to
hand a message over without looking into the ring.

**The refinements.** `CountingSemaphore` and `MessageChannel` see only the resources:
a step of the kernel is a stutter, a call is the abstract action of its name. For
semaphores the permits are the value above zero and the queue is the waiting list
(`SemCallRefines`). For queues the content of the channel is read out of the ring:
`PutAppends` and `TakeIsHead` say that writing at the tail appends to it and that reading at
the head takes its first, around the end of the ring for every capacity
(`RingMoves`, `RingPositions`).

**The whole.** `Inv` is `KernelInv`, `SemInv` and `MqInv`. A call on a semaphore wakes or
blocks nobody on a queue, and the reverse, because a blocked process is in one call.
`OneReasonToWait` and `PtrsAccounted` are read off it: the waiters of `LinksCounted` are,
by the two halves, those on the lists of semaphores and queues, each once, and
`PlacesCount` counts them there.

**The test programs.** `ProgramsInv` adds to `Inv` what ties the place of each process in
its program to the kernel. `AtTheirCalls`: who is alive is at one of its calls (`InitCalls`,
`WorkerCalls` read the scripts call by call), and a pid that was not handed out is at its
first. `OneResource`: there is one resource, from init's open to its close, under the rid
init keeps. `ChildrenSuffice`: what init has yet to count is no more than its children and
the workers it has yet to spawn. A wait that a child ends without being reaped lets init
count that child twice, so that it reaches zero early, with children left, and never late:
each reaping is followed by a count and nothing else takes a child from init, so that no
wait of init's fails. `InitIsFree`: init makes no call that blocks on a resource, so that no
close wakes it with an error.

`PostsSuffice` is the counting argument of the semaphore: the waiters that are through their
wait and the permits that are left are together no more than the posts. `Through` is written
with the call a process is blocked in and not with its status, because a waiter that was
woken counts from then on, before it runs. A wait turns a permit into a waiter that is
through or blocks, a post makes a permit or a waiter that is through, and the close drops
permits and wakes waiters with an error, which are not through. `MessagesApart` is the same
for the queue: a message that was sent lies in the ring once or in one inbox, or is lost
with a sender that blocked, so that a message taken out of the ring (`SeqTail`) or handed to a blocked
receiver is nobody else's. `ResultsFit` has the results init's loop looks at.
`PtrsAreLeft` shows that no call finds the pool of links empty, from `LinksCounted` and
the two blocks for each worker.

**Lists and pool.** The properties speak of the chain somebody meets who follows the links;
what a call keeps is easier said of a sequence the links run through. `FreeChain(s)` says
that `first_idx` is the first element of s, that `free_list` leads from each element to the
next and from the last to null, and that s has the blocks that are not handed out, once
each; `IsList(l, s)` says the same of a list with its two ends, both links of each item and
its count. `PooledInv` has such a sequence for the pool and for each list, no links in a
block on no list, and only blocks on lists that are handed out: without the last a
`PCB_alloc`, which clears the links of its block, might cut a list in two. A getBlock takes the
first element of the sequence (`GetKeepsChain`), a releaseBlock puts one in front
(`ReleaseKeepsChain`), every call on a list is an insertion or a removal at one position
(`CallsArePositions`), whose neighbours alone change (`InsertKeepsLists`,
`DetachKeepsLists`); an item is on no other list, so that the others stay (`OthersStay`).
That the walk along the links is that sequence needs an induction along the walk, a recursive
function: `WalkVisits` takes the least position at which the two would differ (`ChainIs`,
`ListIs`). The refinements then read the set of free blocks and the sequences off the
invariant; `BlockAddress` and `AlignedAddress` say that blocks have different addresses and
that the address releaseBlock accepts is that of the block it computes.

**The stages before 05.** Here a process is a block that is freed and used again, under
parent pointers that outlive the parent. `ProcInv` is what all stages share. Of
`ProcessesListed` it has the ready list as it stands (`ReadyListed`), and instead of the
count of places on lists of children it says that these lists partition the processes that
were spawned (`Partition`): a spawn adds one at the end of a list, an exit hands a
list on to init, a reaping or an exit to the parent takes one out (`PartitionGrows`,
`PartitionHandsOn`, `PartitionShrinks`), and each is an argument about sets and not about a
sum. `InvListsProcesses` then counts. The rest is what the steps need of each other: a free
block is as `PCB_free` left it (`FreeIsWhole`, or a spawn would find children in its block),
the dead have no children and who is not blocked awaits nobody (`FieldsFit`), init is there
to be handed orphans (`InitLives`), a pid is one process's (`PidsDistinct`, or a wait for a
pid might free another block) and the children fit in what is left of the pool of links
(`PtrsSuffice`).
No part of it says where `pcb->parent` points: the exit of a process whose parent pointer is
stale hands the CPU to a stranger only if the stranger waits for its pid, which stops the
system (`ExitToStranger`) without breaking a list.

`Stage03Inv` adds `SleepersHaveTimers`, as a statement about any list of timers and any set
of sleepers (`Lined`). `ExpiredWake` says that the timers that have expired are a prefix, that
what is left is in order and whose they were; `TimerAdds` that a new one is put in its
place; `NothingToRelease` that the loop over the timers in `internal_exit`, which its comment
calls untested, never finds one. `AgeingInv` needs no more than the types of the priorities.
Both schedulers pick with a scan for the first process that is at least as good as all;
`FirstOfTheLeast` says that there is one (`LeastIsFound`, `MostIsFound`). That nobody
overtakes a process at 0 rests on it being the first: a process behind has a priority of at
least 0 and is not picked (`ScheduleOvertakesNobody`). Every other step appends to the ready
list or takes a process out of it, and neither puts anybody in front
(`AppendOvertakesNobody`, `RemovalOvertakesNobody`); nor does it change the priority of a
process that is there, because a new process has a block that was free (`NextIsFree`).
`QuantaInv` says of every block, free ones included, that the elapsed quanta and those to go
make the total, and of those on the ready list that they have one to go.

`ResourcesInv` adds, for 04, that the lists of the resources are those of the descriptors of
the processes that have a PCB (`LinkedFor`). That a new process finds no entry under
its pid, and an open no descriptor under its fd, is `NoneAhead`: both numbers only grow.
The entries of processes that are gone stay on the lists, where `LinkedFor` does not look and
`CountsFree` does: it counts all entries. An open adds one (`EntryCounts`), a close
takes one away, and an exit takes away as many as the process has descriptors
(`ReleaseCounts`, by a bijection between fds and entries). Of `OpenResourcesStay`
each call has its own reason: an open finds the resource and leaves its type
(`OpenClosesNothing`), a destroy looks for users first (`DestroyClosesNothing`), a close takes
the entry of the descriptor it closes (`CloseTakesItsOwn`), and an exit those under the
pid of the caller, which `LinkedFor` ties to its descriptors (`ExitTakesItsOwn`).

Only model-checked: liveness (`SleeperWakes`, `TestsEnd`, `AgedRuns`, `EveryReadyRuns`),
which is beyond the prover under fairness. Every invariant and action property the passing runs
check is a theorem.

## Not modelled

* An alarm in the middle of `internal_schedule`, which `timerInterrupt` runs with SIGALRM
  unblocked: it would take the scheduler apart into its list operations, each of which the
  handler could repeat on half-moved lists. The interval of the timer is far longer than the
  interrupt.
* A process function that returns instead of calling `disastrOS_exit`: none of the
  repository's does. The path it would take is `Restart` in `Processes`.
* The contexts of the earlier stages, and the trap of 01, a plain call on one stack, with
  `revertAndPreempt` of its exercise.
* The unit tests of 00, whose call sequences `PooledLists` contains, and printing.
* A queue capacity that is negative or that `malloc` refuses, an overflow of the wake-up
  time, and a call with a rid of the other kind: left out of the inputs and listed as hazards.

`PROJECT.json` gives status and reason for each component.

## Plan

Done: `Kernel`, `Semaphores`, `MessageQueues`, their abstract specifications,
`DisastrOS`, `LinkedList`, `PoolAllocator` and their composition `PooledLists`; the invariant
of `Kernel`, `Contexts`, `Semaphores`, `MessageQueues` and `DisastrOS` and the two refinements
proved, and so are the free list and the links; the stages 01 to 04 (`Processes`, `Timers`,
`Resources`) and the two schedulers (`Ageing`, `Quanta`), with all their safety proved;
`Contexts`; the test programs (`Programs`), with their safety proved.

Next, in this order:

1. `revertAndPreempt` on the trap of 01.
2. `internal_schedule` in steps, with alarms between them.

Theorems worth proving next: that the test programs stop only by init's shutdown, which
`TestsEnd` contains and `ProgramsInv` comes close to; and the safety of whatever the steps
above add.
