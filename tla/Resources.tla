----------------------------- MODULE Resources ------------------------------
(***************************************************************************)
(* Stage 04 of disastrOS (disastrOS_04_resources): resources that          *)
(* processes create, open, close and destroy, and what becomes of the      *)
(* descriptors of a process that exits, on the timers of stage 03.         *)
(*                                                                         *)
(* A resource is its id.  A descriptor and its DescriptorPtr are one pair  *)
(* <<pid, fd>>: the one is on the list of the process, with the resource   *)
(* it is for, the other on the list of the resource.                       *)
(***************************************************************************)
EXTENDS Timers

CONSTANTS
    MaxResources,   \* MAX_NUM_RESOURCES, the blocks of the resource pool
    Ids,            \* the resource ids processes use
    Types,          \* and the types
    MaxFd           \* bound: the descriptors a process opens in its life

ASSUME ResourcesAssumption == MaxResources \in Nat /\ MaxFd \in Nat

VARIABLES
    type,           \* the resources on resources_list, id -> type
    users,          \* resource->descriptors_ptrs
    descriptors,    \* pcb->descriptors, fd -> id
    last_fd,        \* pcb->last_fd
    free_descs,     \* free blocks of the Descriptor pool
    free_descptrs   \* and of the DescriptorPtr pool

resourceVars == <<type, users, descriptors, last_fd, free_descs, free_descptrs>>
stage04Vars == <<stageVars, resourceVars>>

ERESOURCECREATE == -8
ERESOURCEOPEN == -9
ERESOURCENOEXCL == -10
ERESOURCENOFD == -11
ERESOURCECLOSE == -12
ERESOURCEINUSE == -13

\* Two bits of a mode count.  DSOS_WRITE contains that of DSOS_CREATE, so that an
\* open for writing creates, and DSOS_READ neither.
CREATE == 1
READ == 2
WRITE == 3
EXCL == 4
Modes == {READ, WRITE, READ + EXCL, WRITE + EXCL}
Creates(mode) == mode % 2 = CREATE
Excludes(mode) == mode >= EXCL

Exists(id) == id \in DOMAIN type
Me == pcb[running].pid

\* What a handler of this file leaves alone.
Answer(v) ==
    /\ ret' = [ret EXCEPT ![running] = v]
    /\ UNCHANGED <<pcb, free, ptrs, last_pid, init_pcb, running, ready_list, halt, timerVars>>

-----------------------------------------------------------------------------
(* Open                                                                    *)

\* The list f, with x on it under the key k.
Entered(f, k, x) == [i \in DOMAIN f \cup {k} |-> IF i = k THEN x ELSE f[i]]

\* The resources and their users after the first half of open.
TypeAfter(id, t, mode) == IF Creates(mode) THEN Entered(type, id, t) ELSE type
UsersAfter(id, mode) == IF Creates(mode) THEN Entered(users, id, {}) ELSE users

\* A resource can be fetched, or created, for an open in this mode.
Fetches(id, t, mode) ==
    IF Creates(mode) THEN ~ Exists(id) /\ Cardinality(DOMAIN type) < MaxResources
                     ELSE Exists(id) /\ type[id] = t

\* Resource_alloc answers null and List_insert accepts nothing of the kind: the
\* error check that follows comes too late.
OpenWithoutBlock(id, mode) ==
    /\ InUserCode
    /\ Creates(mode) /\ ~ Exists(id)
    /\ Cardinality(DOMAIN type) = MaxResources
    /\ Stop("pool_exhausted")
    /\ UNCHANGED <<timerVars, resourceVars>>

OpenRefused(id, t, mode) ==
    LET error == IF Creates(mode) THEN ERESOURCECREATE ELSE ERESOURCEOPEN IN
    /\ InUserCode
    /\ IF Creates(mode) THEN Exists(id) ELSE ~ Fetches(id, t, mode)
    /\ Answer(error)
    /\ UNCHANGED resourceVars

InUse(id, mode) == Excludes(mode) /\ UsersAfter(id, mode)[id] # {}

OpenNotExclusive(id, t, mode) ==
    /\ InUserCode
    /\ Fetches(id, t, mode)
    /\ InUse(id, mode)
    /\ Answer(ERESOURCENOEXCL)
    /\ UNCHANGED resourceVars

\* No descriptor is left; a resource that was created for it stays.
OpenWithoutFd(id, t, mode) ==
    /\ InUserCode
    /\ Fetches(id, t, mode)
    /\ ~ InUse(id, mode)
    /\ free_descs = 0
    /\ type' = TypeAfter(id, t, mode)
    /\ users' = UsersAfter(id, mode)
    /\ Answer(ERESOURCENOFD)
    /\ UNCHANGED <<descriptors, last_fd, free_descs, free_descptrs>>

\* Mutant: the descriptor is not entered in the list of the resource.
Link_OneWay(id, fd, us) ==
    /\ descriptors' = [descriptors EXCEPT ![running] = Entered(@, fd, id)]
    /\ users' = us

\* The descriptor fd of the running process for id, on both lists.
Link(id, fd, us) ==
    /\ descriptors' = [descriptors EXCEPT ![running] = Entered(@, fd, id)]
    /\ users' = [us EXCEPT ![id] = @ \cup {<<Me, fd>>}]

OpenSucceeds(id, t, mode) ==
    LET fd == last_fd[running] IN
    /\ InUserCode
    /\ Fetches(id, t, mode)
    /\ ~ InUse(id, mode)
    /\ free_descs > 0
    /\ fd < MaxFd
    /\ type' = TypeAfter(id, t, mode)
    /\ Link(id, fd, UsersAfter(id, mode))
    /\ last_fd' = [last_fd EXCEPT ![running] = fd + 1]
    /\ free_descs' = free_descs - 1
    /\ free_descptrs' = free_descptrs - 1
    /\ Answer(fd)

-----------------------------------------------------------------------------
(* Close and destroy                                                       *)

CloseRefused(fd) ==
    /\ InUserCode
    /\ fd \notin DOMAIN descriptors[running]
    /\ Answer(ERESOURCECLOSE)
    /\ UNCHANGED resourceVars

\* Mutant: the DescriptorPtr is not freed.
FreeBoth_OnlyOne(n) ==
    free_descs' = free_descs + n /\ free_descptrs' = free_descptrs

FreeBoth(n) ==
    free_descs' = free_descs + n /\ free_descptrs' = free_descptrs + n

Close(fd) ==
    LET id == descriptors[running][fd] IN
    /\ InUserCode
    /\ fd \in DOMAIN descriptors[running]
    /\ descriptors' = [descriptors EXCEPT
                          ![running] = Restrict(@, DOMAIN @ \ {fd})]
    /\ users' = [users EXCEPT ![id] = @ \ {<<Me, fd>>}]
    /\ FreeBoth(1)
    /\ Answer(0)
    /\ UNCHANGED <<type, last_fd>>

\* Mutant: whether somebody uses the resource is not asked.
Destroyable_Used(id) == Exists(id)

Destroyable(id) == Exists(id) /\ users[id] = {}

DestroyRefused(id) ==
    /\ InUserCode
    /\ ~ Destroyable(id)
    /\ Answer(IF Exists(id) THEN ERESOURCEINUSE ELSE ERESOURCECLOSE)
    /\ UNCHANGED resourceVars

Destroy(id) ==
    /\ InUserCode
    /\ Destroyable(id)
    /\ type' = Restrict(type, DOMAIN type \ {id})
    /\ users' = Restrict(users, DOMAIN users \ {id})
    /\ Answer(0)
    /\ UNCHANGED <<descriptors, last_fd, free_descs, free_descptrs>>

-----------------------------------------------------------------------------
(* Processes that come and go                                              *)

\* PCB_alloc gives the new process an empty list, over whatever is in the block.
NoDescriptors(b) ==
    /\ descriptors' = [descriptors EXCEPT ![b] = <<>>]
    /\ last_fd' = [last_fd EXCEPT ![b] = 0]
    /\ UNCHANGED <<type, users, free_descs, free_descptrs>>

SpawnWithoutDescriptors == Spawn /\ NoDescriptors(NextPcb) /\ UNCHANGED timerVars

RestartWithoutDescriptors == Restart /\ NoDescriptors(NextPcb) /\ UNCHANGED timerVars

\* The one path of exit that releases resources.
ExitReleasesResources ==
    /\ ExitReleasesTimers
    /\ users' = [id \in DOMAIN users |->
                    users[id] \ {<<Me, fd>> : fd \in DOMAIN descriptors[running]}]
    /\ descriptors' = [descriptors EXCEPT ![running] = <<>>]
    /\ FreeBoth(Cardinality(DOMAIN descriptors[running]))
    /\ UNCHANGED <<type, last_fd>>

-----------------------------------------------------------------------------
(* The specification                                                       *)

ResourcesInit ==
    /\ TimersInit
    /\ type = <<>>
    /\ users = <<>>
    /\ descriptors = [b \in Blocks |-> <<>>]
    /\ last_fd = [b \in Blocks |-> 0]
    /\ free_descs = MaxProcs
    /\ free_descptrs = MaxProcs

ResourcesNext ==
    \/ OtherStep /\ UNCHANGED <<timerVars, resourceVars>>
    \/ (Tick \/ Preempt \/ \E n \in SleepArgs : Sleep(n)) /\ UNCHANGED resourceVars
    \/ SpawnWithoutDescriptors
    \/ RestartWithoutDescriptors
    \/ ExitReleasesResources
    \/ \E id \in Ids, mode \in Modes : OpenWithoutBlock(id, mode)
    \/ \E id \in Ids, t \in Types, mode \in Modes :
          \/ OpenRefused(id, t, mode)
          \/ OpenNotExclusive(id, t, mode)
          \/ OpenWithoutFd(id, t, mode)
          \/ OpenSucceeds(id, t, mode)
    \/ \E fd \in 0 .. MaxFd : CloseRefused(fd) \/ Close(fd)
    \/ \E id \in Ids : DestroyRefused(id) \/ Destroy(id)

ResourcesSpec == ResourcesInit /\ [][ResourcesNext]_stage04Vars

-----------------------------------------------------------------------------
(* Properties                                                              *)

Entries(id) == IF Exists(id) THEN users[id] ELSE {}

ResourcesTypeOK ==
    /\ DOMAIN type \subseteq Ids /\ \A id \in DOMAIN type : type[id] \in Types
    /\ DOMAIN users = DOMAIN type
    /\ \A id \in DOMAIN users : users[id] \subseteq Pids \X (0 .. MaxFd)
    /\ \A b \in Blocks : /\ DOMAIN descriptors[b] \subseteq 0 .. MaxFd
                         /\ \A fd \in DOMAIN descriptors[b] : descriptors[b][fd] \in Ids
    /\ last_fd \in [Blocks -> 0 .. MaxFd]
    /\ free_descs \in 0 .. MaxProcs /\ free_descptrs \in 0 .. MaxProcs

\* A descriptor of a process is on the list of a resource that exists, so that no
\* close or exit follows a pointer to a destroyed one; and what is on the list of a
\* resource for a process that has its PCB is a descriptor that process can close.
DescriptorsLinked ==
    /\ ResourcesTypeOK
    /\ \A b \in Allocated, fd \in 0 .. MaxFd, id \in Ids :
          <<pcb[b].pid, fd>> \in Entries(id)
          <=> fd \in DOMAIN descriptors[b] /\ descriptors[b][fd] = id

\* Both pools miss a block for each entry of a resource's list and no other: an
\* open takes one from each on every path that succeeds, and none otherwise.
DescriptorsAccounted ==
    /\ free_descs = free_descptrs
    /\ free_descs = MaxProcs - Cardinality(UNION {{id} \X Entries(id) : id \in Ids})

\* A resource that somebody has open neither disappears nor changes its type, and
\* nobody else gives it up for him: an entry leaves its list only in a close or an
\* exit of the process whose it is, together with the descriptor it stands for.  A
\* process that is gone with a resource open therefore has it for ever.
OpenResourcesStay ==
    [][\A i \in DOMAIN type : \A e \in users[i] :
          /\ i \in DOMAIN type' /\ type'[i] = type[i]
          /\ \/ e \in users'[i]
             \/ /\ InUserCode /\ e[1] = Me
                /\ e[2] \in DOMAIN descriptors[running] /\ descriptors[running][e[2]] = i
                /\ e[2] \notin DOMAIN descriptors'[running]]_stage04Vars

=============================================================================
