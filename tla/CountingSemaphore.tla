-------------------------- MODULE CountingSemaphore --------------------------
(***************************************************************************)
(* What a semaphore of disastrOS promises its users, without the kernel    *)
(* under it: a number of permits and the queue of those who wait for one.  *)
(* A permit is taken, or waited for in order of arrival; a released permit *)
(* goes to the first of the queue, and is kept only when nobody waits.     *)
(***************************************************************************)
EXTENDS Integers, Sequences

CONSTANTS Rids, Users, Initial

VARIABLES
    open,       \* the semaphores that exist
    permits,    \* permits[r]: how many may pass without waiting
    queue       \* queue[r]: who waits, in order of arrival

vars == <<open, permits, queue>>

Init ==
    /\ open = {}
    /\ permits = [r \in Rids |-> 0]
    /\ queue = [r \in Rids |-> <<>>]

Open(r, n) ==
    /\ r \notin open
    /\ open' = open \cup {r}
    /\ permits' = [permits EXCEPT ![r] = n]
    /\ UNCHANGED queue

Take(r) ==
    /\ r \in open /\ permits[r] > 0
    /\ permits' = [permits EXCEPT ![r] = @ - 1]
    /\ UNCHANGED <<open, queue>>

Join(r, u) ==
    /\ r \in open /\ permits[r] = 0
    /\ queue' = [queue EXCEPT ![r] = Append(@, u)]
    /\ UNCHANGED <<open, permits>>

Release(r) ==
    /\ r \in open /\ queue[r] = <<>>
    /\ permits' = [permits EXCEPT ![r] = @ + 1]
    /\ UNCHANGED <<open, queue>>

Grant(r) ==
    /\ r \in open /\ queue[r] # <<>>
    /\ queue' = [queue EXCEPT ![r] = Tail(@)]
    /\ UNCHANGED <<open, permits>>

Close(r) ==
    /\ r \in open
    /\ open' = open \ {r}
    /\ permits' = [permits EXCEPT ![r] = 0]
    /\ queue' = [queue EXCEPT ![r] = <<>>]

Next == \E r \in Rids :
    \/ \E n \in Initial : Open(r, n)
    \/ Take(r)
    \/ \E u \in Users : Join(r, u)
    \/ Release(r)
    \/ Grant(r)
    \/ Close(r)

Spec == Init /\ [][Next]_vars

=============================================================================
