---------------------------- MODULE MCSemaphores ----------------------------
(* Semaphores, with one or two semaphores and small pools, for TLC.        *)
EXTENDS Semaphores

\* All but ret.  It is a result: no guard reads it, and the properties of a step
\* speak of the results that step writes, so that states which differ in older
\* results alone have the same successors and the same verdicts.
NoResults == <<sched, time, last_pid, zombies, parent, children, ptrs, halt,
               sem_rids, sem, next_sem_rid>>

\* sem_open lets a negative value through, which no process owes.
Openings == {-1, 0, 1}

=============================================================================
