---------------------------- MODULE MCDisastrOS ----------------------------
(* DisastrOS, with one semaphore and one queue, for TLC.                   *)
EXTENDS DisastrOS

\* All but ret and inbox, which are results no guard reads.
NoResults == <<sched, time, last_pid, zombies, parent, children, ptrs, halt,
               sem_rids, sem, next_sem_rid, mq_rids, mq, last_mq_rid>>

\* sem_open lets a negative value through, which no process owes.
OwingOrEmpty == {-1, 0}

=============================================================================
