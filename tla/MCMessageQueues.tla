-------------------------- MODULE MCMessageQueues --------------------------
(* MessageQueues, with one queue and small pools, for TLC.                 *)
EXTENDS MessageQueues

\* All but ret and inbox.  They are results: no guard reads them, and the properties
\* of a step speak of the results that step writes, so that states which differ in
\* older results alone have the same successors and the same verdicts.
NoResults == <<sched, time, last_pid, zombies, parent, children, ptrs, halt,
               mq_rids, mq, last_mq_rid>>

=============================================================================
