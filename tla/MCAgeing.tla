------------------------------ MODULE MCAgeing ------------------------------
(* Ageing with small pools, for TLC.                                       *)
EXTENDS Ageing

\* All but ret, which no guard and no property reads; and of a system that stopped,
\* how: the step that stops it changes nothing else, and it is the last.
NoResults ==
    IF halt # "no" THEN <<halt>>
    ELSE <<pcb, free, ptrs, last_pid, init_pcb, running, ready_list, timerVars, prio>>
=============================================================================
