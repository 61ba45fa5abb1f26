------------------------------ MODULE MCQuanta ------------------------------
(* Quanta with small pools, for TLC.                                       *)
EXTENDS Quanta

\* None, some, and one more than may be asked for.
UpToMore == {0, MAX_PRIORITY, MAX_PRIORITY + 1}

\* All but ret, which no guard and no property reads; and of a system that stopped,
\* how: the step that stops it changes nothing else, and it is the last.
NoResults ==
    IF halt # "no" THEN <<halt>>
    ELSE <<pcb, free, ptrs, last_pid, init_pcb, running, ready_list, quanta>>
=============================================================================
