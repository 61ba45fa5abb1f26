---------------------------- MODULE MCResources -----------------------------
(* Resources with small pools, for TLC.                                    *)
EXTENDS Resources

\* No code compares two ids or two types but for equality.
Names == Permutations(Ids) \cup Permutations(Types)

\* All but ret, which no guard reads; and of a system that stopped, how: the step
\* that stops it changes nothing else, and it is the last.
NoResults ==
    IF halt # "no" THEN <<halt>>
    ELSE <<pcb, free, ptrs, last_pid, init_pcb, running, ready_list, timerVars, resourceVars>>
=============================================================================
