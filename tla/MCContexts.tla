----------------------------- MODULE MCContexts -----------------------------
(* Contexts, with a few processes, for TLC.                                *)
EXTENDS Contexts

\* All but ret, which no guard and no property reads; and of a system that stopped,
\* how: the step that stops it changes nothing else, and it is the last.
NoResults ==
    IF halt # "no" THEN <<halt>>
    ELSE <<sched, time, last_pid, zombies, parent, children, ptrs, contextVars>>

=============================================================================
