------------------------------ MODULE MCKernel ------------------------------
(* Kernel, with small pools, for TLC.                                      *)
EXTENDS Kernel

\* All but ret.  It is a result: no guard reads it, and the properties of a step
\* speak of the result that step writes, so that states which differ in older
\* results alone have the same successors and the same verdicts.
NoResults == <<sched, time, last_pid, zombies, parent, children, ptrs, halt>>

\* A sleep that is refused and sleeps of 0 to 2 ticks.
UpTo2 == {-1, 0, 1, 2}
=============================================================================
