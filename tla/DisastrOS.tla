----------------------------- MODULE DisastrOS -----------------------------
(***************************************************************************)
(* The whole of disastrOS 05: the kernel with semaphores and message       *)
(* queues side by side.  They share the scheduler, the PCBPtr pool, from   *)
(* which child links and the waiters of both kinds are taken, and          *)
(* resources_list, on which a rid is looked up without asking its kind.    *)
(*                                                                         *)
(* A call names a resource of its own kind, or none.                       *)
(***************************************************************************)
EXTENDS Semaphores, MessageQueues

vars == <<kernelVars, semVars, mqVars>>

Init == KernelInit /\ SemInit /\ MqInit

Next ==
    \/ SemCall /\ UNCHANGED mqVars
    \/ MqCall /\ UNCHANGED semVars
    \/ KernelNext /\ UNCHANGED <<semVars, mqVars>>

Spec == Init /\ [][Next]_vars

-----------------------------------------------------------------------------
(* Properties                                                              *)

\* The structures whose event ends the wait of p, each with what it hangs on.
HeldBy(p) ==
    {<<"timer", i>> : i \in {i \in DOMAIN sched.timers : sched.timers[i].pid = p}}
    \cup {<<"sem", rid>> : rid \in {rid \in SemRids : p \in SemWaiters(rid)}}
    \cup {<<"mq_send", rid>> : rid \in {rid \in MqRids : p \in ToSet(mq[rid].wait_send)}}
    \cup {<<"mq_receive", rid>> : rid \in {rid \in MqRids : p \in ToSet(mq[rid].wait_recv)}}

\* A waiting process is held by one structure, a wait for a child by none but the
\* children; whoever does not wait is held by none: there is no wake-up from a
\* wait that is over, and no wait that nothing can end.
OneReasonToWait ==
    \A p \in Pids :
        Cardinality(HeldBy(p)) =
            IF sched.status[p] = "Waiting" /\ ~ BlockedInWait(p) THEN 1 ELSE 0

\* The places on the lists of children, of a semaphore's waiters and of a queue's.
ChildLinks == UNION {{p} \X DOMAIN children[p] : p \in Pids}
SemLinks == UNION {{rid} \X DOMAIN sem[rid].waiting : rid \in SemRids}
MqLinks == UNION {{rid} \X DOMAIN Waiters(mq[rid]) : rid \in MqRids}

\* The PCBPtr blocks in use are the links of children and of the waiters of both
\* kinds: the users of the common pool neither leak nor free each other's blocks.
PtrsAccounted == ptrs = Cardinality(ChildLinks) + Cardinality(SemLinks) + Cardinality(MqLinks)

=============================================================================
