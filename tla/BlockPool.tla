------------------------------ MODULE BlockPool ------------------------------
(***************************************************************************)
(* What pool_allocator.c promises: a fixed set of blocks, each free or in  *)
(* use.  A block is handed out only while it is free, no block is refused  *)
(* while one is free, and only a block in use can be given back.           *)
(***************************************************************************)
EXTENDS Integers, FiniteSets

CONSTANTS Blocks, NoBlock

VARIABLES free, size, answer

vars == <<free, size, answer>>

Init == free = Blocks /\ size = Cardinality(Blocks) /\ answer = NoBlock

Get ==
    \E b \in free :
        /\ free' = free \ {b}
        /\ size' = size - 1
        /\ answer' = b

GetFails == free = {} /\ answer' = NoBlock /\ UNCHANGED <<free, size>>

Release(b) ==
    /\ b \notin free
    /\ free' = free \cup {b}
    /\ size' = size + 1
    /\ UNCHANGED answer

Next == Get \/ GetFails \/ \E b \in Blocks : Release(b)

Spec == Init /\ [][Next]_vars

=============================================================================
