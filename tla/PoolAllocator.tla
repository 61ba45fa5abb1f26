---------------------------- MODULE PoolAllocator ----------------------------
(***************************************************************************)
(* The fixed-size allocator of pool_allocator.c, which the PCB, PCBPtr,    *)
(* timer, semaphore and message queue pools are made of: a singly linked   *)
(* free list of block indices in an array beside the blocks.               *)
(*                                                                         *)
(* A block address is its offset in the buffer.  A caller may pass any     *)
(* address to releaseBlock, which answers by the checks it makes.          *)
(***************************************************************************)
EXTENDS Integers, Sequences, FiniteSets, SequencesExt

CONSTANTS
    NumItems,   \* num_items
    ItemSize    \* item_size

ASSUME PoolAllocatorAssumption == NumItems \in Nat \ {0} /\ ItemSize \in Nat \ {0}

NullIdx == -1
DetachedIdx == -2
NullBlock == -1     \* a null void*

Idx == 0 .. NumItems - 1
Block(i) == i * ItemSize

\* The addresses callers pass: in the buffer, and up to a block beside it.
Addresses == -ItemSize .. (NumItems + 1) * ItemSize - 1

Success == "Success"
UnalignedFree == "UnalignedFree"
OutOfRange == "OutOfRange"
DoubleFree == "DoubleFree"
Results == {Success, UnalignedFree, OutOfRange, DoubleFree}

VARIABLES
    first_idx, size, free_list,     \* a->first_idx, a->size, a->free_list
    block,                          \* what the last getBlock returned
    result                          \* what the last releaseBlock returned

vars == <<first_idx, size, free_list, block, result>>

\* PoolAllocator_init: every block in one chain, in address order.
PoolAllocator_init ==
    /\ first_idx = 0
    /\ size = NumItems
    /\ free_list = [i \in Idx |-> IF i = NumItems - 1 THEN NullIdx ELSE i + 1]

\* The block handed out is marked as such.
Detach(i) == free_list' = [free_list EXCEPT ![i] = DetachedIdx]

PoolAllocator_getBlock ==
    /\ first_idx # NullIdx
    /\ first_idx' = free_list[first_idx]
    /\ size' = size - 1
    /\ Detach(first_idx)
    /\ block' = Block(first_idx)
    /\ UNCHANGED result

GetBlockFails ==
    /\ first_idx = NullIdx
    /\ block' = NullBlock
    /\ UNCHANGED <<first_idx, size, free_list, result>>

\* Mutant: a block given back twice passes.
Verdict_NoDoubleFree(b) ==
    IF b % ItemSize # 0 THEN UnalignedFree
    ELSE IF b \div ItemSize \notin Idx THEN OutOfRange
    ELSE Success

\* The checks of releaseBlock, in their order.
Verdict(b) ==
    IF b % ItemSize # 0 THEN UnalignedFree
    ELSE IF b \div ItemSize \notin Idx THEN OutOfRange
    ELSE IF free_list[b \div ItemSize] # DetachedIdx THEN DoubleFree
    ELSE Success

\* Mutant: the block is linked in, and the head of the list is not moved.
Attach_HeadKept(i) == free_list' = [free_list EXCEPT ![i] = first_idx] /\ first_idx' = first_idx

\* The block given back becomes the first of the free list.
Attach(i) == free_list' = [free_list EXCEPT ![i] = first_idx] /\ first_idx' = i

ReleaseRefused(b) ==
    /\ Verdict(b) # Success
    /\ result' = Verdict(b)
    /\ UNCHANGED <<first_idx, size, free_list, block>>

Released(b) ==
    /\ Verdict(b) = Success
    /\ result' = Success
    /\ Attach(b \div ItemSize)
    /\ size' = size + 1
    /\ UNCHANGED block

PoolAllocator_releaseBlock(b) == Released(b) \/ ReleaseRefused(b)

Init == PoolAllocator_init /\ block = NullBlock /\ result = Success

-----------------------------------------------------------------------------
(* Properties                                                              *)

\* Every variable holds a value of its type.
TypeOK ==
    /\ first_idx \in Idx \cup {NullIdx}
    /\ size \in 0 .. NumItems
    /\ free_list \in [Idx -> Idx \cup {NullIdx, DetachedIdx}]
    /\ block \in Addresses \cup {NullBlock}
    /\ result \in Results

\* The blocks on the free list, first to last.
Chain ==
    LET at[k \in 1 .. NumItems] ==
            IF k = 1 THEN first_idx ELSE IF at[k - 1] \in Idx THEN free_list[at[k - 1]] ELSE NullIdx
    IN RestrictValues(at, LAMBDA i : i # NullIdx)

\* The free list runs through every block that is not detached, once, and ends
\* where size says: no sequence of getBlock and releaseBlock loses a block or
\* lists one twice.
FreeListIsChain ==
    /\ TypeOK
    /\ ToSet(Chain) = {i \in Idx : free_list[i] # DetachedIdx}
    /\ IsInjective(Chain)
    /\ size = Len(Chain)

Abstract == INSTANCE BlockPool WITH
    Blocks <- {Block(i) : i \in Idx},
    NoBlock <- NullBlock,
    free <- {Block(i) : i \in {j \in Idx : free_list[j] # DetachedIdx}},
    answer <- block

\* The free list implements a set of free blocks: wrong and repeated frees change
\* nothing, a getBlock fails only when every block is in use.
ImplementsBlockPool == Abstract!Spec

=============================================================================
