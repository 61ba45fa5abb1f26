---------------------------- MODULE PooledLists ----------------------------
(***************************************************************************)
(* Lists of blocks of a pool: how the kernel uses the two libraries        *)
(* together.  A PCB, a PCBPtr, a TimerItem, a Semaphore or a Mqueue is a   *)
(* block of a PoolAllocator that starts with the links of a list item.     *)
(*                                                                         *)
(* A block is linked while it is allocated and given back while it is on   *)
(* no list.  A caller may also give back what releaseBlock refuses: a      *)
(* block that is free, an address inside a block or beside the buffer.     *)
(***************************************************************************)
EXTENDS PoolAllocator

CONSTANT Lists      \* the list heads

ASSUME PooledListsAssumption == NullIdx \notin Lists

VARIABLES first, last, count, prev, next, home      \* see LinkedList

L == INSTANCE LinkedList WITH Items <- Idx, Null <- NullIdx, size <- count

listVars == <<first, last, count, prev, next, home>>
pooledVars == <<vars, listVars>>

-----------------------------------------------------------------------------

Allocated == {i \in Idx : free_list[i] = DetachedIdx}

\* Semaphore_alloc and internal_mq_open leave the links as they find them.
Allocate == PoolAllocator_getBlock /\ UNCHANGED listVars

\* PCB_alloc, PCBPtr_alloc and TimerItem_alloc clear them.
AllocateCleared ==
    /\ PoolAllocator_getBlock
    /\ prev' = [prev EXCEPT ![first_idx] = NullIdx]
    /\ next' = [next EXCEPT ![first_idx] = NullIdx]
    /\ UNCHANGED <<first, last, count, home>>

AllocateFails == GetBlockFails /\ UNCHANGED listVars

\* A block on no list is given back, or an address is that nobody should.
Release(b) ==
    /\ Verdict(b) = Success => home[b \div ItemSize] = NullIdx
    /\ PoolAllocator_releaseBlock(b)
    /\ UNCHANGED listVars

ListCall ==
    /\ \E l \in Lists :
         \/ \E x \in Allocated : L!PushBack(l, x) \/ L!PushFront(l, x) \/ L!Detach(l, x)
         \/ \E x, before \in Allocated : L!Insert(l, before, x)
         \/ L!PopFront(l)
    /\ UNCHANGED vars

PooledInit == Init /\ L!Init

PooledNext ==
    \/ Allocate
    \/ AllocateCleared
    \/ AllocateFails
    \/ \E b \in Addresses : Release(b)
    \/ ListCall

PooledSpec == PooledInit /\ [][PooledNext]_pooledVars

-----------------------------------------------------------------------------
(* Properties                                                              *)

\* The two chains of a list are each other's reverse, and no link is left to a
\* block that went back to the pool: only allocated blocks are on lists.
ChainsAgree ==
    /\ L!ChainsAgree
    /\ \A l \in Lists : ToSet(L!Forward(l)) \subseteq Allocated

\* List_find meets exactly the blocks that are on the list, from either end.
FindsItsItems == L!FindsItsItems

\* A block on no list has no link left, whatever it was before it was given back:
\* a semaphore or a queue in a block used again would be refused by List_insert,
\* and its caller does not look at the result.
DetachedIsInsertable == L!DetachedIsInsertable

\* The links implement the sequences, while the blocks behind them come and go.
ImplementsListSpec == L!ImplementsListSpec

=============================================================================
