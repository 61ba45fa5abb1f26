\* Two lists for four blocks of two bytes; addresses up to a block outside of the
\* buffer.
SPECIFICATION PooledSpec
CONSTANTS
    NumItems = 4
    ItemSize = 2
    Lists = {l1, l2}
INVARIANTS
    FreeListIsChain
    ChainsAgree
    FindsItsItems
    DetachedIsInsertable
PROPERTIES
    ImplementsBlockPool
    ImplementsListSpec
