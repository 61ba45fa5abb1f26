----------------------------- MODULE LinkedList -----------------------------
(***************************************************************************)
(* The doubly linked lists of linked_list.c, link by link.  The links are  *)
(* in the items themselves (a PCB, a PCBPtr, a TimerItem starts with       *)
(* them), so that an item can be on one list at a time.                    *)
(*                                                                         *)
(* The callers are the kernel's: an item is inserted while it is on no     *)
(* list, behind the last item, in front, or behind a given one, and is     *)
(* detached from the list it is on.  PooledLists says where the items come *)
(* from.                                                                   *)
(***************************************************************************)
EXTENDS Integers, Sequences, SequencesExt, FiniteSets

CONSTANTS
    Lists,
    Items,      \* finitely many
    Null        \* a null pointer: neither an item nor a list

VARIABLES
    first, last, size,      \* the ListHeads
    prev, next,             \* the ListItems
    home                    \* the list an item is on, or Null: what its owner knows

heads == <<first, last, size>>
links == <<prev, next>>
vars == <<heads, links, home>>

Pointers == Items \cup {Null}

\* A field of an item behind a pointer that may be null.
Set(field, p, v) == IF p = Null THEN field ELSE [field EXCEPT ![p] = v]

-----------------------------------------------------------------------------

\* The items from p, along link.
Walk(p, link) ==
    LET at[k \in 1 .. Cardinality(Items)] ==
            IF k = 1 THEN p ELSE IF at[k - 1] = Null THEN Null ELSE link[at[k - 1]]
    IN RestrictValues(at, LAMBDA x : x # Null)

\* The items of l, from its first, and from its last.
Forward(l) == Walk(first[l], next)
Backward(l) == Walk(last[l], prev)

\* List_find: item, if the scan from the first meets it.
List_find(l, item) == IF item \in ToSet(Forward(l)) THEN item ELSE Null

-----------------------------------------------------------------------------

\* Mutant: the list does not count the item.
List_insert_NotCounted(l, before, item) ==
    LET after == IF before = Null THEN first[l] ELSE next[before] IN
    /\ next' = Set(Set(next, before, item), item, after)
    /\ prev' = Set(Set(prev, item, before), after, item)
    /\ first' = IF before = Null THEN [first EXCEPT ![l] = item] ELSE first
    /\ last' = IF after = Null THEN [last EXCEPT ![l] = item] ELSE last
    /\ size' = size

\* Mutant: the successor keeps its link to the predecessor.
List_insert_OneWay(l, before, item) ==
    LET after == IF before = Null THEN first[l] ELSE next[before] IN
    /\ next' = Set(Set(next, before, item), item, after)
    /\ prev' = Set(prev, item, before)
    /\ first' = IF before = Null THEN [first EXCEPT ![l] = item] ELSE first
    /\ last' = IF after = Null THEN [last EXCEPT ![l] = item] ELSE last
    /\ size' = [size EXCEPT ![l] = @ + 1]

\* item is linked in behind before, in front of the list if that is null.
List_insert(l, before, item) ==
    LET after == IF before = Null THEN first[l] ELSE next[before] IN
    /\ next' = Set(Set(next, before, item), item, after)
    /\ prev' = Set(Set(prev, item, before), after, item)
    /\ first' = IF before = Null THEN [first EXCEPT ![l] = item] ELSE first
    /\ last' = IF after = Null THEN [last EXCEPT ![l] = item] ELSE last
    /\ size' = [size EXCEPT ![l] = @ + 1]

\* Mutant: the head keeps a pointer to the last item it loses.
List_detach_LastKept(l, item) ==
    LET before == prev[item]
        after == next[item]
    IN
    /\ next' = [Set(next, before, after) EXCEPT ![item] = Null]
    /\ prev' = [Set(prev, after, before) EXCEPT ![item] = Null]
    /\ first' = IF item = first[l] THEN [first EXCEPT ![l] = after] ELSE first
    /\ last' = last
    /\ size' = [size EXCEPT ![l] = @ - 1]

\* Mutant: the item keeps its own links.
List_detach_LinksKept(l, item) ==
    LET before == prev[item]
        after == next[item]
    IN
    /\ next' = Set(next, before, after)
    /\ prev' = Set(prev, after, before)
    /\ first' = IF item = first[l] THEN [first EXCEPT ![l] = after] ELSE first
    /\ last' = IF item = last[l] THEN [last EXCEPT ![l] = before] ELSE last
    /\ size' = [size EXCEPT ![l] = @ - 1]

\* item is linked out, and its own links are cleared.
List_detach(l, item) ==
    LET before == prev[item]
        after == next[item]
    IN
    /\ next' = [Set(next, before, after) EXCEPT ![item] = Null]
    /\ prev' = [Set(prev, after, before) EXCEPT ![item] = Null]
    /\ first' = IF item = first[l] THEN [first EXCEPT ![l] = after] ELSE first
    /\ last' = IF item = last[l] THEN [last EXCEPT ![l] = before] ELSE last
    /\ size' = [size EXCEPT ![l] = @ - 1]

-----------------------------------------------------------------------------
(* The calls                                                               *)

\* List_insert refuses an item that has a link.
Refused(item) == next[item] # Null \/ prev[item] # Null

Linked(l, before, item) ==
    /\ home[item] = Null
    /\ ~Refused(item)
    /\ List_insert(l, before, item)
    /\ home' = [home EXCEPT ![item] = l]

Insert(l, before, item) == home[before] = l /\ Linked(l, before, item)

PushBack(l, item) == Linked(l, last[l], item)

PushFront(l, item) == Linked(l, Null, item)

Detach(l, item) ==
    /\ home[item] = l
    /\ List_detach(l, item)
    /\ home' = [home EXCEPT ![item] = Null]

PopFront(l) == first[l] # Null /\ Detach(l, first[l])

-----------------------------------------------------------------------------

Init ==
    /\ first = [l \in Lists |-> Null]
    /\ last = [l \in Lists |-> Null]
    /\ size = [l \in Lists |-> 0]
    /\ prev = [x \in Items |-> Null]
    /\ next = [x \in Items |-> Null]
    /\ home = [x \in Items |-> Null]

-----------------------------------------------------------------------------
(* Properties                                                              *)

\* The two chains of a list are each other's reverse.
ChainsAgree == \A l \in Lists : Backward(l) = Reverse(Forward(l))

\* List_find meets exactly the items that are on the list, from either end.
FindsItsItems == \A l \in Lists, x \in Items : List_find(l, x) = x <=> home[x] = l

\* An item on no list has no link left, or its next insertion would be refused
\* without the caller looking at the result.
DetachedIsInsertable == \A x \in Items : home[x] = Null => ~Refused(x)

Abstract == INSTANCE ListSpec WITH content <- [l \in Lists |-> Forward(l)]

\* The links implement the sequences.
ImplementsListSpec == Abstract!Spec

=============================================================================
