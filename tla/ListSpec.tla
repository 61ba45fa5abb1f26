------------------------------ MODULE ListSpec ------------------------------
(***************************************************************************)
(* What linked_list.c promises: lists are sequences over common items, an  *)
(* item is on one list at most, and a list knows its length.               *)
(***************************************************************************)
EXTENDS Sequences, SequencesExt

CONSTANTS Lists, Items

VARIABLES
    content,    \* content[l]: the items of l, in order
    size        \* size[l]: what the list says its length is

vars == <<content, size>>

Init ==
    /\ content = [l \in Lists |-> <<>>]
    /\ size = [l \in Lists |-> 0]

OnNoList(x) == \A l \in Lists : x \notin ToSet(content[l])

\* x becomes the i-th item of l.
Insert(l, i, x) ==
    /\ OnNoList(x)
    /\ content' = [content EXCEPT ![l] = InsertAt(@, i, x)]
    /\ size' = [size EXCEPT ![l] = @ + 1]

Detach(l, i) ==
    /\ content' = [content EXCEPT ![l] = RemoveAt(@, i)]
    /\ size' = [size EXCEPT ![l] = @ - 1]

Next == \E l \in Lists :
    \/ \E i \in 1 .. Len(content[l]) + 1, x \in Items : Insert(l, i, x)
    \/ \E i \in 1 .. Len(content[l]) : Detach(l, i)

Spec == Init /\ [][Next]_vars

=============================================================================
