---------------------------- MODULE MessageChannel ----------------------------
(***************************************************************************)
(* What a message queue of disastrOS promises its users, without the       *)
(* kernel and the ring buffer under it: a bounded first-in first-out       *)
(* channel, with a queue of senders and one of receivers.                  *)
(*                                                                         *)
(* The channel is lossy by design of its code: a sender that finds the     *)
(* channel full waits, and leaves when a receiver has made room, but its   *)
(* message is not among those the channel ever holds (Block takes none).   *)
(***************************************************************************)
EXTENDS Integers, Sequences

CONSTANTS Rids, Users, Messages, Capacities, Nothing

VARIABLES
    open,       \* the channels that exist
    capacity,   \* capacity[r]
    content,    \* content[r]: the messages inside, oldest first
    senders,    \* senders[r]: who waits to send, in order of arrival
    receivers,  \* receivers[r]: who waits to receive, in order of arrival
    inbox       \* inbox[u]: the last message u received

vars == <<open, capacity, content, senders, receivers, inbox>>

Init ==
    /\ open = {}
    /\ capacity = [r \in Rids |-> 0]
    /\ content = [r \in Rids |-> <<>>]
    /\ senders = [r \in Rids |-> <<>>]
    /\ receivers = [r \in Rids |-> <<>>]
    /\ inbox = [u \in Users |-> Nothing]

Open(r, c) ==
    /\ r \notin open
    /\ open' = open \cup {r}
    /\ capacity' = [capacity EXCEPT ![r] = c]
    /\ UNCHANGED <<content, senders, receivers, inbox>>

\* A message goes straight to the receiver that waits longest.
Deliver(r, m) ==
    /\ r \in open /\ receivers[r] # <<>>
    /\ inbox' = [inbox EXCEPT ![Head(receivers[r])] = m]
    /\ receivers' = [receivers EXCEPT ![r] = Tail(@)]
    /\ UNCHANGED <<open, capacity, content, senders>>

Put(r, m) ==
    /\ r \in open /\ receivers[r] = <<>>
    /\ Len(content[r]) < capacity[r]
    /\ content' = [content EXCEPT ![r] = Append(@, m)]
    /\ UNCHANGED <<open, capacity, senders, receivers, inbox>>

Block(r, u) ==
    /\ r \in open /\ receivers[r] = <<>>
    /\ Len(content[r]) >= capacity[r]
    /\ senders' = [senders EXCEPT ![r] = Append(@, u)]
    /\ UNCHANGED <<open, capacity, content, receivers, inbox>>

\* The oldest message is taken, and the sender that waits longest may go.
Take(r, u) ==
    /\ r \in open /\ content[r] # <<>>
    /\ inbox' = [inbox EXCEPT ![u] = Head(content[r])]
    /\ content' = [content EXCEPT ![r] = Tail(@)]
    /\ senders' = [senders EXCEPT ![r] = IF @ = <<>> THEN @ ELSE Tail(@)]
    /\ UNCHANGED <<open, capacity, receivers>>

Await(r, u) ==
    /\ r \in open /\ content[r] = <<>>
    /\ receivers' = [receivers EXCEPT ![r] = Append(@, u)]
    /\ UNCHANGED <<open, capacity, content, senders, inbox>>

Close(r) ==
    /\ r \in open
    /\ open' = open \ {r}
    /\ capacity' = [capacity EXCEPT ![r] = 0]
    /\ content' = [content EXCEPT ![r] = <<>>]
    /\ senders' = [senders EXCEPT ![r] = <<>>]
    /\ receivers' = [receivers EXCEPT ![r] = <<>>]
    /\ UNCHANGED inbox

Next == \E r \in Rids :
    \/ \E c \in Capacities : Open(r, c)
    \/ \E m \in Messages : Deliver(r, m) \/ Put(r, m)
    \/ \E u \in Users : Block(r, u) \/ Take(r, u) \/ Await(r, u)
    \/ Close(r)

Spec == Init /\ [][Next]_vars

=============================================================================
