---------------------------- MODULE MessageQueue ----------------------------
(***************************************************************************)
(* What msvdx.h says of msvdx_send ("Put one message ... on the host-to-MTX *)
(* ring") and what wait_for_fence relies on: a first-in first-out queue    *)
(* between the host and the MTX that loses, repeats and reorders nothing.  *)
(***************************************************************************)
EXTENDS Naturals, Sequences

CONSTANT Message

VARIABLES
    queue,       \* sent and not yet taken, oldest first
    taken        \* the last message the MTX took

QueueInit == queue = << >> /\ taken \notin Message

Enqueue(m) ==
    /\ queue' = Append(queue, m)
    /\ taken' = taken

Dequeue ==
    /\ queue # << >>
    /\ taken' = Head(queue)
    /\ queue' = Tail(queue)

QueueNext ==
    \/ \E m \in Message : Enqueue(m)
    \/ Dequeue

QueueSpec == QueueInit /\ [][QueueNext]_<<queue, taken>>

=============================================================================
