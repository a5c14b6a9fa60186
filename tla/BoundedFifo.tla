---------------------------- MODULE BoundedFifo ----------------------------
(***************************************************************************)
(* What Queue promises one producer and one consumer: a first-in first-out *)
(* queue that never holds more than size elements, a number fixed when the *)
(* queue is made.                                                          *)
(***************************************************************************)
EXTENDS Integers, Sequences

CONSTANT Sizes   \* the sizes a queue may be made with

VARIABLES
    size,      \* the most elements it may hold
    content,   \* the elements in the queue, oldest first
    added,     \* elements added so far; the k-th one is k
    polled     \* the elements polled so far, in order

vars == <<size, content, added, polled>>

Init ==
    /\ size \in Sizes
    /\ content = <<>>
    /\ added = 0
    /\ polled = <<>>

Add ==
    /\ Len(content) < size
    /\ content' = Append(content, added + 1)
    /\ added' = added + 1
    /\ UNCHANGED <<size, polled>>

Poll ==
    /\ content # <<>>
    /\ polled' = Append(polled, Head(content))
    /\ content' = Tail(content)
    /\ UNCHANGED <<size, added>>

Next == Add \/ Poll

Spec == Init /\ [][Next]_vars
=============================================================================
