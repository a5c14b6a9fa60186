----------------------------- MODULE NaiveQueue -----------------------------
(***************************************************************************)
(* The circular queue of disruptor/naive_implementation, with its Producer *)
(* on one thread and its Consumer on another.  The members are plain       *)
(* integers; each step is one access to a member the other thread uses.    *)
(* Program order is kept: the elements and the indices are integers of the *)
(* same width, which a compiler must assume to alias, and x86 keeps loads  *)
(* and stores in order.                                                    *)
(***************************************************************************)
EXTENDS Integers, Sequences

CONSTANTS
    Sizes,     \* the constructor's arguments
    MaxItems   \* bound: calls of produce

VARIABLES
    capacity_, data_, head_, tail_,   \* the members of Queue
    ppc,      \* where the producer is in add
    cpc,      \* where the consumer is in poll
    elem,     \* the element poll has read
    added,    \* elements added so far; the k-th one is k
    polled    \* history: the elements polled so far

vars == <<capacity_, data_, head_, tail_, ppc, cpc, elem, added, polled>>

(* Queue::Queue: one cell stays free, so that full and empty differ. *)
Init ==
    /\ capacity_ \in {n + 1 : n \in Sizes}
    /\ data_ = [i \in 0 .. capacity_ - 1 |-> 0]
    /\ head_ = 0
    /\ tail_ = 0
    /\ ppc = "check"
    /\ cpc = "check"
    /\ elem = 0
    /\ added = 0
    /\ polled = <<>>

(* The index after i, around the end of data_. *)
Index(i) == (i + 1) % capacity_

FullNoWrap == tail_ + 1 = head_

(* No free cell but the one that is never used. *)
Full == Index(tail_) = head_

IsEmptyOffByOne == head_ = tail_ \/ Index(head_) = tail_

(* No element. *)
IsEmpty == head_ = tail_

-----------------------------------------------------------------------------
(* Producer::produce calls add until it returns true. *)

(* add: the test for a full queue; a full queue is tried again later *)
add_check ==
    /\ ppc = "check"
    /\ added < MaxItems
    /\ ~Full
    /\ ppc' = "write"
    /\ UNCHANGED <<capacity_, data_, head_, tail_, cpc, elem, added, polled>>

(* add: data_[tail_] = elem *)
add_write ==
    /\ ppc = "write"
    /\ data_' = [data_ EXCEPT ![tail_] = added + 1]
    /\ ppc' = "advance"
    /\ UNCHANGED <<capacity_, head_, tail_, cpc, elem, added, polled>>

(* add: tail_ moves, which shows the element to the consumer *)
add_advance ==
    /\ ppc = "advance"
    /\ tail_' = Index(tail_)
    /\ added' = added + 1
    /\ ppc' = "check"
    /\ UNCHANGED <<capacity_, data_, head_, cpc, elem, polled>>

-----------------------------------------------------------------------------
(* Consumer::consume calls poll for ever. *)

(* poll: the test for an empty queue; an empty queue is tried again later *)
poll_check ==
    /\ cpc = "check"
    /\ ~IsEmpty
    /\ cpc' = "read"
    /\ UNCHANGED <<capacity_, data_, head_, tail_, ppc, elem, added, polled>>

(* poll: elem = data_[head_] *)
poll_read ==
    /\ cpc = "read"
    /\ elem' = data_[head_]
    /\ cpc' = "advance"
    /\ UNCHANGED <<capacity_, data_, head_, tail_, ppc, added, polled>>

(* poll: head_ moves, which gives the cell back to the producer *)
poll_advance ==
    /\ cpc = "advance"
    /\ head_' = Index(head_)
    /\ polled' = Append(polled, elem)
    /\ cpc' = "check"
    /\ UNCHANGED <<capacity_, data_, tail_, ppc, elem, added>>

produce == add_check \/ add_write \/ add_advance

consume == poll_check \/ poll_read \/ poll_advance

(* Retries that change nothing: everything has been produced and polled,   *)
(* or the queue has size 0, is full and empty at once, and rejects all.    *)
Waiting == IsEmpty /\ (added = MaxItems \/ Full) /\ UNCHANGED vars

Next == produce \/ consume \/ Waiting

Spec == Init /\ [][Next]_vars

(* Both threads run, and a retry follows every failed add or poll. *)
FairSpec == Spec /\ WF_vars(produce) /\ WF_vars(consume)

-----------------------------------------------------------------------------
(* The elements from head_ up to tail_, around the end of data_. *)
Content ==
    [k \in 1 .. (tail_ - head_ + capacity_) % capacity_ |->
        data_[(head_ + k - 1) % capacity_]]

(***************************************************************************)
(* The two unsynchronised threads together implement a bounded FIFO queue: *)
(* no element is lost, duplicated, overtaken or overwritten before it is   *)
(* polled.  An add takes effect when tail_ moves, a poll when head_ does.  *)
(***************************************************************************)
Fifo == INSTANCE BoundedFifo WITH size <- capacity_ - 1, content <- Content

ImplementsFifo == Fifo!Spec

(***************************************************************************)
(* Every element is added and polled in the end, for any size but 0: the   *)
(* producer's retries succeed even with a queue of size 1, which the       *)
(* comment in add() doubts.                                                *)
(***************************************************************************)
AllPolled == (capacity_ > 1) => <>(Len(polled) = MaxItems)
=============================================================================
