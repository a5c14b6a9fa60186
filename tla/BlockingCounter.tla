-------------------------- MODULE BlockingCounter ---------------------------
(***************************************************************************)
(* absl::BlockingCounter: each worker calls DecrementCount once, and the   *)
(* thread in Wait deletes the counter when it returns.                     *)
(***************************************************************************)
EXTENDS Integers, FiniteSets

CONSTANTS Workers, Waiter

VARIABLES count_, done_, hold, pc

vars == <<count_, done_, hold, pc>>

Threads == Workers \cup {Waiter}

lock_ == INSTANCE RWLock

Init ==
    /\ count_ = Cardinality(Workers)
    /\ done_ = (Workers = {})
    /\ lock_!Init
    /\ pc = [t \in Threads |-> "call"]

Goto(t, label) == pc' = [pc EXCEPT ![t] = label]

(* DecrementCount: the decrement, outside the lock *)
DecrementCount(t) ==
    /\ t \in Workers /\ pc[t] = "call"
    /\ count_' = count_ - 1
    /\ Goto(t, IF count_' = 0 THEN "zero" ELSE "returned")
    /\ UNCHANGED <<done_, hold>>

SetDone(t) ==
    /\ pc[t] = "zero"
    /\ lock_!Acquire(t, "Exclusive")
    /\ done_' = TRUE
    /\ Goto(t, "unlock")
    /\ UNCHANGED count_

Unlock(t) ==
    /\ pc[t] = "unlock"
    /\ lock_!Release(t)
    /\ Goto(t, "returned")
    /\ UNCHANGED <<count_, done_>>

(* What Wait waits for; the mutant looks at count_. *)
IsDone_Count == count_ = 0

IsDone == done_

(* Wait: MutexLock, and Await, which gives up the lock while the condition *)
(* is false.                                                               *)
Wait(t) ==
    /\ t = Waiter
    /\ \/ pc[t] = "call" /\ lock_!Acquire(t, "Exclusive") /\ Goto(t, "await")
       \/ pc[t] = "await" /\ ~IsDone /\ lock_!Release(t) /\ Goto(t, "waiting")
       \/ pc[t] = "waiting" /\ IsDone /\ lock_!Acquire(t, "Exclusive") /\ Goto(t, "unlock")
       \/ pc[t] = "await" /\ IsDone /\ Goto(t, "unlock") /\ UNCHANGED hold
    /\ UNCHANGED <<count_, done_>>

Step(t) == DecrementCount(t) \/ SetDone(t) \/ Unlock(t) \/ Wait(t)

Next == \E t \in Threads : Step(t)

Spec == Init /\ [][Next]_vars /\ \A t \in Threads : WF_vars(Step(t))

-----------------------------------------------------------------------------
(* When Wait returns, every DecrementCount has been called and none will   *)
(* touch the counter again, so that it can be deleted.                     *)
CounterSafe == pc[Waiter] = "returned" => \A t \in Workers : pc[t] = "returned"

(* Wait returns. *)
AllReturned == pc[Waiter] = "returned"
CounterReturns == <>AllReturned
=============================================================================
