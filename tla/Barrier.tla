------------------------------ MODULE Barrier -------------------------------
(***************************************************************************)
(* absl::Barrier: each of its threads calls Block once, and the one for    *)
(* which it returns true deletes the barrier.                              *)
(***************************************************************************)
EXTENDS Naturals, FiniteSets

CONSTANT Threads

VARIABLES num_to_block_, num_to_exit_, hold, pc, deleted

vars == <<num_to_block_, num_to_exit_, hold, pc, deleted>>

lock_ == INSTANCE RWLock

Init ==
    /\ num_to_block_ = Cardinality(Threads) /\ num_to_exit_ = Cardinality(Threads)
    /\ lock_!Init
    /\ pc = [t \in Threads |-> "call"]
    /\ deleted = FALSE

Goto(t, label) == pc' = [pc EXCEPT ![t] = label]

(* Block: MutexLock, and the decrement *)
Block(t) ==
    /\ pc[t] = "call"
    /\ lock_!Acquire(t, "Exclusive")
    /\ num_to_block_' = num_to_block_ - 1
    /\ Goto(t, "await")
    /\ UNCHANGED <<num_to_exit_, deleted>>

(* lock_.Await(IsZero): with the condition false the lock is given up, and *)
(* it is had again once the condition is true.                             *)
Await(t) ==
    /\ pc[t] = "await" /\ num_to_block_ # 0
    /\ lock_!Release(t)
    /\ Goto(t, "blocked")
    /\ UNCHANGED <<num_to_block_, num_to_exit_, deleted>>

Awaited(t) ==
    /\ \/ pc[t] = "await" /\ num_to_block_ = 0 /\ UNCHANGED hold
       \/ pc[t] = "blocked" /\ num_to_block_ = 0 /\ lock_!Acquire(t, "Exclusive")
    /\ Goto(t, "exit")
    /\ UNCHANGED <<num_to_block_, num_to_exit_, deleted>>

Exit(t) ==
    /\ pc[t] = "exit"
    /\ num_to_exit_' = num_to_exit_ - 1
    /\ Goto(t, IF num_to_exit_' = 0 THEN "last" ELSE "unlock")
    /\ UNCHANGED <<num_to_block_, hold, deleted>>

Unlock(t) ==
    /\ pc[t] \in {"unlock", "last"}
    /\ lock_!Release(t)
    /\ Goto(t, IF pc[t] = "last" THEN "true" ELSE "false")
    /\ UNCHANGED <<num_to_block_, num_to_exit_, deleted>>

(* if (barrier->Block()) delete barrier; *)
Delete(t) ==
    /\ pc[t] = "true" /\ ~deleted
    /\ deleted' = TRUE
    /\ UNCHANGED <<num_to_block_, num_to_exit_, hold, pc>>

Step(t) == Block(t) \/ Await(t) \/ Awaited(t) \/ Exit(t) \/ Unlock(t) \/ Delete(t)

Next == \E t \in Threads : Step(t)

Spec == Init /\ [][Next]_vars /\ \A t \in Threads : WF_vars(Step(t))

-----------------------------------------------------------------------------
(* Nobody leaves Block before all have called it, and nobody is inside it  *)
(* when the thread for which it returned true deletes the barrier.         *)
BarrierSafe ==
    /\ \A t \in Threads : pc[t] \in {"true", "false"} => \A s \in Threads : pc[s] # "call"
    /\ deleted => \A t \in Threads : pc[t] \in {"true", "false"}

(* Every Block returns, and the barrier is deleted. *)
AllReturned == deleted
BarrierOpens == <>AllReturned
=============================================================================
