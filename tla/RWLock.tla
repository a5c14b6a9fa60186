------------------------------- MODULE RWLock -------------------------------
(***************************************************************************)
(* What absl::Mutex promises its clients: one writer, or any number of     *)
(* readers, hold it at a time.                                             *)
(***************************************************************************)
CONSTANT Threads

VARIABLE hold   \* how each thread holds the lock

Init == hold = [t \in Threads |-> "None"]

(* Whether t could be given the lock in this mode now. *)
Compatible(t, mode) ==
    \A s \in Threads \ {t} :
        IF mode = "Exclusive" THEN hold[s] = "None" ELSE hold[s] # "Exclusive"

Acquire(t, mode) ==
    /\ hold[t] = "None" /\ mode \in {"Shared", "Exclusive"}
    /\ Compatible(t, mode)
    /\ hold' = [hold EXCEPT ![t] = mode]

Release(t) ==
    /\ hold[t] # "None"
    /\ hold' = [hold EXCEPT ![t] = "None"]

Next ==
    \E t \in Threads :
        \/ \E mode \in {"Shared", "Exclusive"} : Acquire(t, mode)
        \/ Release(t)

Spec == Init /\ [][Next]_hold
=============================================================================
