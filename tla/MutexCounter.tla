---------------------------- MODULE MutexCounter ----------------------------
(***************************************************************************)
(* MutexTest and SharedMutexTest: lock, counter++, unlock, with a mutex of *)
(* the C++ library (std::shared_mutex is only ever locked exclusively).    *)
(* counter is a plain int, so counter++ is a load and a store.             *)
(***************************************************************************)
EXTENDS BenchmarkFixture

VARIABLES
    owner,   \* the thread that holds the mutex
    pc,      \* where each thread is in the loop body
    reg      \* the register counter++ works in

vars == <<fixtureVars, owner, pc, reg>>

Init ==
    /\ FixtureInit
    /\ owner = NoThread
    /\ pc = [t \in Threads |-> "outside"]
    /\ reg = [t \in Threads |-> 0]

(* lock.lock() *)
lock(t) ==
    /\ stage[t] = "loop" /\ pc[t] = "outside"
    /\ owner = NoThread
    /\ owner' = t
    /\ pc' = [pc EXCEPT ![t] = "load"]
    /\ UNCHANGED <<fixtureVars, reg>>

(* counter++ *)
load(t) ==
    /\ pc[t] = "load"
    /\ reg' = [reg EXCEPT ![t] = counter]
    /\ pc' = [pc EXCEPT ![t] = "store"]
    /\ UNCHANGED <<fixtureVars, owner>>

store(t) ==
    /\ pc[t] = "store"
    /\ counter' = reg[t] + 1
    /\ pc' = [pc EXCEPT ![t] = "unlock"]
    /\ UNCHANGED <<stage, left, iterations, runs, owner, reg>>

(* lock.unlock(), and the end of the iteration *)
unlock(t) ==
    /\ pc[t] = "unlock"
    /\ owner' = NoThread
    /\ pc' = [pc EXCEPT ![t] = "outside"]
    /\ EndIteration(t)
    /\ UNCHANGED <<counter, reg>>

Body(t) == lock(t) \/ load(t) \/ store(t) \/ unlock(t)

Next ==
    \/ Harness /\ UNCHANGED <<owner, pc, reg>>
    \/ \E t \in Threads : Body(t)
    \/ Finished /\ UNCHANGED vars

Spec == Init /\ [][Next]_vars

-----------------------------------------------------------------------------
Critical == {"load", "store", "unlock"}

(* Every variable keeps its type. *)
TypeOK ==
    /\ FixtureTypeOK
    /\ owner \in Threads \cup {NoThread}
    /\ pc \in [Threads -> {"outside"} \cup Critical]
    /\ reg \in [Threads -> Int]

(***************************************************************************)
(* The inductive invariant: the owner, and nobody else, is in the critical *)
(* section, inside the loop; what it has loaded is still the counter.      *)
(***************************************************************************)
OwnerInv ==
    /\ BarrierInv
    /\ \A t \in Threads : pc[t] \in Critical <=> owner = t
    /\ \A t \in Threads : pc[t] \in Critical => stage[t] = "loop"
    /\ \A t \in Threads : pc[t] = "store" => reg[t] = counter

(***************************************************************************)
(* The locked benchmarks implement the lock-free one: the store of         *)
(* counter++ is the atomic increment, and ends the iteration; locking,     *)
(* loading and unlocking are invisible.                                    *)
(***************************************************************************)
Stored(t) == pc[t] = "unlock"

Atomic == INSTANCE LockFreeCounter WITH
    left <- [t \in Threads |-> IF Stored(t) THEN left[t] - 1 ELSE left[t]],
    stage <- [t \in Threads |->
                IF Stored(t) /\ left[t] = 1 THEN "done" ELSE stage[t]]

ImplementsLockFree == Atomic!Spec
=============================================================================
