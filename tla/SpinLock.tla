------------------------------ MODULE SpinLock ------------------------------
(***************************************************************************)
(* SpinLock and SpinLockTest: a test-and-test-and-set lock on one atomic   *)
(* bool, around counter++.  A thread takes the lock with lock(), as the    *)
(* benchmark does, or in a  while (!try_lock())  loop, as the comment on   *)
(* try_lock expects.                                                       *)
(***************************************************************************)
EXTENDS BenchmarkFixture

VARIABLES
    lock_,   \* SpinLock::lock_
    pc,      \* where each thread is in the loop body
    reg      \* the register counter++ works in

vars == <<fixtureVars, lock_, pc, reg>>

Init ==
    /\ FixtureInit
    /\ lock_ = FALSE
    /\ pc = [t \in Threads |-> "outside"]
    /\ reg = [t \in Threads |-> 0]

GoTo(t, label) ==
    /\ pc' = [pc EXCEPT ![t] = label]
    /\ UNCHANGED <<fixtureVars, reg>>

(* lock(): the load of the fast path *)
lock_load(t) ==
    /\ stage[t] = "loop" /\ pc[t] = "outside"
    /\ GoTo(t, IF lock_ THEN "spin" ELSE "fast_exchange")
    /\ UNCHANGED lock_

(* lock_.exchange(true): the caller has the lock if it read false. *)
exchange(t, failed) ==
    /\ lock_' = TRUE
    /\ GoTo(t, IF lock_ THEN failed ELSE "load")

(* lock(): the exchange of the fast path *)
lock_exchange(t) ==
    /\ pc[t] = "fast_exchange"
    /\ exchange(t, "spin")

(* lock(): the inner loop, which ends when the lock looks free *)
spin_load(t) ==
    /\ pc[t] = "spin"
    /\ ~lock_
    /\ GoTo(t, "spin_exchange")
    /\ UNCHANGED lock_

spin_exchange_Blind(t) ==
    /\ pc[t] = "spin_exchange"
    /\ lock_' = TRUE
    /\ GoTo(t, "load")

(* lock(): the exchange of the outer loop *)
spin_exchange(t) ==
    /\ pc[t] = "spin_exchange"
    /\ exchange(t, "spin")

(* try_lock(): its load; true means failure, and the caller tries again *)
try_lock_load(t) ==
    /\ stage[t] = "loop" /\ pc[t] = "outside"
    /\ ~lock_
    /\ GoTo(t, "try_exchange")
    /\ UNCHANGED lock_

(* try_lock(): its exchange *)
try_lock_exchange(t) ==
    /\ pc[t] = "try_exchange"
    /\ exchange(t, "outside")

(* counter++ *)
load(t) ==
    /\ pc[t] = "load"
    /\ reg' = [reg EXCEPT ![t] = counter]
    /\ pc' = [pc EXCEPT ![t] = "store"]
    /\ UNCHANGED <<fixtureVars, lock_>>

store(t) ==
    /\ pc[t] = "store"
    /\ counter' = reg[t] + 1
    /\ pc' = [pc EXCEPT ![t] = "unlock"]
    /\ UNCHANGED <<stage, left, iterations, runs, lock_, reg>>

unlock_Forgotten(t) ==
    /\ pc[t] = "unlock"
    /\ pc' = [pc EXCEPT ![t] = "outside"]
    /\ EndIteration(t)
    /\ UNCHANGED <<counter, lock_, reg>>

(* unlock(), and the end of the iteration *)
unlock(t) ==
    /\ pc[t] = "unlock"
    /\ lock_' = FALSE
    /\ pc' = [pc EXCEPT ![t] = "outside"]
    /\ EndIteration(t)
    /\ UNCHANGED <<counter, reg>>

Acquire(t) ==
    \/ lock_load(t) \/ lock_exchange(t) \/ spin_load(t) \/ spin_exchange(t)
    \/ try_lock_load(t) \/ try_lock_exchange(t)

Body(t) == Acquire(t) \/ load(t) \/ store(t) \/ unlock(t)

Next ==
    \/ Harness /\ UNCHANGED <<lock_, pc, reg>>
    \/ \E t \in Threads : Body(t)
    \/ Finished /\ UNCHANGED vars

Spec == Init /\ [][Next]_vars

(* The operating system runs every thread; nothing else is assumed.  In    *)
(* particular no thread is promised the lock however often it tries.       *)
FairSpec == Spec /\ \A t \in Threads : WF_vars(Body(t))

-----------------------------------------------------------------------------
Critical == {"load", "store", "unlock"}

Acquiring == {"fast_exchange", "spin", "spin_exchange", "try_exchange"}

(* Every variable keeps its type. *)
TypeOK ==
    /\ FixtureTypeOK
    /\ lock_ \in BOOLEAN
    /\ pc \in [Threads -> {"outside"} \cup Acquiring \cup Critical]
    /\ reg \in [Threads -> Int]

(***************************************************************************)
(* Two threads are never between lock() or try_lock() and unlock() at      *)
(* once, although the loads that precede each exchange may be stale by the *)
(* time it executes.                                                       *)
(***************************************************************************)
MutualExclusion ==
    \A t, u \in Threads : pc[t] \in Critical /\ pc[u] \in Critical => t = u

(***************************************************************************)
(* The inductive invariant: lock_ is true exactly while some thread is in  *)
(* the critical section (an exchange that fails leaves it true), that      *)
(* thread is the only one, and what it has loaded is still the counter.    *)
(***************************************************************************)
LockInv ==
    /\ BarrierInv
    /\ MutualExclusion
    /\ lock_ <=> \E t \in Threads : pc[t] \in Critical
    /\ \A t \in Threads : pc[t] # "outside" => stage[t] = "loop"
    /\ \A t \in Threads : pc[t] = "store" => reg[t] = counter

(***************************************************************************)
(* The spin lock implements a mutex: its successful exchange is the        *)
(* acquisition, and every failed load or exchange is invisible.            *)
(***************************************************************************)
Owner == IF \E t \in Threads : pc[t] \in Critical
         THEN CHOOSE t \in Threads : pc[t] \in Critical ELSE NoThread

Mutex == INSTANCE MutexCounter WITH
    owner <- Owner,
    pc <- [t \in Threads |-> IF pc[t] \in Critical THEN pc[t] ELSE "outside"]

ImplementsMutex == Mutex!Spec

(***************************************************************************)
(* The benchmark with the spin lock counts like the one with the atomic    *)
(* counter: every iteration is one indivisible increment, so none is lost. *)
(***************************************************************************)
ImplementsLockFree == Mutex!ImplementsLockFree
=============================================================================
