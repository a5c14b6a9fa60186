---------------------------- MODULE AbslSpinLock ----------------------------
(***************************************************************************)
(* absl::base_internal::SpinLock: the lock word, SlowLock's loop and the   *)
(* futex it sleeps on.  SchedulingGuard::DisableRescheduling is a stub     *)
(* that returns false, so kSpinLockDisabledScheduling is never set, and    *)
(* kSpinLockCooperative never changes: the word is kSpinLockHeld and the   *)
(* wait time, of which only 0, kSpinLockSleeper and more are told apart.   *)
(***************************************************************************)
EXTENDS Naturals, Sequences

CONSTANTS
    Threads,
    Programs    \* the calls each thread makes: "Lock" or "TryLock"

VARIABLES
    lockword_,
    asleep,       \* the threads in FUTEX_WAIT on lockword_
    lock_value,   \* what each thread knows of lockword_
    wait_cycles,  \* the wait time it has encoded
    pc,           \* where each thread is
    calls,        \* the calls it has still to make
    hold          \* how it holds the lock

vars == <<lockword_, asleep, lock_value, wait_cycles, pc, calls, hold>>

Word(held, wait) == [held |-> held, wait |-> wait]

Init ==
    /\ lockword_ = Word(FALSE, 0) /\ asleep = {}
    /\ lock_value = [t \in Threads |-> Word(FALSE, 0)]
    /\ wait_cycles = [t \in Threads |-> 0]
    /\ pc = [t \in Threads |-> "call"]
    /\ calls \in Programs
    /\ hold = [t \in Threads |-> "None"]

kSpinLockSleeper == 1

Goto(t, label) == pc' = [pc EXCEPT ![t] = label]

(* The load before a TryLockInternal: the one of TryLockImpl or the last   *)
(* of SpinLoop.  EncodeWaitCycles gives kSpinLockSleeper or more.          *)
Load(t, cycles) ==
    /\ lock_value' = [lock_value EXCEPT ![t] = lockword_]
    /\ wait_cycles' = [wait_cycles EXCEPT ![t] = cycles]

Lock(t) ==
    /\ pc[t] = "call" /\ calls[t] # <<>>
    /\ Load(t, 0)
    /\ Goto(t, "fast")
    /\ UNCHANGED <<lockword_, asleep, calls, hold>>

(* What TryLockInternal returns: a value without kSpinLockHeld, if it      *)
(* succeeds; the mutant never puts the wait time in the word.              *)
Returned(t) ==
    IF lock_value[t].held \/ lockword_ = lock_value[t] THEN lock_value[t]
    ELSE lockword_

Acquired_DropWait(t) == Word(TRUE, lock_value[t].wait)

Acquired(t) == Word(TRUE, IF wait_cycles[t] = 0 THEN lock_value[t].wait
                          ELSE wait_cycles[t])

(* TryLockInternal, from where it is called to where it leads if it fails. *)
TryLockInternal(t, from, failed) ==
    /\ pc[t] = from
    /\ lockword_' = IF ~lock_value[t].held /\ lockword_ = lock_value[t]
                    THEN Acquired(t) ELSE lockword_
    /\ lock_value' = [lock_value EXCEPT ![t] = Returned(t)]
    /\ IF Returned(t).held
       THEN Goto(t, failed) /\ UNCHANGED hold
       ELSE Goto(t, "unlock") /\ hold' = [hold EXCEPT ![t] = "Exclusive"]
    /\ UNCHANGED <<asleep, wait_cycles>>

TryLockImpl(t) ==
    /\ TryLockInternal(t, "fast", IF Head(calls[t]) = "Lock" THEN "spin" ELSE "call")
    /\ calls' = IF pc'[t] = "call" THEN [calls EXCEPT ![t] = Tail(@)] ELSE calls

(* SlowLock: SpinLoop, then TryLockInternal(lock_value, 0) *)
SpinLoop(t) ==
    /\ pc[t] = "spin"
    /\ Load(t, 0)
    /\ Goto(t, "try")
    /\ UNCHANGED <<lockword_, asleep, calls, hold>>

(* TryLockInternal(lock_value, 0) of SlowLock, or the one in its loop *)
SlowTryLock(t) == TryLockInternal(t, "try", "loop") /\ UNCHANGED calls

(* The loop of SlowLock: the word is marked before the thread sleeps.      *)
MarkSleeper(t) ==
    LET v == lock_value[t]
        marked == [v EXCEPT !.wait = kSpinLockSleeper]
    IN  /\ pc[t] = "loop"
        /\ CASE v.wait # 0 ->
                  Goto(t, "delay") /\ UNCHANGED <<lockword_, lock_value>>
             [] v.wait = 0 /\ lockword_ = v ->
                  /\ lockword_' = marked
                  /\ lock_value' = [lock_value EXCEPT ![t] = marked]
                  /\ Goto(t, "delay")
             [] OTHER ->
                  /\ lock_value' = [lock_value EXCEPT ![t] = lockword_]
                  /\ Goto(t, IF ~lockword_.held THEN "try"
                             ELSE IF lockword_.wait = 0 THEN "loop" ELSE "delay")
                  /\ UNCHANGED lockword_
        /\ UNCHANGED <<asleep, wait_cycles, calls, hold>>

(* SpinLockDelay: FUTEX_WAIT sleeps if the word still has the value. *)
SpinLockDelay(t) ==
    /\ pc[t] = "delay"
    /\ asleep' = IF lockword_ = lock_value[t] THEN asleep \cup {t} ELSE asleep
    /\ Goto(t, "delayed")
    /\ UNCHANGED <<lockword_, lock_value, wait_cycles, calls, hold>>

(* FUTEX_WAIT may return at any time. *)
FutexReturn(t) ==
    /\ t \in asleep
    /\ asleep' = asleep \ {t}
    /\ UNCHANGED <<lockword_, lock_value, wait_cycles, pc, calls, hold>>

(* SpinLoop after the delay, and EncodeWaitCycles *)
SpinAgain(t) ==
    /\ pc[t] = "delayed" /\ t \notin asleep
    /\ \E cycles \in {kSpinLockSleeper, 2} : Load(t, cycles)
    /\ Goto(t, "try")
    /\ UNCHANGED <<lockword_, asleep, calls, hold>>

(* Unlock, whose load contributes kSpinLockCooperative only; the mutant    *)
(* keeps the wait time in the word.                                        *)
Unlock_KeepWait(t) ==
    /\ pc[t] = "unlock"
    /\ lockword_' = Word(FALSE, lockword_.wait)
    /\ hold' = [hold EXCEPT ![t] = "None"]
    /\ calls' = [calls EXCEPT ![t] = Tail(@)]
    /\ Goto(t, IF lockword_.wait # 0 THEN "wake" ELSE "call")
    /\ UNCHANGED <<asleep, lock_value, wait_cycles>>

Unlock(t) ==
    /\ pc[t] = "unlock"
    /\ lockword_' = Word(FALSE, 0)
    /\ hold' = [hold EXCEPT ![t] = "None"]
    /\ calls' = [calls EXCEPT ![t] = Tail(@)]
    /\ Goto(t, IF lockword_.wait # 0 THEN "wake" ELSE "call")
    /\ UNCHANGED <<asleep, lock_value, wait_cycles>>

(* SlowUnlock: SpinLockWake(&lockword_, false) wakes one thread. *)
SlowUnlock(t) ==
    /\ pc[t] = "wake"
    /\ IF asleep = {} THEN UNCHANGED asleep
       ELSE \E s \in asleep : asleep' = asleep \ {s}
    /\ Goto(t, "call")
    /\ UNCHANGED <<lockword_, lock_value, wait_cycles, calls, hold>>

Step(t) ==
    \/ Lock(t) \/ TryLockImpl(t) \/ SpinLoop(t) \/ SlowTryLock(t)
    \/ MarkSleeper(t) \/ SpinLockDelay(t) \/ SpinAgain(t)
    \/ Unlock(t) \/ SlowUnlock(t)

Next == \E t \in Threads : Step(t) \/ FutexReturn(t)

Spec == Init /\ [][Next]_vars /\ \A t \in Threads : WF_vars(Step(t))

-----------------------------------------------------------------------------
(* One thread at a time holds the lock, although TryLockInternal reports   *)
(* success by the value it returns and not by the result of its exchange:  *)
(* that is sound because a word that is not held has one value only (the   *)
(* invariant the header states).                                           *)
L == INSTANCE RWLock
SpinLockExcludes == L!Spec

(* A thread asleep in the futex has not been forgotten: the holder will    *)
(* wake one, or a thread that has slept is about to try again, and will    *)
(* put its wait time in the word.                                          *)
OnItsWay(t) ==
    \/ pc[t] = "wake"
    \/ pc[t] \in {"delayed", "try", "loop", "delay"} /\ t \notin asleep
SleeperRemembered ==
    asleep # {} =>
        (lockword_.held /\ lockword_.wait # 0) \/ \E t \in Threads : OnItsWay(t)

(* Every Lock and TryLock returns, in a program that unlocks. *)
AllReturned == \A t \in Threads : calls[t] = <<>> /\ pc[t] = "call"
SpinLockReturns == <>AllReturned
=============================================================================
