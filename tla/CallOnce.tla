------------------------------ MODULE CallOnce ------------------------------
(***************************************************************************)
(* absl::call_once on one once_flag: the control word, SpinLockWait with   *)
(* its three transitions, and the futex behind SpinLockDelay and           *)
(* SpinLockWake.  LowLevelCallOnce differs in the scheduling mode only.    *)
(***************************************************************************)
CONSTANT Threads

VARIABLES
    control,   \* control_: kOnceInit, kOnceRunning, kOnceWaiter or kOnceDone
    asleep,    \* the threads in FUTEX_WAIT on control_
    old,       \* what each thread read last from control_
    pc,        \* where each thread is
    ran        \* the threads whose call of fn has returned

vars == <<control, asleep, old, pc, ran>>

Init ==
    /\ control = "Init"
    /\ asleep = {} /\ ran = {}
    /\ old = [t \in Threads |-> "Init"]
    /\ pc = [t \in Threads |-> "call"]

Goto(t, label) == pc' = [pc EXCEPT ![t] = label]

(* call_once: the load of its fast path *)
call_once(t) ==
    /\ pc[t] = "call"
    /\ Goto(t, IF control = "Done" THEN "return" ELSE "impl")
    /\ UNCHANGED <<control, asleep, old, ran>>

(* CallOnceImpl: the exchange that avoids SpinLockWait *)
CallOnceImpl(t) ==
    /\ pc[t] = "impl"
    /\ IF control = "Init"
       THEN control' = "Running" /\ Goto(t, "invoke")
       ELSE Goto(t, "load") /\ UNCHANGED control
    /\ UNCHANGED <<asleep, old, ran>>

(* SpinLockWait: v = w->load() *)
Load(t) ==
    /\ pc[t] = "load" /\ t \notin asleep
    /\ old' = [old EXCEPT ![t] = control]
    /\ Goto(t, IF control = "Waiter" THEN "delay" ELSE "transition")
    /\ UNCHANGED <<control, asleep, ran>>

(* trans: where a value leads, and whether SpinLockWait then returns it;   *)
(* the mutant returns in every case.                                       *)
to == [Init |-> "Running", Running |-> "Waiter", Done |-> "Done"]

done_Always(v) == TRUE

done(v) == v # "Running"

(* SpinLockWait: the transition from v, if it is null or control_ is still *)
(* v.  Only the thread that gets kOnceInit runs fn.                        *)
Transition(t) ==
    LET v == old[t]
    IN  /\ pc[t] = "transition"
        /\ control' = IF control = v THEN to[v] ELSE control
        /\ Goto(t, IF (to[v] # v /\ control # v) \/ ~done(v) THEN "load"
                   ELSE IF v = "Init" THEN "invoke" ELSE "return")
        /\ UNCHANGED <<asleep, old, ran>>

(* SpinLockDelay(w, kOnceWaiter): FUTEX_WAIT sleeps if control_ still has  *)
(* that value.                                                             *)
SpinLockDelay(t) ==
    /\ pc[t] = "delay"
    /\ asleep' = IF control = "Waiter" THEN asleep \cup {t} ELSE asleep
    /\ Goto(t, "load")
    /\ UNCHANGED <<control, old, ran>>

(* FUTEX_WAIT may return at any time. *)
FutexReturn(t) ==
    /\ t \in asleep
    /\ asleep' = asleep \ {t}
    /\ UNCHANGED <<control, old, pc, ran>>

(* fn(args...) *)
Invoke(t) ==
    /\ pc[t] = "invoke"
    /\ ran' = ran \cup {t}
    /\ Goto(t, "done")
    /\ UNCHANGED <<control, asleep, old>>

(* old_control = control->exchange(kOnceDone); the mutant stores           *)
(* kOnceDone without looking whether anybody waits.                        *)
Done_NoWaiters(t) ==
    /\ pc[t] = "done"
    /\ control' = "Done"
    /\ Goto(t, "return")
    /\ UNCHANGED <<asleep, old, ran>>

Done(t) ==
    /\ pc[t] = "done"
    /\ control' = "Done"
    /\ Goto(t, IF control = "Waiter" THEN "wake" ELSE "return")
    /\ UNCHANGED <<asleep, old, ran>>

(* SpinLockWake(control, true) *)
SpinLockWake(t) ==
    /\ pc[t] = "wake"
    /\ asleep' = {}
    /\ Goto(t, "return")
    /\ UNCHANGED <<control, old, ran>>

Step(t) ==
    \/ call_once(t) \/ CallOnceImpl(t) \/ Load(t) \/ Transition(t)
    \/ SpinLockDelay(t) \/ Invoke(t) \/ Done(t) \/ SpinLockWake(t)

Next == \E t \in Threads : Step(t) \/ FutexReturn(t)

Spec == Init /\ [][Next]_vars /\ \A t \in Threads : WF_vars(Step(t))

-----------------------------------------------------------------------------
(* fn runs at most once, and a call of call_once returns only after it has *)
(* run to its end.                                                         *)
RunsOnce ==
    /\ \A s, t \in ran : s = t
    /\ \A t \in Threads : pc[t] = "return" => ran # {}

(* Every call of call_once returns: a thread that sleeps until fn is done  *)
(* is woken.                                                               *)
AllReturned == \A t \in Threads : pc[t] = "return"
CallOnceReturns == <>AllReturned
=============================================================================
