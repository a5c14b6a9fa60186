--------------------------- MODULE CallOnceProofs ---------------------------
(***************************************************************************)
(* fn runs at most once and before any call_once returns, for any set of   *)
(* threads.  The control word says who runs fn: nobody has begun while it  *)
(* is kOnceInit, one thread is inside while it is kOnceRunning or          *)
(* kOnceWaiter, and that thread has finished when it is kOnceDone.         *)
(***************************************************************************)
EXTENDS CallOnce, TLAPS

Labels == {"call", "impl", "load", "transition", "delay", "invoke", "done", "wake", "return"}

(* The control word and the copies of it have one of the four values.      *)
TypeOK ==
    /\ control \in {"Init", "Running", "Waiter", "Done"}
    /\ old \in [Threads -> {"Init", "Running", "Waiter", "Done"}]
    /\ pc \in [Threads -> Labels]

Runs(t) == pc[t] \in {"invoke", "done"}

(* One thread is between the exchange that takes kOnceInit and the one     *)
(* that stores kOnceDone.                                                  *)
RunnerInv ==
    \A t \in Threads : Runs(t) =>
        /\ control \in {"Running", "Waiter"}
        /\ \A s \in Threads : Runs(s) => s = t
        /\ ran = IF pc[t] = "done" THEN {t} ELSE {}

(* What the word says of fn, and what a thread that has left, or has read  *)
(* kOnceDone, knows of the word.                                           *)
WordInv ==
    /\ control = "Init" => ran = {}
    /\ control = "Done" => ran # {}
    /\ \A s, t \in ran : s = t
    /\ \A t \in Threads :
          /\ pc[t] \in {"wake", "return"} => control = "Done"
          /\ pc[t] = "transition" =>
                old[t] # "Waiter" /\ (old[t] = "Done" => control = "Done")

Inv == TypeOK /\ RunnerInv /\ WordInv

(* A fresh once_flag satisfies the invariant.                              *)
LEMMA InitInv == Init => Inv
BY DEF Init, Inv, TypeOK, Labels, RunnerInv, WordInv, Runs

(* A step that moves no thread into or out of fn and leaves the word alone *)
(* keeps RunnerInv.                                                        *)
LEMMA SameRunners ==
    ASSUME RunnerInv, control' = control, ran' = ran,
           \A t \in Threads : Runs(t)' => Runs(t) /\ pc'[t] = pc[t]
    PROVE  RunnerInv'
BY DEF RunnerInv

(* Every step of call_once and of SpinLockWait keeps the invariant.        *)
LEMMA NextInv == Inv /\ [Next]_vars => Inv'
<1> SUFFICES ASSUME Inv, [Next]_vars PROVE Inv'
  OBVIOUS
<1> USE DEF Inv, Goto
<1>1. ASSUME NEW t \in Threads, call_once(t) PROVE Inv'
  <2>1. TypeOK' /\ WordInv'
    BY <1>1 DEF call_once, TypeOK, Labels, WordInv
  <2>2. RunnerInv'
    BY <1>1, SameRunners DEF call_once, TypeOK, Runs
  <2> QED BY <2>1, <2>2
<1>2. ASSUME NEW t \in Threads, CallOnceImpl(t) PROVE Inv'
  <2>1. TypeOK'
    BY <1>2 DEF CallOnceImpl, TypeOK, Labels
  <2>2. WordInv'
    BY <1>2 DEF CallOnceImpl, TypeOK, WordInv
  <2>3. CASE control = "Init"
    <3>1. \A s \in Threads : ~Runs(s)
      BY <2>3 DEF RunnerInv
    <3>2. RunnerInv'
      BY <1>2, <2>3, <3>1 DEF CallOnceImpl, TypeOK, RunnerInv, Runs, WordInv
    <3> QED BY <2>1, <2>2, <3>2
  <2>4. CASE control # "Init"
    <3>1. RunnerInv'
      BY <1>2, <2>4, SameRunners DEF CallOnceImpl, TypeOK, Runs
    <3> QED BY <2>1, <2>2, <3>1
  <2> QED BY <2>3, <2>4
<1>3. ASSUME NEW t \in Threads, Load(t) PROVE Inv'
  <2>1. TypeOK' /\ WordInv'
    BY <1>3 DEF Load, TypeOK, Labels, WordInv
  <2>2. RunnerInv'
    BY <1>3, SameRunners DEF Load, TypeOK, Runs
  <2> QED BY <2>1, <2>2
<1>4. ASSUME NEW t \in Threads, Transition(t) PROVE Inv'
  <2>1. old[t] \in {"Init", "Running", "Done"}
    BY <1>4 DEF Transition, TypeOK, WordInv
  <2>2. CASE old[t] = "Init" /\ control = "Init"
    <3>1. control' = "Running" /\ pc' = [pc EXCEPT ![t] = "invoke"]
          /\ UNCHANGED <<asleep, old, ran>>
      BY <1>4, <2>2 DEF Transition, to, done
    <3>2. \A s \in Threads : ~Runs(s)
      BY <2>2 DEF RunnerInv
    <3>3. TypeOK' /\ WordInv'
      BY <2>2, <3>1 DEF TypeOK, Labels, WordInv
    <3>4. RunnerInv'
      BY <2>2, <3>1, <3>2 DEF TypeOK, RunnerInv, Runs, WordInv
    <3> QED BY <3>3, <3>4
  <2>3. CASE old[t] = "Running" /\ control = "Running"
    <3>1. control' = "Waiter" /\ pc' = [pc EXCEPT ![t] = "load"]
          /\ UNCHANGED <<asleep, old, ran>>
      BY <1>4, <2>3 DEF Transition, to, done
    <3>2. TypeOK' /\ WordInv'
      BY <2>3, <3>1 DEF TypeOK, Labels, WordInv
    <3>3. RunnerInv'
      BY <1>4, <3>1 DEF Transition, TypeOK, RunnerInv, Runs
    <3> QED BY <3>2, <3>3
  <2>4. CASE old[t] = "Done"
    <3>1. control = "Done" /\ control' = "Done" /\ pc' = [pc EXCEPT ![t] = "return"]
          /\ UNCHANGED <<asleep, old, ran>>
      BY <1>4, <2>4 DEF Transition, to, done, WordInv
    <3>2. TypeOK' /\ WordInv'
      BY <3>1 DEF TypeOK, Labels, WordInv
    <3>3. RunnerInv'
      BY <3>1, SameRunners DEF TypeOK, Runs
    <3> QED BY <3>2, <3>3
  <2>5. CASE old[t] # "Done" /\ control # old[t]
    <3> HIDE DEF Inv
    <3>0. to[old[t]] # old[t]
      BY <2>1, <2>5 DEF to
    <3>1. UNCHANGED <<control, asleep, old, ran>> /\ pc' = [pc EXCEPT ![t] = "load"]
      BY <1>4, <2>5, <3>0 DEF Transition
    <3> USE DEF Inv
    <3>2. TypeOK' /\ WordInv'
      BY <3>1 DEF TypeOK, Labels, WordInv
    <3>3. RunnerInv'
      BY <3>1, SameRunners DEF TypeOK, Runs
    <3> QED BY <3>2, <3>3
  <2> QED BY <2>1, <2>2, <2>3, <2>4, <2>5
<1>5. ASSUME NEW t \in Threads, SpinLockDelay(t) PROVE Inv'
  <2>1. TypeOK' /\ WordInv'
    BY <1>5 DEF SpinLockDelay, TypeOK, Labels, WordInv
  <2>2. RunnerInv'
    BY <1>5, SameRunners DEF SpinLockDelay, TypeOK, Runs
  <2> QED BY <2>1, <2>2
<1>6. ASSUME NEW t \in Threads, FutexReturn(t) PROVE Inv'
  BY <1>6 DEF FutexReturn, TypeOK, RunnerInv, Runs, WordInv
<1>7. ASSUME NEW t \in Threads, Invoke(t) PROVE Inv'
  <2>1. /\ control \in {"Running", "Waiter"} /\ ran = {}
        /\ \A s \in Threads : Runs(s) => s = t
    BY <1>7 DEF Invoke, RunnerInv, Runs
  <2>2. TypeOK' /\ WordInv'
    BY <1>7, <2>1 DEF Invoke, TypeOK, Labels, WordInv
  <2>3. RunnerInv'
    BY <1>7, <2>1 DEF Invoke, TypeOK, RunnerInv, Runs
  <2> QED BY <2>2, <2>3
<1>8. ASSUME NEW t \in Threads, Done(t) PROVE Inv'
  <2>1. ran = {t} /\ \A s \in Threads : Runs(s) => s = t
    BY <1>8 DEF Done, RunnerInv, Runs
  <2>2. TypeOK' /\ WordInv'
    BY <1>8, <2>1 DEF Done, TypeOK, Labels, WordInv
  <2>3. RunnerInv'
    BY <1>8, <2>1 DEF Done, TypeOK, RunnerInv, Runs
  <2> QED BY <2>2, <2>3
<1>9. ASSUME NEW t \in Threads, SpinLockWake(t) PROVE Inv'
  <2>1. TypeOK' /\ WordInv'
    BY <1>9 DEF SpinLockWake, TypeOK, Labels, WordInv
  <2>2. RunnerInv'
    BY <1>9, SameRunners DEF SpinLockWake, TypeOK, Runs
  <2> QED BY <2>1, <2>2
<1>10. CASE UNCHANGED vars
  BY <1>10 DEF vars, TypeOK, RunnerInv, Runs, WordInv
<1> QED
  BY <1>1, <1>2, <1>3, <1>4, <1>5, <1>6, <1>7, <1>8, <1>9, <1>10 DEF Next, Step

(* At most one thread runs fn, and a call_once that has returned finds it  *)
(* run to its end, in every interleaving of any number of callers.         *)
THEOREM OnlyOnce == Spec => []RunsOnce
<1>1. Inv => RunsOnce
  BY DEF Inv, WordInv, RunsOnce
<1> QED BY <1>1, InitInv, NextInv, PTL DEF Spec
=============================================================================
