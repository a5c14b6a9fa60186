------------------------- MODULE AbslSpinLockProofs -------------------------
(***************************************************************************)
(* absl::base_internal::SpinLock excludes and forgets no sleeper, for any  *)
(* set of threads and any programs.  Both rest on what the header says of  *)
(* the lock word: without kSpinLockHeld it carries no wait time.           *)
(***************************************************************************)
EXTENDS AbslSpinLock, TLAPS

Words == [held : BOOLEAN, wait : Nat]
Labels == {"call", "fast", "spin", "try", "loop", "delay", "delayed", "unlock", "wake"}

(* Every variable the proofs speak of keeps its type.                      *)
TypeOK ==
    /\ lockword_ \in Words /\ asleep \in SUBSET Threads
    /\ lock_value \in [Threads -> Words]
    /\ wait_cycles \in [Threads -> Nat]
    /\ pc \in [Threads -> Labels]
    /\ hold \in [Threads -> {"None", "Exclusive"}]

Clean(w) == w.held \/ w.wait = 0

(* The header's invariant, of the word and of every copy of it; a thread   *)
(* reaches the loop of SlowLock with a held word, and the futex with a     *)
(* marked one.                                                             *)
WordInv ==
    /\ Clean(lockword_)
    /\ \A t \in Threads :
          /\ Clean(lock_value[t])
          /\ pc[t] \in {"loop", "delay"} => lock_value[t].held
          /\ pc[t] = "delay" => lock_value[t].wait # 0

(* The thread that holds the lock is the one that will call Unlock.        *)
HoldInv ==
    \A t \in Threads :
        /\ hold[t] = "Exclusive" <=> pc[t] = "unlock"
        /\ pc[t] = "unlock" =>
              lockword_.held /\ \A s \in Threads : pc[s] = "unlock" => s = t

(* A thread that will wake a sleeper, or has slept itself and has not      *)
(* finished with SlowLock: it will put its wait time in the word.          *)
Coming(t) ==
    \/ pc[t] = "wake"
    \/ pc[t] = "delayed" /\ t \notin asleep
    \/ pc[t] \in {"try", "loop", "delay"} /\ wait_cycles[t] # 0

SleepInv ==
    /\ \A t \in asleep : pc[t] = "delayed"
    /\ asleep # {} =>
          (lockword_.held /\ lockword_.wait # 0) \/ \E t \in Threads : Coming(t)

Inv == TypeOK /\ WordInv /\ HoldInv /\ SleepInv

(* The constructor's state satisfies the invariant.                        *)
LEMMA InitInv == Init => Inv
<1> SUFFICES ASSUME Init PROVE Inv
  OBVIOUS
<1>1. Word(FALSE, 0) \in Words /\ Clean(Word(FALSE, 0))
  BY DEF Word, Words, Clean
<1>2. TypeOK
  BY <1>1 DEF Init, TypeOK, Labels
<1>3. WordInv /\ HoldInv /\ SleepInv
  BY <1>1 DEF Init, WordInv, HoldInv, SleepInv
<1> QED BY <1>2, <1>3 DEF Inv

(* The two outcomes of TryLockInternal: what it returns tells whether its  *)
(* exchange took the lock, because a word that is not held is the one it   *)
(* was compared with.                                                      *)
Took(t) ==
    /\ ~lockword_.held /\ lockword_' = Acquired(t)
    /\ lock_value' = [lock_value EXCEPT ![t] = lockword_]
    /\ pc' = [pc EXCEPT ![t] = "unlock"]
    /\ hold' = [hold EXCEPT ![t] = "Exclusive"]

Failed(t, label) ==
    /\ lockword_' = lockword_
    /\ \E w \in Words : w.held /\ lock_value' = [lock_value EXCEPT ![t] = w]
    /\ pc' = [pc EXCEPT ![t] = label]
    /\ hold' = hold

(* TryLockInternal takes the lock or fails; there is no third case.        *)
LEMMA TryOutcome ==
    ASSUME Inv, NEW t \in Threads, NEW from, NEW failed, TryLockInternal(t, from, failed)
    PROVE  pc[t] = from /\ UNCHANGED <<asleep, wait_cycles>> /\ (Took(t) \/ Failed(t, failed))
<1>1. lockword_ \in Words /\ lock_value[t] \in Words /\ Clean(lockword_) /\ Clean(lock_value[t])
  BY DEF Inv, TypeOK, WordInv
<1>2. ~lockword_.held /\ ~lock_value[t].held => lockword_ = lock_value[t]
  BY <1>1 DEF Words, Clean
<1>3. CASE Returned(t).held
  <2>1. lock_value[t].held \/ lockword_ # lock_value[t]
    BY <1>3 DEF Returned
  <2>2. Returned(t) \in Words
    BY <1>1 DEF Returned
  <2>3. Failed(t, failed)
    BY <1>3, <2>1, <2>2 DEF TryLockInternal, Goto, Failed
  <2> QED BY <2>3 DEF TryLockInternal
<1>4. CASE ~Returned(t).held
  <2>1. ~lock_value[t].held /\ lockword_ = lock_value[t] /\ Returned(t) = lockword_
    BY <1>2, <1>4 DEF Returned
  <2>2. Took(t)
    BY <1>4, <2>1 DEF TryLockInternal, Goto, Took
  <2> QED BY <2>2 DEF TryLockInternal
<1> QED BY <1>3, <1>4

(* Taking the lock keeps the invariant: a thread that has slept leaves its *)
(* wait time in the word, and one that has not finds another that will.    *)
LEMMA TookInv ==
    ASSUME Inv, NEW t \in Threads, pc[t] \in {"fast", "try"}, Took(t),
           UNCHANGED <<asleep, wait_cycles>>
    PROVE  Inv'
<1> USE DEF Inv
<1>1. lockword_' \in Words /\ lockword_'.held
      /\ (wait_cycles[t] # 0 => lockword_'.wait # 0)
  BY DEF Took, Acquired, Word, Words, TypeOK
<1>2. TypeOK'
  BY <1>1 DEF Took, TypeOK, Labels
<1>3. WordInv'
  BY <1>1 DEF Took, WordInv, TypeOK, Clean
<1>4. \A s \in Threads : pc[s] # "unlock"
  BY DEF Took, HoldInv
<1>5. HoldInv'
  BY <1>1, <1>4 DEF Took, HoldInv, TypeOK
<1>6. \A s \in asleep' : pc'[s] = "delayed"
  BY DEF Took, SleepInv, TypeOK
<1>7. ASSUME asleep' # {}
      PROVE  (lockword_'.held /\ lockword_'.wait # 0) \/ \E s \in Threads : Coming(s)'
  <2>1. PICK s \in Threads : Coming(s)
    BY <1>7 DEF Took, SleepInv
  <2>2. CASE s = t
    <3>1. wait_cycles[t] # 0
      BY <2>1, <2>2 DEF Coming
    <3> QED BY <1>1, <3>1
  <2>3. CASE s # t
    BY <2>1, <2>3 DEF Took, Coming, TypeOK
  <2> QED BY <2>2, <2>3
<1> QED BY <1>2, <1>3, <1>5, <1>6, <1>7 DEF SleepInv

(* A step of one thread that leaves the word and the sleepers alone keeps  *)
(* SleepInv, if that thread is still coming when it was.                   *)
LEMMA StillComing ==
    ASSUME TypeOK, SleepInv, NEW t \in Threads, NEW label, t \notin asleep,
           pc' = [pc EXCEPT ![t] = label],
           UNCHANGED <<lockword_, asleep>>,
           \A s \in Threads \ {t} : wait_cycles'[s] = wait_cycles[s],
           Coming(t) => Coming(t)'
    PROVE  SleepInv'
<1>1. \A s \in asleep' : pc'[s] = "delayed"
  BY DEF SleepInv, TypeOK
<1>2. \A s \in Threads : Coming(s) => Coming(s)'
  BY DEF Coming, TypeOK
<1> QED BY <1>1, <1>2 DEF SleepInv

(* So does a TryLockInternal that fails.                                   *)
LEMMA FailedInv ==
    ASSUME Inv, NEW t \in Threads, NEW label, Failed(t, label),
           \/ pc[t] = "fast" /\ label \in {"spin", "call"}
           \/ pc[t] = "try" /\ label = "loop",
           UNCHANGED <<asleep, wait_cycles>>
    PROVE  Inv'
<1> USE DEF Inv
<1>1. PICK w \in Words : w.held /\ lock_value' = [lock_value EXCEPT ![t] = w]
  BY DEF Failed
<1>2. TypeOK'
  BY <1>1 DEF Failed, TypeOK, Labels
<1>3. WordInv'
  BY <1>1 DEF Failed, WordInv, TypeOK, Clean
<1>4. HoldInv'
  BY DEF Failed, HoldInv, TypeOK
<1>5. t \notin asleep
  BY DEF SleepInv
<1>6. Coming(t) => Coming(t)'
  BY DEF Failed, Coming, TypeOK
<1>7. SleepInv'
  BY <1>5, <1>6, StillComing DEF Failed
<1> QED BY <1>2, <1>3, <1>4, <1>7

(* A load before a TryLockInternal copies a clean word.                    *)
LEMMA LoadInv ==
    ASSUME Inv, NEW t \in Threads, NEW cycles \in Nat, NEW label,
           Load(t, cycles), Goto(t, label),
           UNCHANGED <<lockword_, asleep, hold>>, t \notin asleep,
           \/ pc[t] \in {"call", "spin"} /\ label \in {"fast", "try"}
           \/ pc[t] = "delayed" /\ label = "try" /\ cycles # 0
    PROVE  Inv'
<1> USE DEF Inv, Load, Goto
<1>1. TypeOK'
  BY DEF TypeOK, Labels
<1>2. WordInv' /\ HoldInv'
  BY DEF WordInv, HoldInv, TypeOK
<1>3. Coming(t) => Coming(t)'
  BY DEF Coming, TypeOK
<1>4. SleepInv'
  BY <1>3, StillComing DEF TypeOK
<1> QED BY <1>1, <1>2, <1>4

(* The loop of SlowLock marks a held word only, and does not lose a        *)
(* thread that has slept.                                                  *)
LEMMA MarkInv ==
    ASSUME Inv, NEW t \in Threads, MarkSleeper(t)
    PROVE  Inv'
<1> USE DEF Inv
<1>1. /\ pc[t] = "loop" /\ lock_value[t].held /\ lock_value[t] \in Words
      /\ lockword_ \in Words /\ Clean(lockword_) /\ t \notin asleep
      /\ UNCHANGED <<asleep, wait_cycles, hold>>
  BY DEF MarkSleeper, WordInv, SleepInv, TypeOK
<1>2. CASE lock_value[t].wait # 0
  <2>1. pc' = [pc EXCEPT ![t] = "delay"] /\ UNCHANGED <<lockword_, lock_value>>
    BY <1>2 DEF MarkSleeper, Goto
  <2>2. TypeOK' /\ WordInv' /\ HoldInv'
    BY <1>1, <1>2, <2>1 DEF TypeOK, Labels, WordInv, HoldInv
  <2>3. Coming(t) => Coming(t)'
    BY <1>1, <2>1 DEF Coming, TypeOK
  <2>4. SleepInv'
    BY <1>1, <2>1, <2>3, StillComing
  <2> QED BY <2>2, <2>4
<1>3. CASE lock_value[t].wait = 0 /\ lockword_ = lock_value[t]
  <2> DEFINE marked == [lock_value[t] EXCEPT !.wait = kSpinLockSleeper]
  <2>1. /\ lockword_' = marked /\ lock_value' = [lock_value EXCEPT ![t] = marked]
        /\ pc' = [pc EXCEPT ![t] = "delay"]
    BY <1>3 DEF MarkSleeper, Goto
  <2>2. marked \in Words /\ marked.held /\ marked.wait # 0
    BY <1>1 DEF Words, kSpinLockSleeper
  <2> HIDE DEF marked
  <2>3. TypeOK' /\ WordInv' /\ HoldInv'
    BY <1>1, <2>1, <2>2 DEF TypeOK, Labels, WordInv, HoldInv, Clean
  <2>4. SleepInv'
    BY <1>1, <2>1, <2>2 DEF SleepInv, TypeOK
  <2> QED BY <2>3, <2>4
<1>4. CASE lock_value[t].wait = 0 /\ lockword_ # lock_value[t]
  <2> DEFINE label == IF ~lockword_.held THEN "try"
                      ELSE IF lockword_.wait = 0 THEN "loop" ELSE "delay"
  <2>1. /\ lock_value' = [lock_value EXCEPT ![t] = lockword_]
        /\ pc' = [pc EXCEPT ![t] = label] /\ UNCHANGED lockword_
    BY <1>4 DEF MarkSleeper, Goto
  <2>2. TypeOK'
    BY <1>1, <2>1 DEF TypeOK, Labels
  <2>3. WordInv' /\ HoldInv'
    BY <1>1, <2>1 DEF TypeOK, WordInv, HoldInv
  <2>4. Coming(t) => Coming(t)'
    BY <1>1, <2>1 DEF Coming, TypeOK
  <2>5. SleepInv'
    BY <1>1, <2>1, <2>4, StillComing
  <2> QED BY <2>2, <2>3, <2>5
<1> QED BY <1>2, <1>3, <1>4

(* Unlock wakes somebody if the word says so; the thread woken is coming.  *)
LEMMA UnlockInv ==
    ASSUME Inv, NEW t \in Threads, Unlock(t)
    PROVE  Inv'
<1> USE DEF Inv
<1>1. /\ pc[t] = "unlock" /\ lockword_.held /\ t \notin asleep
      /\ \A s \in Threads : pc[s] = "unlock" => s = t
  BY DEF Unlock, HoldInv, SleepInv
<1>2. lockword_' \in Words /\ ~lockword_'.held /\ lockword_'.wait = 0
  BY DEF Unlock, Word, Words
<1>3. TypeOK'
  BY <1>2 DEF Unlock, Goto, TypeOK, Labels
<1>4. WordInv'
  BY <1>1, <1>2 DEF Unlock, Goto, TypeOK, WordInv, Clean
<1>5. HoldInv'
  <2>1. \A s \in Threads : pc'[s] # "unlock"
    BY <1>1 DEF Unlock, Goto, TypeOK
  <2>2. \A s \in Threads : hold'[s] # "Exclusive"
    BY <1>1 DEF Unlock, HoldInv, TypeOK
  <2> QED BY <2>1, <2>2 DEF HoldInv
<1>6. \A s \in asleep' : pc'[s] = "delayed"
  BY <1>1 DEF Unlock, Goto, TypeOK, SleepInv
<1>7. ASSUME asleep' # {} PROVE \E s \in Threads : Coming(s)'
  <2>1. CASE lockword_.wait # 0
    <3>1. Coming(t)'
      BY <2>1 DEF Unlock, Goto, Coming, TypeOK
    <3> QED BY <3>1
  <2>2. CASE lockword_.wait = 0
    <3>1. PICK s \in Threads : Coming(s)
      BY <1>7, <2>2 DEF Unlock, SleepInv
    <3>2. Coming(s)'
      BY <1>1, <3>1 DEF Unlock, Goto, Coming, TypeOK
    <3> QED BY <3>2
  <2> QED BY <2>1, <2>2
<1> QED BY <1>3, <1>4, <1>5, <1>6, <1>7 DEF SleepInv

(* A thread that leaves the futex is coming.                               *)
LEMMA WokenComing ==
    ASSUME TypeOK, SleepInv, NEW s \in asleep, asleep' = asleep \ {s},
           pc'[s] = pc[s],
           \A r \in asleep' : pc'[r] = pc[r]
    PROVE  SleepInv'
<1>1. s \in Threads /\ Coming(s)'
  BY DEF SleepInv, TypeOK, Coming
<1> QED BY <1>1 DEF SleepInv

(* Every step of Lock, TryLock and Unlock keeps the invariant.             *)
LEMMA NextInv == Inv /\ [Next]_vars => Inv'
<1> SUFFICES ASSUME Inv, [Next]_vars PROVE Inv'
  OBVIOUS
<1> USE DEF Inv
<1>1. ASSUME NEW t \in Threads, Lock(t) \/ SpinLoop(t) PROVE Inv'
  <2>1. t \notin asleep
    BY <1>1 DEF Lock, SpinLoop, SleepInv
  <2> QED BY <1>1, <2>1, LoadInv DEF Lock, SpinLoop
<1>2. ASSUME NEW t \in Threads, TryLockImpl(t) PROVE Inv'
  <2> DEFINE label == IF Head(calls[t]) = "Lock" THEN "spin" ELSE "call"
  <2>1. /\ pc[t] = "fast" /\ UNCHANGED <<asleep, wait_cycles>>
        /\ Took(t) \/ Failed(t, label)
    BY <1>2, TryOutcome DEF TryLockImpl
  <2>2. label \in {"spin", "call"}
    OBVIOUS
  <2> HIDE DEF label
  <2> QED BY <2>1, <2>2, TookInv, FailedInv
<1>3. ASSUME NEW t \in Threads, SlowTryLock(t) PROVE Inv'
  <2>1. /\ pc[t] = "try" /\ UNCHANGED <<asleep, wait_cycles>>
        /\ Took(t) \/ Failed(t, "loop")
    BY <1>3, TryOutcome DEF SlowTryLock
  <2> QED BY <2>1, TookInv, FailedInv
<1>4. ASSUME NEW t \in Threads, SpinLockDelay(t) PROVE Inv'
  <2>1. TypeOK'
    BY <1>4 DEF SpinLockDelay, Goto, TypeOK, Labels
  <2>2. WordInv' /\ HoldInv'
    BY <1>4 DEF SpinLockDelay, Goto, TypeOK, WordInv, HoldInv
  <2>3. t \notin asleep
    BY <1>4 DEF SpinLockDelay, SleepInv
  <2>4. CASE lockword_ = lock_value[t]
    <3>1. lockword_.held /\ lockword_.wait # 0
      BY <1>4, <2>4 DEF SpinLockDelay, WordInv
    <3>2. SleepInv'
      BY <1>4, <2>4, <3>1 DEF SpinLockDelay, Goto, SleepInv, TypeOK
    <3> QED BY <2>1, <2>2, <3>2
  <2>5. CASE lockword_ # lock_value[t]
    <3>1. Coming(t)'
      BY <1>4, <2>3, <2>5 DEF SpinLockDelay, Goto, Coming, TypeOK
    <3>2. SleepInv'
      BY <1>4, <2>3, <2>5, <3>1 DEF SpinLockDelay, Goto, SleepInv, TypeOK
    <3> QED BY <2>1, <2>2, <3>2
  <2> QED BY <2>4, <2>5
<1>5. ASSUME NEW t \in Threads, SpinAgain(t) PROVE Inv'
  <2>1. PICK cycles \in {kSpinLockSleeper, 2} : Load(t, cycles)
    BY <1>5 DEF SpinAgain
  <2>2. cycles \in Nat /\ cycles # 0
    BY DEF kSpinLockSleeper
  <2> QED BY <1>5, <2>1, <2>2, LoadInv DEF SpinAgain
<1>6. ASSUME NEW t \in Threads, SlowUnlock(t) PROVE Inv'
  <2>1. t \notin asleep /\ pc[t] = "wake"
    BY <1>6 DEF SlowUnlock, SleepInv
  <2>2. TypeOK'
    BY <1>6 DEF SlowUnlock, Goto, TypeOK, Labels
  <2>3. WordInv' /\ HoldInv'
    BY <1>6, <2>1 DEF SlowUnlock, Goto, TypeOK, WordInv, HoldInv
  <2>4. CASE asleep = {}
    BY <1>6, <2>2, <2>3, <2>4 DEF SlowUnlock, SleepInv
  <2>5. CASE asleep # {}
    <3>1. PICK s \in asleep : asleep' = asleep \ {s}
      BY <1>6, <2>5 DEF SlowUnlock
    <3>2. \A r \in asleep : pc'[r] = pc[r]
      BY <1>6, <2>1 DEF SlowUnlock, Goto, TypeOK
    <3>3. SleepInv'
      BY <3>1, <3>2, WokenComing
    <3> QED BY <2>2, <2>3, <3>3
  <2> QED BY <2>4, <2>5
<1>7. ASSUME NEW t \in Threads, FutexReturn(t) PROVE Inv'
  <2>1. TypeOK' /\ WordInv' /\ HoldInv'
    BY <1>7 DEF FutexReturn, TypeOK, WordInv, HoldInv
  <2>2. SleepInv'
    BY <1>7, WokenComing DEF FutexReturn
  <2> QED BY <2>1, <2>2
<1>8. CASE UNCHANGED vars
  BY <1>8 DEF vars, TypeOK, WordInv, HoldInv, SleepInv, Coming
<1> QED
  BY <1>1, <1>2, <1>3, <1>4, <1>5, <1>6, <1>7, <1>8, MarkInv, UnlockInv DEF Next, Step

(* The invariant holds in every state of the lock.                         *)
THEOREM SpinLockInvariant == Spec => []Inv
BY InitInv, NextInv, PTL DEF Spec

(* No wake-up is lost: a thread asleep in the futex will be woken by the   *)
(* holder, or by a thread that has slept and is about to take the lock.    *)
THEOREM NoSleeperForgotten == Spec => []SleeperRemembered
<1>1. Inv => SleeperRemembered
  <2> SUFFICES ASSUME Inv, asleep # {}
               PROVE  (lockword_.held /\ lockword_.wait # 0) \/ \E t \in Threads : OnItsWay(t)
    BY DEF SleeperRemembered
  <2>1. \A t \in Threads : Coming(t) => OnItsWay(t)
    BY DEF Inv, SleepInv, Coming, OnItsWay
  <2> QED BY <2>1 DEF Inv, SleepInv
<1> QED BY <1>1, SpinLockInvariant, PTL

(* A step that takes or releases the lock is one the mutual exclusion of   *)
(* RWLock allows; every other step leaves the holders alone.               *)
LEMMA ExcludesStep == Inv /\ [Next]_vars => [L!Next]_hold
<1> SUFFICES ASSUME Inv, [Next]_vars PROVE L!Next \/ UNCHANGED hold
  OBVIOUS
<1> USE DEF Inv
<1>1. ASSUME NEW t \in Threads, Took(t), pc[t] # "unlock" PROVE L!Next
  <2>1. \A s \in Threads : hold[s] = "None"
    BY <1>1 DEF Took, HoldInv, TypeOK
  <2>2. L!Acquire(t, "Exclusive")
    BY <1>1, <2>1 DEF Took, L!Acquire, L!Compatible
  <2> QED BY <2>2 DEF L!Next
<1>2. ASSUME NEW t \in Threads, TryLockImpl(t) \/ SlowTryLock(t)
      PROVE  L!Next \/ UNCHANGED hold
  <2>1. PICK from \in {"fast", "try"}, failed \in {"spin", "call", "loop"} :
            TryLockInternal(t, from, failed)
    BY <1>2 DEF TryLockImpl, SlowTryLock
  <2>2. pc[t] = from /\ (Took(t) \/ Failed(t, failed))
    BY <2>1, TryOutcome
  <2> QED BY <1>1, <2>2 DEF Failed
<1>3. ASSUME NEW t \in Threads, Unlock(t) PROVE L!Next
  <2>1. L!Release(t)
    BY <1>3 DEF Unlock, HoldInv, L!Release
  <2> QED BY <2>1 DEF L!Next
<1> QED
  BY <1>2, <1>3 DEF Next, Step, vars, Lock, SpinLoop, MarkSleeper, SpinLockDelay,
     SpinAgain, SlowUnlock, FutexReturn

(* SpinLock implements an exclusive lock, for any threads and programs.    *)
THEOREM SpinLockImplementsLock == Spec => SpinLockExcludes
<1>1. Init => L!Init
  BY DEF Init, L!Init
<1> QED
  BY <1>1, SpinLockInvariant, ExcludesStep, PTL DEF Spec, SpinLockExcludes, L!Spec
=============================================================================
