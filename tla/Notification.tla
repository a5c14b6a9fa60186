---------------------------- MODULE Notification ----------------------------
(***************************************************************************)
(* absl::Notification: one thread notifies, the others wait, with or       *)
(* without a timeout, and one of them destroys it after its wait.          *)
(***************************************************************************)
EXTENDS TLAPS

CONSTANTS
    Notifier,
    Waiters,
    Timed,      \* the waiters that wait with a timeout
    Owner       \* the waiter that destroys the notification

VARIABLES notified_yet_, hold, pc

vars == <<notified_yet_, hold, pc>>

Threads == Waiters \cup {Notifier}

mutex_ == INSTANCE RWLock

Init ==
    /\ notified_yet_ = FALSE
    /\ mutex_!Init
    /\ pc = [t \in Threads |-> "call"]

Goto(t, label) == pc' = [pc EXCEPT ![t] = label]

(* Notify: the store is made with the lock held. *)
Notify(t) ==
    /\ t = Notifier
    /\ \/ /\ pc[t] = "call" /\ mutex_!Acquire(t, "Exclusive") /\ Goto(t, "store")
          /\ UNCHANGED notified_yet_
       \/ pc[t] = "store" /\ notified_yet_' = TRUE /\ Goto(t, "unlock") /\ UNCHANGED hold

(* WaitForNotification: a load without the lock, then LockWhen, whose      *)
(* variants with a timeout may return with the condition false.            *)
WaitForNotification(t) ==
    /\ t \in Waiters
    /\ \/ /\ pc[t] = "call"
          /\ Goto(t, IF notified_yet_ THEN "true" ELSE "wait")
          /\ UNCHANGED hold
       \/ /\ pc[t] = "wait" /\ (notified_yet_ \/ t \in Timed)
          /\ mutex_!Acquire(t, "Exclusive")
          /\ Goto(t, IF notified_yet_ THEN "unlock" ELSE "unlock_late")
    /\ UNCHANGED notified_yet_

Unlock(t) ==
    /\ pc[t] \in {"unlock", "unlock_late"}
    /\ mutex_!Release(t)
    /\ Goto(t, IF pc[t] = "unlock" THEN "true" ELSE "false")
    /\ UNCHANGED notified_yet_

(* The owner, its wait having succeeded and the other waiters being done,  *)
(* runs ~Notification, which locks the mutex; the mutant does not.         *)
Destroy_NoLock(t) ==
    /\ t = Owner /\ pc[t] = "true" /\ \A s \in Waiters \ {t} : pc[s] \in {"true", "false"}
    /\ Goto(t, "gone")
    /\ UNCHANGED <<notified_yet_, hold>>

Destroy(t) ==
    /\ t = Owner /\ pc[t] = "true" /\ \A s \in Waiters \ {t} : pc[s] \in {"true", "false"}
    /\ mutex_!Compatible(t, "Exclusive")
    /\ Goto(t, "gone")
    /\ UNCHANGED <<notified_yet_, hold>>

Step(t) == Notify(t) \/ WaitForNotification(t) \/ Unlock(t) \/ Destroy(t)

Next == \E t \in Threads : Step(t)

Spec == Init /\ [][Next]_vars /\ \A t \in Threads : WF_vars(Step(t))

-----------------------------------------------------------------------------
(* A wait returns true only after Notify has stored, and Notify is no      *)
(* longer inside when the notification is gone, although a waiter may      *)
(* return without ever taking the lock.                                    *)
NotificationSafe ==
    /\ \A t \in Waiters : pc[t] \in {"true", "gone"} => notified_yet_
    /\ pc[Owner] = "gone" => pc[Notifier] = "true"

(* The owner's wait returns and it can destroy the notification. *)
AllReturned == Owner \in Timed \/ pc[Owner] = "gone"
NotificationReturns == <>AllReturned

-----------------------------------------------------------------------------
(* The thread in a critical section has the lock; the notifier stores      *)
(* inside it, and what a waiter has seen tells how far the notifier is.    *)
Inv ==
    /\ notified_yet_ \in BOOLEAN
    /\ hold \in [Threads -> {"None", "Exclusive"}]
    /\ pc \in [Threads -> {"call", "store", "wait", "unlock", "unlock_late", "true",
                           "false", "gone"}]
    /\ pc[Notifier] \in {"call", "store", "unlock", "true"}
    /\ \A t \in Waiters : pc[t] # "store"
    /\ \A t \in Threads :
          hold[t] = "Exclusive" <=> pc[t] \in {"store", "unlock", "unlock_late"}
    /\ notified_yet_ <=> pc[Notifier] \in {"unlock", "true"}
    /\ \A t \in Waiters :
          /\ pc[t] \in {"unlock", "true", "gone"} => notified_yet_
          /\ pc[t] = "gone" => pc[Notifier] = "true"

(* Every step of Notify, of a wait and of the destructor keeps it.         *)
LEMMA NextInv ==
    ASSUME Notifier \notin Waiters, Owner \in Waiters, Inv, [Next]_vars
    PROVE  Inv'
<1> USE DEF Inv, Threads
<1>1. ASSUME NEW t \in Threads, Notify(t) PROVE Inv'
  <2>1. CASE pc[t] = "call"
    <3>1. /\ t = Notifier /\ pc' = [pc EXCEPT ![t] = "store"] /\ UNCHANGED notified_yet_
          /\ hold' = [hold EXCEPT ![t] = "Exclusive"]
      BY <1>1, <2>1 DEF Notify, Goto, mutex_!Acquire
    <3> QED BY <2>1, <3>1
  <2>2. CASE pc[t] = "store"
    <3>1. t = Notifier /\ pc' = [pc EXCEPT ![t] = "unlock"] /\ notified_yet_' = TRUE
          /\ UNCHANGED hold
      BY <1>1, <2>2 DEF Notify, Goto
    <3> QED BY <2>2, <3>1
  <2> QED BY <1>1, <2>1, <2>2 DEF Notify
<1>2. ASSUME NEW t \in Threads, WaitForNotification(t) PROVE Inv'
  <2>1. t \in Waiters /\ t # Notifier
    BY <1>2 DEF WaitForNotification
  <2> QED BY <1>2, <2>1 DEF WaitForNotification, Goto, mutex_!Acquire
<1>3. ASSUME NEW t \in Threads, Unlock(t) PROVE Inv'
  <2>1. CASE t = Notifier
    BY <1>3, <2>1 DEF Unlock, Goto, mutex_!Release
  <2>2. CASE t # Notifier
    BY <1>3, <2>2 DEF Unlock, Goto, mutex_!Release
  <2> QED BY <2>1, <2>2
<1>4. ASSUME NEW t \in Threads, Destroy(t) PROVE Inv'
  <2>1. t = Owner /\ t # Notifier /\ pc[t] = "true" /\ hold[Notifier] = "None"
    BY <1>4 DEF Destroy, mutex_!Compatible
  <2>2. pc[Notifier] = "true"
    BY <2>1
  <2> QED BY <1>4, <2>1, <2>2 DEF Destroy, Goto
<1>5. CASE UNCHANGED vars
  BY <1>5 DEF vars
<1> QED BY <1>1, <1>2, <1>3, <1>4, <1>5 DEF Next, Step

(* A wait that returned true happened after the store, and ~Notification   *)
(* runs only after Notify has returned, for any waiters, timed or not.     *)
THEOREM NotifyOutlived ==
    ASSUME Notifier \notin Waiters, Owner \in Waiters
    PROVE  Spec => []NotificationSafe
<1>1. Init => Inv
  BY DEF Init, Inv, Threads, mutex_!Init
<1>2. Inv /\ [Next]_vars => Inv'
  BY NextInv
<1>3. Inv => NotificationSafe
  BY DEF Inv, NotificationSafe
<1> QED BY <1>1, <1>2, <1>3, PTL DEF Spec
=============================================================================
