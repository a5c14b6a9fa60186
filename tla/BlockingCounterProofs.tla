----------------------- MODULE BlockingCounterProofs ------------------------
(***************************************************************************)
(* The thread that Wait has returned to may delete the counter, for any    *)
(* finite set of workers.  One worker only brings count_ to zero, it sets  *)
(* done_ with the lock held, and Wait sees done_ with the lock held: when  *)
(* Wait has the lock that worker has given it up.                          *)
(***************************************************************************)
EXTENDS BlockingCounter, FiniteSetTheorems, TLAPS

(* The workers that have not called DecrementCount yet *)
ToCome == {t \in Workers : pc[t] = "call"}

(* Every variable keeps its type.                                          *)
TypeOK ==
    /\ count_ \in Nat /\ done_ \in BOOLEAN
    /\ pc \in [Threads -> {"call", "zero", "await", "waiting", "unlock", "returned"}]
    /\ \A t \in Workers : pc[t] \in {"call", "zero", "unlock", "returned"}
    /\ pc[Waiter] # "zero"
    /\ hold \in [Threads -> {"None", "Exclusive"}]

(* One thread has the lock: the one in a critical section.                 *)
HoldInv ==
    \A t \in Threads :
        /\ hold[t] = "Exclusive" <=> pc[t] \in {"await", "unlock"}
        /\ hold[t] = "Exclusive" => \A s \in Threads : hold[s] = "Exclusive" => s = t

(* count_ counts the workers to come; the last of them sets done_.         *)
CountInv ==
    /\ count_ = Cardinality(ToCome)
    /\ \A t \in Workers : pc[t] \in {"zero", "unlock"} =>
          /\ ToCome = {}
          /\ \A s \in Workers : pc[s] \in {"zero", "unlock"} => s = t
    /\ done_ => \A t \in Workers : pc[t] \in {"unlock", "returned"}

(* Wait leaves its critical section with done_ seen.                       *)
WaitInv ==
    /\ pc[Waiter] \in {"unlock", "returned"} => done_
    /\ pc[Waiter] = "returned" => \A t \in Workers : pc[t] = "returned"

Inv == TypeOK /\ HoldInv /\ CountInv /\ WaitInv

(* A new counter satisfies the invariant.                                  *)
LEMMA InitInv ==
    ASSUME IsFiniteSet(Workers), Waiter \notin Workers, Init
    PROVE  Inv
<1>1. ToCome = Workers
  BY DEF Init, ToCome, Threads
<1>2. TypeOK
  BY FS_CardinalityType DEF Init, TypeOK, Threads, lock_!Init
<1>3. HoldInv
  BY DEF Init, HoldInv, lock_!Init
<1>4. CountInv
  BY <1>1 DEF Init, CountInv, Threads
<1>5. WaitInv
  BY DEF Init, WaitInv, Threads
<1> QED BY <1>2, <1>3, <1>4, <1>5 DEF Inv

(* A worker's decrement takes it out of the set that count_ counts.        *)
LEMMA DecrementInv ==
    ASSUME IsFiniteSet(Workers), Waiter \notin Workers, Inv,
           NEW t \in Threads, DecrementCount(t)
    PROVE  Inv'
<1> USE DEF Inv
<1>1. /\ t \in Workers /\ t \in ToCome /\ t # Waiter /\ count_' = count_ - 1
      /\ pc' = [pc EXCEPT ![t] = IF count_' = 0 THEN "zero" ELSE "returned"]
      /\ UNCHANGED <<done_, hold>>
  BY DEF DecrementCount, Goto, ToCome
<1>2. ToCome' = ToCome \ {t}
  BY <1>1 DEF ToCome, Threads, TypeOK
<1>3. IsFiniteSet(ToCome)
  BY FS_Subset DEF ToCome
<1>4. Cardinality(ToCome \ {t}) = Cardinality(ToCome) - 1 /\ IsFiniteSet(ToCome \ {t})
  BY <1>1, <1>3, FS_RemoveElement
<1>5. count_' = Cardinality(ToCome')
  BY <1>1, <1>2, <1>4 DEF CountInv
<1>6. count_' \in Nat /\ (count_' = 0 <=> ToCome' = {})
  BY <1>2, <1>4, <1>5, FS_CardinalityType, FS_EmptySet
<1>7. TypeOK'
  BY <1>1, <1>6 DEF TypeOK, Threads
<1>8. HoldInv'
  <2>1. pc[t] = "call"
    BY <1>1 DEF ToCome
  <2>2. \A s \in Threads : pc'[s] \in {"await", "unlock"} <=> pc[s] \in {"await", "unlock"}
    BY <1>1, <2>1 DEF TypeOK
  <2> QED BY <1>1, <2>2 DEF HoldInv
<1>9. ~done_ /\ \A s \in Workers : pc[s] \notin {"zero", "unlock"}
  BY <1>1 DEF CountInv, ToCome
<1>10. CountInv'
  BY <1>1, <1>5, <1>6, <1>9 DEF CountInv, TypeOK, Threads
<1>11. WaitInv'
  BY <1>1, <1>9 DEF WaitInv, TypeOK, Threads
<1> QED BY <1>7, <1>8, <1>10, <1>11

(* The other steps leave the workers to come alone.                        *)
LEMMA NextInv ==
    ASSUME IsFiniteSet(Workers), Waiter \notin Workers, Inv, [Next]_vars
    PROVE  Inv'
<1> USE DEF Inv
<1>1. ASSUME NEW t \in Threads, SetDone(t) PROVE Inv'
  <2>1. t \in Workers /\ t # Waiter
    BY <1>1 DEF SetDone, TypeOK, Threads
  <2>2. /\ \A s \in Threads : hold[s] # "Exclusive"
        /\ pc' = [pc EXCEPT ![t] = "unlock"] /\ done_' = TRUE
        /\ hold' = [hold EXCEPT ![t] = "Exclusive"] /\ count_' = count_
    BY <1>1 DEF SetDone, Goto, lock_!Acquire, lock_!Compatible
  <2>3. TypeOK' /\ ToCome' = ToCome
    BY <1>1, <2>1, <2>2 DEF SetDone, TypeOK, Threads, ToCome
  <2>4. HoldInv'
    BY <1>1, <2>2 DEF HoldInv, TypeOK
  <2>5. \A s \in Workers : s # t => pc[s] = "returned"
    BY <1>1, <2>1 DEF SetDone, CountInv, TypeOK, ToCome
  <2>6. CountInv'
    BY <1>1, <2>1, <2>2, <2>3, <2>5 DEF SetDone, CountInv, TypeOK, Threads
  <2>7. WaitInv'
    BY <1>1, <2>1, <2>2 DEF SetDone, WaitInv, TypeOK, Threads
  <2> QED BY <2>3, <2>4, <2>6, <2>7
<1>2. ASSUME NEW t \in Threads, Unlock(t) PROVE Inv'
  <2>1. /\ pc[t] = "unlock" /\ pc' = [pc EXCEPT ![t] = "returned"]
        /\ hold' = [hold EXCEPT ![t] = "None"] /\ UNCHANGED <<count_, done_>>
    BY <1>2 DEF Unlock, Goto, lock_!Release
  <2>2. TypeOK' /\ ToCome' = ToCome
    BY <2>1 DEF TypeOK, Threads, ToCome
  <2>3. HoldInv'
    BY <2>1 DEF HoldInv, TypeOK
  <2>4. CountInv'
    BY <2>1, <2>2 DEF CountInv, TypeOK, Threads
  <2>5. t = Waiter => \A s \in Workers : pc[s] = "returned"
    BY <2>1 DEF HoldInv, CountInv, WaitInv, Threads
  <2>6. WaitInv'
    BY <2>1, <2>5 DEF WaitInv, TypeOK, Threads
  <2> QED BY <2>2, <2>3, <2>4, <2>6
<1>3. ASSUME NEW t \in Threads, Wait(t) PROVE Inv'
  <2>1. t = Waiter /\ UNCHANGED <<count_, done_>>
    BY <1>3 DEF Wait
  <2>2. TypeOK' /\ ToCome' = ToCome
    BY <1>3, <2>1 DEF Wait, Goto, lock_!Acquire, lock_!Release, TypeOK, Threads, ToCome
  <2>3. HoldInv'
    BY <1>3, <2>1 DEF Wait, Goto, lock_!Acquire, lock_!Compatible, lock_!Release,
                      HoldInv, TypeOK
  <2>4. CountInv'
    BY <1>3, <2>1, <2>2 DEF Wait, Goto, CountInv, TypeOK, Threads
  <2>5. WaitInv'
    BY <1>3, <2>1 DEF Wait, IsDone, Goto, WaitInv, TypeOK, Threads
  <2> QED BY <2>2, <2>3, <2>4, <2>5
<1>4. CASE UNCHANGED vars
  BY <1>4 DEF vars, TypeOK, HoldInv, CountInv, ToCome, WaitInv
<1> QED BY <1>1, <1>2, <1>3, <1>4, DecrementInv DEF Next, Step

(* When Wait has returned no DecrementCount is left that could touch the   *)
(* counter: deleting it is safe, for any finite set of workers.            *)
THEOREM DeletedWhenQuiet ==
    ASSUME IsFiniteSet(Workers), Waiter \notin Workers
    PROVE  Spec => []CounterSafe
<1>1. Inv => CounterSafe
  BY DEF Inv, WaitInv, CounterSafe
<1>2. Init => Inv
  BY InitInv
<1>3. Inv /\ [Next]_vars => Inv'
  BY NextInv
<1> QED BY <1>1, <1>2, <1>3, PTL DEF Spec
=============================================================================
