------------------------- MODULE MutexCounterProofs -------------------------
(***************************************************************************)
(* Proofs about MutexCounter, for any set of threads, any number of        *)
(* iterations and any number of runs.                                      *)
(***************************************************************************)
EXTENDS MutexCounter, TLAPS

LEMMA MutexTypeInit == Init => TypeOK /\ OwnerInv
<1> SUFFICES ASSUME Init PROVE TypeOK /\ OwnerInv
  OBVIOUS
<1>1. FixtureTypeOK
  BY FixtureAssumption DEF Init, FixtureInit, FixtureTypeOK, Stages
<1>2. pc \in [Threads -> {"outside"} \cup Critical]
  BY DEF Init
<1>3. reg \in [Threads -> Int] /\ owner \in Threads \cup {NoThread}
  BY DEF Init
<1>4. OwnerInv
  BY FixtureAssumption DEF Init, FixtureInit, OwnerInv, BarrierInv, Critical
<1> QED
  BY <1>1, <1>2, <1>3, <1>4 DEF TypeOK

(* The harness acts only while every thread is outside its loop body. *)
LEMMA MutexHarness ==
    ASSUME TypeOK, OwnerInv, Harness, UNCHANGED <<owner, pc, reg>>
    PROVE  /\ TypeOK'
           /\ OwnerInv'
           /\ \A t \in Threads : pc[t] = "outside"
<1>1. ASSUME NEW t \in Threads, SetUp(t) PROVE FixtureTypeOK'
  BY <1>1 DEF SetUp, TypeOK, FixtureTypeOK, Stages
<1>2. ASSUME StartBarrier PROVE FixtureTypeOK'
  BY <1>2 DEF StartBarrier, TypeOK, FixtureTypeOK, Stages
<1>3. ASSUME NextRun PROVE FixtureTypeOK'
  BY <1>3, FixtureAssumption DEF NextRun, TypeOK, FixtureTypeOK, Stages
<1>4. TypeOK'
  BY <1>1, <1>2, <1>3 DEF Harness, TypeOK
<1>5. \A t \in Threads : pc[t] = "outside"
  BY DEF Harness, SetUp, StartBarrier, NextRun, BarrierInv, OwnerInv, TypeOK,
         FixtureTypeOK, Critical
<1>6. BarrierInv'
  BY DEF Harness, SetUp, StartBarrier, NextRun, BarrierInv, OwnerInv, TypeOK,
         FixtureTypeOK
<1> QED
  BY <1>4, <1>5, <1>6 DEF OwnerInv, Critical

LEMMA MutexBody ==
    ASSUME TypeOK, OwnerInv, NEW t \in Threads, Body(t)
    PROVE  TypeOK' /\ OwnerInv'
<1> USE DEF TypeOK, OwnerInv, Critical, fixtureVars
<1>1. CASE lock(t)
  <2>1. TypeOK'
    BY <1>1 DEF lock, FixtureTypeOK
  <2>2. \A u \in Threads : pc[u] \notin Critical
    BY <1>1, FixtureAssumption DEF lock
  <2> QED
    BY <1>1, <2>1, <2>2 DEF lock, BarrierInv
<1>2. CASE load(t)
  BY <1>2 DEF load, FixtureTypeOK, BarrierInv
<1>3. CASE store(t)
  <2>1. TypeOK'
    BY <1>3 DEF store, FixtureTypeOK
  <2> QED
    BY <1>3, <2>1 DEF store, BarrierInv
<1>4. CASE unlock(t)
  <2>1. stage[t] = "loop" /\ left[t] > 0 /\ owner = t
    BY <1>4 DEF unlock, FixtureTypeOK
  <2>2. left[t] - 1 \in 0 .. MaxIterations
    BY <2>1, FixtureAssumption DEF FixtureTypeOK
  <2>3. left' \in [Threads -> 0 .. MaxIterations]
    BY <1>4, <2>2 DEF unlock, EndIteration, FixtureTypeOK
  <2>4. stage' \in [Threads -> Stages]
    BY <1>4 DEF unlock, EndIteration, FixtureTypeOK, Stages
  <2>5. \A u \in Threads : stage'[u] = "loop" => left'[u] > 0
    BY <1>4, <2>1 DEF unlock, EndIteration, FixtureTypeOK
  <2>6. TypeOK'
    BY <1>4, <2>3, <2>4, <2>5 DEF unlock, EndIteration, FixtureTypeOK
  <2>7. /\ \A u \in Threads \ {t} : stage'[u] = stage[u] /\ pc'[u] = pc[u]
        /\ pc'[t] = "outside"
        /\ stage'[t] \in {"loop", "done"}
    BY <1>4 DEF unlock, EndIteration, FixtureTypeOK
  <2>8. BarrierInv'
    BY <2>1, <2>7 DEF BarrierInv
  <2>9. \A u \in Threads \ {t} : pc[u] \notin Critical
    BY <2>1
  <2> QED
    BY <1>4, <2>6, <2>7, <2>8, <2>9, FixtureAssumption DEF unlock
<1> QED
  BY <1>1, <1>2, <1>3, <1>4 DEF Body

(* Types and ownership hold together, for every set of threads.            *)
THEOREM OwnerInvariant == Spec => [](TypeOK /\ OwnerInv)
<1>1. TypeOK /\ OwnerInv /\ UNCHANGED vars => TypeOK' /\ OwnerInv'
  BY DEF TypeOK, OwnerInv, FixtureTypeOK, BarrierInv, vars, fixtureVars
<1>2. TypeOK /\ OwnerInv /\ [Next]_vars => (TypeOK /\ OwnerInv)'
  BY <1>1, MutexHarness, MutexBody DEF Next
<1> QED
  BY <1>2, MutexTypeInit, PTL DEF Spec

-----------------------------------------------------------------------------
(* Refinement: the locked counter is the lock-free one. *)

LEMMA AtomicInit == Init => Atomic!Init
BY DEF Init, FixtureInit, Atomic!Init, Atomic!FixtureInit, Stored

LEMMA AtomicStep ==
    ASSUME TypeOK, OwnerInv, [Next]_vars
    PROVE  [Atomic!Next]_Atomic!fixtureVars
<1> USE DEF TypeOK, FixtureTypeOK, fixtureVars
<1> DEFINE Left == [t \in Threads |-> IF Stored(t) THEN left[t] - 1 ELSE left[t]]
           Stage == [t \in Threads |->
                       IF Stored(t) /\ left[t] = 1 THEN "done" ELSE stage[t]]
<1>1. CASE Harness /\ UNCHANGED <<owner, pc, reg>>
  <2>1. \A t \in Threads : pc[t] = "outside" /\ pc'[t] = "outside"
    BY <1>1, MutexHarness
  <2>2. Left = left /\ Stage = stage
    BY <2>1 DEF Stored
  <2>3. Left' = left' /\ Stage' = stage'
    BY <1>1, <2>1 DEF Stored, Harness, SetUp, StartBarrier, NextRun
  <2>4. Atomic!Harness
    BY <1>1, <2>2, <2>3 DEF Harness, SetUp, StartBarrier, NextRun,
       Atomic!Harness, Atomic!SetUp, Atomic!StartBarrier, Atomic!NextRun
  <2> QED
    BY <2>4 DEF Atomic!Next
<1>2. ASSUME NEW t \in Threads, store(t) PROVE Atomic!fetch_add(t)
  <2>1. stage[t] = "loop" /\ reg[t] = counter /\ left[t] > 0
    BY <1>2 DEF store, OwnerInv, Critical
  <2>2. Stage[t] = "loop" /\ Left[t] = left[t]
    BY <1>2, <2>1 DEF store, Stored
  <2>3. Left' = [Left EXCEPT ![t] = @ - 1]
    BY <1>2, <2>2 DEF store, Stored
  <2>4. Stage' = [Stage EXCEPT ![t] = IF Left[t] = 1 THEN "done" ELSE "loop"]
    BY <1>2, <2>1, <2>2 DEF store, Stored
  <2>5. counter' = counter + 1 /\ UNCHANGED <<iterations, runs>>
    BY <1>2, <2>1 DEF store
  <2> QED
    BY <2>2, <2>3, <2>4, <2>5 DEF Atomic!fetch_add, Atomic!EndIteration
<1>3. ASSUME NEW t \in Threads, lock(t) \/ load(t)
      PROVE  UNCHANGED Atomic!fixtureVars
  <2>1. Left' = Left /\ Stage' = Stage
    BY <1>3 DEF lock, load, Stored
  <2> QED
    BY <1>3, <2>1 DEF lock, load, Atomic!fixtureVars
<1>4. ASSUME NEW t \in Threads, unlock(t) PROVE UNCHANGED Atomic!fixtureVars
  <2>1. stage[t] = "loop" /\ left[t] > 0
    BY <1>4 DEF unlock, OwnerInv, Critical
  <2>2. Left' = Left
    BY <1>4 DEF unlock, EndIteration, Stored
  <2>3. Stage' = Stage
    BY <1>4, <2>1 DEF unlock, EndIteration, Stored
  <2> QED
    BY <1>4, <2>2, <2>3 DEF unlock, EndIteration, Atomic!fixtureVars
<1>5. CASE UNCHANGED vars
  BY <1>5 DEF vars, Atomic!fixtureVars, Stored
<1> QED
  BY <1>1, <1>2, <1>3, <1>4, <1>5 DEF Next, Body, Atomic!Next

(* The benchmarks that guard a plain counter with a mutex count like the   *)
(* one with an atomic counter: every iteration adds exactly one.           *)
THEOREM MutexIsLockFree == Spec => ImplementsLockFree
<1>1. (TypeOK /\ OwnerInv) /\ [Next]_vars => [Atomic!Next]_Atomic!fixtureVars
  BY AtomicStep
<1> QED
  BY <1>1, AtomicInit, OwnerInvariant, PTL DEF Spec, ImplementsLockFree, Atomic!Spec
=============================================================================
