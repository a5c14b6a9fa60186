--------------------------- MODULE SpinLockProofs ---------------------------
(***************************************************************************)
(* Proofs about SpinLock, for any set of threads, any number of            *)
(* iterations and any number of runs.                                      *)
(***************************************************************************)
EXTENDS SpinLock, TLAPS

LEMMA TypeInit == Init => TypeOK
<1> SUFFICES ASSUME Init PROVE TypeOK
  OBVIOUS
<1>1. FixtureTypeOK
  BY FixtureAssumption DEF Init, FixtureInit, FixtureTypeOK, Stages
<1>2. pc \in [Threads -> {"outside"} \cup Acquiring \cup Critical]
  BY DEF Init
<1>3. reg \in [Threads -> Int]
  BY DEF Init
<1>4. lock_ \in BOOLEAN
  BY DEF Init
<1> QED
  BY <1>1, <1>2, <1>3, <1>4 DEF TypeOK

LEMMA TypeHarness ==
    ASSUME TypeOK, Harness, UNCHANGED <<lock_, pc, reg>> PROVE TypeOK'
<1>1. ASSUME NEW t \in Threads, SetUp(t) PROVE FixtureTypeOK'
  BY <1>1 DEF SetUp, TypeOK, FixtureTypeOK, Stages
<1>2. CASE StartBarrier
  BY <1>2 DEF StartBarrier, TypeOK, FixtureTypeOK, Stages
<1>3. CASE NextRun
  BY <1>3, FixtureAssumption DEF NextRun, TypeOK, FixtureTypeOK, Stages
<1> QED
  BY <1>1, <1>2, <1>3 DEF Harness, TypeOK

LEMMA TypeBody ==
    ASSUME TypeOK, LockInv, NEW t \in Threads, Body(t) PROVE TypeOK'
<1> USE DEF TypeOK, fixtureVars
<1>1. CASE Acquire(t)
  <2>1. pc' \in [Threads -> {"outside"} \cup Acquiring \cup Critical]
    BY <1>1 DEF Acquire, lock_load, lock_exchange, spin_load, spin_exchange,
                try_lock_load, try_lock_exchange, exchange, GoTo, Acquiring,
                Critical
  <2>2. lock_' \in BOOLEAN
    BY <1>1 DEF Acquire, lock_load, lock_exchange, spin_load, spin_exchange,
                try_lock_load, try_lock_exchange, exchange
  <2>3. UNCHANGED <<fixtureVars, reg>>
    BY <1>1 DEF Acquire, lock_load, lock_exchange, spin_load, spin_exchange,
                try_lock_load, try_lock_exchange, exchange, GoTo
  <2> QED
    BY <2>1, <2>2, <2>3 DEF FixtureTypeOK
<1>2. CASE load(t)
  BY <1>2 DEF load, FixtureTypeOK, Critical
<1>3. CASE store(t)
  BY <1>3 DEF store, FixtureTypeOK, Critical
<1>4. CASE unlock(t)
  <2>1. stage[t] = "loop" /\ left[t] > 0
    BY <1>4 DEF unlock, LockInv, FixtureTypeOK
  <2>2. left[t] - 1 \in 0 .. MaxIterations
    BY <2>1, FixtureAssumption DEF FixtureTypeOK
  <2>3. left' \in [Threads -> 0 .. MaxIterations]
    BY <1>4, <2>2 DEF unlock, EndIteration, FixtureTypeOK
  <2>4. stage' \in [Threads -> Stages]
    BY <1>4 DEF unlock, EndIteration, FixtureTypeOK, Stages
  <2>5. \A u \in Threads : stage'[u] = "loop" => left'[u] > 0
    BY <1>4, <2>1 DEF unlock, EndIteration, FixtureTypeOK
  <2>6. FixtureTypeOK'
    BY <1>4, <2>3, <2>4, <2>5 DEF unlock, EndIteration, FixtureTypeOK
  <2> QED
    BY <1>4, <2>6 DEF unlock
<1> QED
  BY <1>1, <1>2, <1>3, <1>4 DEF Body

LEMMA TypeStutter == ASSUME TypeOK, UNCHANGED vars PROVE TypeOK'
BY DEF TypeOK, FixtureTypeOK, vars, fixtureVars

-----------------------------------------------------------------------------
LEMMA LockInit == Init => LockInv
BY DEF Init, FixtureInit, LockInv, BarrierInv, MutualExclusion, Critical

(* The harness acts only while every thread is outside its loop body. *)
LEMMA LockHarness ==
    ASSUME TypeOK, LockInv, Harness, UNCHANGED <<lock_, pc, reg>>
    PROVE  LockInv'
<1> USE DEF LockInv, MutualExclusion, TypeOK, FixtureTypeOK
<1>1. \A t \in Threads : pc[t] = "outside"
  BY DEF Harness, SetUp, StartBarrier, NextRun, BarrierInv
<1>2. BarrierInv'
  BY DEF Harness, SetUp, StartBarrier, NextRun, BarrierInv
<1> QED
  BY <1>1, <1>2 DEF Critical

(* A thread that takes the lock finds it free, hence finds nobody inside;  *)
(* one that fails leaves lock_ as it was.                                  *)
LEMMA LockAcquire ==
    ASSUME TypeOK, LockInv, NEW t \in Threads, Acquire(t)
    PROVE  /\ LockInv'
           /\ UNCHANGED <<fixtureVars, reg>>
           /\ \A u \in Threads \ {t} : pc'[u] = pc[u]
           /\ pc[t] \notin Critical
           /\ pc'[t] \in Critical => pc'[t] = "load" /\ ~lock_
<1> USE DEF TypeOK
<1>1. /\ UNCHANGED <<fixtureVars, reg>>
      /\ \A u \in Threads \ {t} : pc'[u] = pc[u]
  BY DEF Acquire, lock_load, lock_exchange, spin_load, spin_exchange,
         try_lock_load, try_lock_exchange, exchange, GoTo
<1>2. pc[t] \notin Critical /\ stage[t] = "loop"
  BY DEF Acquire, lock_load, lock_exchange, spin_load, spin_exchange,
         try_lock_load, try_lock_exchange, LockInv, Critical
<1>3. \/ pc'[t] = "load" /\ ~lock_ /\ lock_'
      \/ pc'[t] \notin Critical /\ lock_' = lock_
  BY DEF Acquire, lock_load, lock_exchange, spin_load, spin_exchange,
         try_lock_load, try_lock_exchange, exchange, GoTo, Critical
<1>4. BarrierInv' /\ \A u \in Threads : pc'[u] # "outside" => stage'[u] = "loop"
  BY <1>1, <1>2 DEF LockInv, BarrierInv, fixtureVars
<1>5. \A u \in Threads : pc'[u] = "store" => reg'[u] = counter'
  BY <1>1, <1>3 DEF LockInv, fixtureVars, Critical
<1>6. CASE pc'[t] = "load" /\ ~lock_ /\ lock_'
  <2>1. \A u \in Threads : pc[u] \notin Critical
    BY <1>6 DEF LockInv
  <2> QED
    BY <1>1, <1>2, <1>4, <1>5, <1>6, <2>1 DEF LockInv, MutualExclusion, Critical
<1>7. CASE pc'[t] \notin Critical /\ lock_' = lock_
  BY <1>1, <1>2, <1>4, <1>5, <1>7 DEF LockInv, MutualExclusion
<1> QED
  BY <1>1, <1>2, <1>3, <1>6, <1>7 DEF Critical

LEMMA LockBody ==
    ASSUME TypeOK, LockInv, NEW t \in Threads, Body(t) PROVE LockInv'
<1> USE DEF TypeOK, LockInv, MutualExclusion, Critical, fixtureVars
<1>1. CASE Acquire(t)
  BY <1>1, LockAcquire
<1>2. CASE load(t)
  BY <1>2 DEF load, BarrierInv
<1>3. CASE store(t)
  BY <1>3 DEF store, BarrierInv
<1>4. CASE unlock(t)
  <2>1. \A u \in Threads \ {t} : pc[u] \notin Critical
    BY <1>4 DEF unlock
  <2>2. /\ \A u \in Threads \ {t} : stage'[u] = stage[u] /\ pc'[u] = pc[u]
        /\ pc'[t] = "outside" /\ ~lock_'
        /\ stage[t] = "loop" /\ stage'[t] \in {"loop", "done"}
    BY <1>4 DEF unlock, EndIteration, FixtureTypeOK
  <2>3. BarrierInv'
    BY <2>2 DEF BarrierInv
  <2> QED
    BY <1>4, <2>1, <2>2, <2>3
<1> QED
  BY <1>1, <1>2, <1>3, <1>4 DEF Body

LEMMA LockStutter == ASSUME LockInv, UNCHANGED vars PROVE LockInv'
BY DEF LockInv, BarrierInv, MutualExclusion, vars, fixtureVars

(* Types and the lock invariant hold together: unlock() needs the          *)
(* invariant to know that its thread has an iteration left to end.         *)
THEOREM LockInvariant == Spec => [](TypeOK /\ LockInv)
<1>1. TypeOK /\ LockInv /\ [Next]_vars => (TypeOK /\ LockInv)'
  BY TypeHarness, TypeBody, TypeStutter, LockHarness, LockBody, LockStutter
     DEF Next
<1> QED
  BY <1>1, TypeInit, LockInit, PTL DEF Spec

(* The spin lock excludes: no two threads are between acquisition and      *)
(* unlock(), for any number of threads, iterations and runs.               *)
THEOREM Exclusion == Spec => []MutualExclusion
<1>1. LockInv => MutualExclusion
  BY DEF LockInv
<1> QED
  BY <1>1, LockInvariant, PTL

-----------------------------------------------------------------------------
(* Refinement: the spin lock is a mutex. *)

LEMMA MutexInit == Init => Mutex!Init
BY FixtureAssumption
   DEF Init, Mutex!Init, FixtureInit, Mutex!FixtureInit, Owner, Critical

(* The owner the mapping computes. *)
LEMMA OwnerIs ==
    ASSUME LockInv
    PROVE  /\ \A t \in Threads : pc[t] \in Critical => Owner = t
           /\ ~lock_ => Owner = NoThread
           /\ (\A t \in Threads : pc[t] \notin Critical) => Owner = NoThread
BY DEF LockInv, MutualExclusion, Owner

LEMMA MutexStep ==
    ASSUME TypeOK, LockInv, TypeOK', LockInv', [Next]_vars
    PROVE  [Mutex!Next]_Mutex!vars
<1> USE DEF TypeOK, fixtureVars, Mutex!fixtureVars
<1> DEFINE Map == [u \in Threads |-> IF pc[u] \in Critical THEN pc[u] ELSE "outside"]
<1>own. /\ \A u \in Threads : pc'[u] \in Critical => Owner' = u
        /\ (\A u \in Threads : pc'[u] \notin Critical) => Owner' = NoThread
  BY DEF LockInv, MutualExclusion, Owner
<1>1. CASE Harness /\ UNCHANGED <<lock_, pc, reg>>
  BY <1>1 DEF Harness, SetUp, StartBarrier, NextRun, Mutex!Harness, Mutex!SetUp,
              Mutex!StartBarrier, Mutex!NextRun, Mutex!Next, Owner
<1>2. ASSUME NEW t \in Threads, Acquire(t) PROVE [Mutex!Next]_Mutex!vars
  <2>1. /\ UNCHANGED <<fixtureVars, reg>>
        /\ \A u \in Threads \ {t} : pc'[u] = pc[u]
        /\ pc[t] \notin Critical
        /\ pc'[t] \in Critical => pc'[t] = "load" /\ ~lock_
    BY <1>2, LockAcquire
  <2>2. CASE pc'[t] \notin Critical
    <3>1. Map' = Map
      BY <2>1, <2>2
    <3>2. Owner' = Owner
      <4>1. \A u \in Threads : pc'[u] \in Critical <=> pc[u] \in Critical
        BY <2>1, <2>2
      <4> QED
        BY <4>1, <1>own, <2>1, OwnerIs
    <3> QED
      BY <2>1, <3>1, <3>2 DEF Mutex!vars
  <2>3. CASE pc'[t] \in Critical
    <3>1. Owner = NoThread /\ Owner' = t
      BY <2>1, <2>3, <1>own, OwnerIs
    <3>2. Map' = [Map EXCEPT ![t] = "load"] /\ Map[t] = "outside"
      BY <2>1, <2>3
    <3>3. stage[t] = "loop"
      BY <1>2 DEF Acquire, lock_load, lock_exchange, spin_load, spin_exchange,
             try_lock_load, try_lock_exchange, LockInv
    <3>4. Mutex!lock(t)
      BY <2>1, <3>1, <3>2, <3>3 DEF Mutex!lock
    <3> QED
      BY <3>4 DEF Mutex!Next, Mutex!Body
  <2> QED
    BY <2>2, <2>3
<1>3. ASSUME NEW t \in Threads, load(t) PROVE Mutex!load(t)
  <2>1. Owner' = Owner
    BY <1>3, <1>own, OwnerIs DEF load, Critical
  <2>2. Map' = [Map EXCEPT ![t] = "store"] /\ Map[t] = "load"
    BY <1>3 DEF load, Critical
  <2> QED
    BY <1>3, <2>1, <2>2 DEF load, Mutex!load
<1>4. ASSUME NEW t \in Threads, store(t) PROVE Mutex!store(t)
  <2>1. Owner' = Owner
    BY <1>4, <1>own, OwnerIs DEF store, Critical
  <2>2. Map' = [Map EXCEPT ![t] = "unlock"] /\ Map[t] = "store"
    BY <1>4 DEF store, Critical
  <2> QED
    BY <1>4, <2>1, <2>2 DEF store, Mutex!store
<1>5. ASSUME NEW t \in Threads, unlock(t) PROVE Mutex!unlock(t)
  <2>1. \A u \in Threads : pc'[u] \notin Critical
    BY <1>5 DEF unlock, LockInv, MutualExclusion, Critical
  <2>2. Owner' = NoThread
    BY <2>1, <1>own
  <2>3. Map' = [Map EXCEPT ![t] = "outside"] /\ Map[t] = "unlock"
    BY <1>5 DEF unlock, Critical
  <2> QED
    BY <1>5, <2>2, <2>3 DEF unlock, EndIteration, Mutex!unlock, Mutex!EndIteration
<1>6. CASE UNCHANGED vars
  BY <1>6 DEF vars, Mutex!vars, Owner
<1> QED
  BY <1>1, <1>2, <1>3, <1>4, <1>5, <1>6
     DEF Next, Body, Mutex!Next, Mutex!Body, Mutex!vars

(* SpinLockTest behaves like MutexTest, for any threads, iterations and    *)
(* runs: whatever holds of the benchmark with std::mutex holds with        *)
(* SpinLock.                                                               *)
THEOREM SpinLockIsMutex == Spec => ImplementsMutex
<1>1. (TypeOK /\ LockInv) /\ (TypeOK /\ LockInv)' /\ [Next]_vars
         => [Mutex!Next]_Mutex!vars
  BY MutexStep
<1> QED
  BY <1>1, MutexInit, LockInvariant, PTL DEF Spec, ImplementsMutex, Mutex!Spec

(* The mutex benchmark's theorems, for the mutex the spin lock implements. *)
MP == INSTANCE MutexCounterProofs WITH
    owner <- Owner,
    pc <- [t \in Threads |-> IF pc[t] \in Critical THEN pc[t] ELSE "outside"]

(* SpinLockTest counts like LockFreeTest, for any threads, iterations and  *)
(* runs.                                                                   *)
THEOREM SpinLockIsLockFree == Spec => ImplementsLockFree
<1>1. MP!Spec => MP!ImplementsLockFree
  BY MP!MutexIsLockFree, FixtureAssumption DEF MP!IsFiniteSet, IsFiniteSet
<1>2. Mutex!Init => MP!Init
  BY DEF Mutex!Init, MP!Init, Mutex!FixtureInit, MP!FixtureInit
<1>3. [Mutex!Next]_Mutex!vars => [MP!Next]_MP!vars
  BY DEF Mutex!vars, MP!vars, Mutex!Next, MP!Next, Mutex!Body, MP!Body,
     Mutex!lock, MP!lock, Mutex!load, MP!load, Mutex!store, MP!store,
     Mutex!unlock, MP!unlock, Mutex!EndIteration, MP!EndIteration,
     Mutex!Harness, MP!Harness, Mutex!SetUp, MP!SetUp, Mutex!StartBarrier,
     MP!StartBarrier, Mutex!NextRun, MP!NextRun, Mutex!Finished, MP!Finished,
     Mutex!fixtureVars, MP!fixtureVars
<1>4. MP!Atomic!Init => Mutex!Atomic!Init
  BY DEF MP!Atomic!Init, Mutex!Atomic!Init, MP!Atomic!FixtureInit,
     Mutex!Atomic!FixtureInit, MP!Stored, Mutex!Stored
<1>5. [MP!Atomic!Next]_MP!Atomic!fixtureVars
         => [Mutex!Atomic!Next]_Mutex!Atomic!fixtureVars
  BY DEF MP!Atomic!Next, Mutex!Atomic!Next, MP!Atomic!Harness,
     Mutex!Atomic!Harness, MP!Atomic!SetUp, Mutex!Atomic!SetUp,
     MP!Atomic!StartBarrier, Mutex!Atomic!StartBarrier, MP!Atomic!NextRun,
     Mutex!Atomic!NextRun, MP!Atomic!fetch_add, Mutex!Atomic!fetch_add,
     MP!Atomic!EndIteration, Mutex!Atomic!EndIteration, MP!Atomic!Finished,
     Mutex!Atomic!Finished, MP!Atomic!fixtureVars, Mutex!Atomic!fixtureVars,
     MP!Stored, Mutex!Stored
<1>6. MP!ImplementsLockFree => ImplementsLockFree
  BY <1>4, <1>5, PTL DEF MP!ImplementsLockFree, ImplementsLockFree,
     Mutex!ImplementsLockFree, MP!Atomic!Spec, Mutex!Atomic!Spec
<1> QED
  BY <1>1, <1>2, <1>3, <1>6, SpinLockIsMutex, PTL DEF ImplementsMutex,
     Mutex!Spec, MP!Spec
=============================================================================
