----------------------------- MODULE MCAbslSync -----------------------------
(***************************************************************************)
(* The smaller synchronisation primitives of abseil, the flags that are    *)
(* built from them and the deadlock detector, for TLC.  A behaviour runs   *)
(* one of the groups; the variables that the others do not share with it   *)
(* stay as they are.                                                       *)
(***************************************************************************)
EXTENDS Integers, Sequences

CONSTANTS
    Groups,
    t1, t2, t3,
    va, vb, vc, m1, m2, m3, NoValue, NoThread,
    FlagPrograms

VARIABLES
    group, pc, asleep, calls, hold, lock_,
    control, old, ran,
    lockword_, lock_value, wait_cycles, spin_hold,
    kind, init_control_, words, value, st, seq, left, dst, src, cb_guard,
    callback_, cb_seen, modified_, on_command_line_, default_value_,
    set_by_user, saved, fault,
    flags_, flat_flags_, finalized_flags_, loaded, seen, before,
    num_to_block_, num_to_exit_, deleted,
    count_, done_,
    notified_yet_,
    mode, count, sem_, waiter_count_, ticker, wait_start, is_idle, first_pass,
    todo, post, waiter,
    deadlock_graph, held_locks, holders, exclusive, waiting, forgets, fatal,
    order

onceVars == <<control, old, ran>>
spinVars == <<lockword_, lock_value, wait_cycles, spin_hold>>
flagVars == <<kind, init_control_, words, value, st, seq, left, dst, src,
              cb_guard, callback_, cb_seen, modified_, on_command_line_,
              default_value_, set_by_user, saved, fault>>
registryVars == <<flags_, flat_flags_, finalized_flags_, loaded, seen, before>>
barrierVars == <<num_to_block_, num_to_exit_, deleted>>
counterVars == <<count_, done_>>
semVars == <<mode, count, sem_, waiter_count_, ticker, wait_start, is_idle,
             first_pass, todo, post, waiter>>
lockVars == <<deadlock_graph, held_locks, holders, exclusive, waiting, forgets,
              fatal, order>>
vars == <<group, pc, asleep, calls, hold, lock_, onceVars, spinVars, flagVars,
          registryVars, barrierVars, counterVars, notified_yet_, semVars, lockVars>>

-----------------------------------------------------------------------------
(* What the threads of each group do *)
Threads == {t1, t2, t3}
Run(p1, p2, p3) == [t \in Threads |-> CASE t = t1 -> p1 [] t = t2 -> p2 [] OTHER -> p3]

SpinPrograms == {Run(<<"Lock", "TryLock">>, <<"TryLock">>, <<"Lock">>), Run(<<"Lock">>, <<"Lock">>, <<"Lock">>)}

Value(v) == [name |-> "Value", value |-> v]
Set(v) == [name |-> "Set", value |-> v]
IfDefault(v) == [name |-> "IfDefault", value |-> v]
SetDefault(v) == [name |-> "Default", value |-> v]
Call(n) == [name |-> n, value |-> NoValue]

(* Defaults and set values; a saved state; texts that do not parse. *)
DefaultPrograms == {Run(<<Call("SetCallback"), SetDefault(vb)>>, <<Set(vc), IfDefault(vb)>>, <<>>)}
AllFlagPrograms == DefaultPrograms \cup
    {Run(<<Call("Save"), Set(vb), Call("Restore")>>, <<Call("Get"), Call("Get")>>, <<Set(vc)>>),
     Run(<<Call("SetCallback"), Value(vb)>>, <<Call("Get"), Call("SetCallback"), Set(vc)>>,
         <<Value(NoValue), SetDefault(NoValue), Set(va)>>)}

Register(f) == [name |-> "Register", flag |-> f]
Find(f) == [name |-> "Find", flag |-> f]
ForEach == [name |-> "ForEach", flag |-> va]
Finalize == [name |-> "Finalize", flag |-> va]
RegistryPrograms ==
    {Run(<<Register(va), Finalize, Register(vb), Finalize, Register(vc)>>,
         <<Find(va), ForEach, Find(vb)>>, <<Find(vb), ForEach>>)}

Once == INSTANCE CallOnce
Spin == INSTANCE AbslSpinLock WITH Programs <- SpinPrograms, hold <- spin_hold
Flag == INSTANCE FlagImpl WITH
    Words <- {1, 2}, Values <- {va, vb, vc}, Default <- va,
    Kinds <- {"SequenceLocked", "OneWordAtomic", "AlignedBuffer"},
    Programs <- FlagPrograms
Registry == INSTANCE FlagRegistry WITH Programs <- RegistryPrograms
Block == INSTANCE Barrier
Counter == INSTANCE BlockingCounter WITH Workers <- {t1, t2}, Waiter <- t3
Notice == INSTANCE Notification WITH
    Notifier <- t1, Waiters <- {t2, t3}, Timed <- {t3}, Owner <- t2
Sem == INSTANCE PerThreadSem WITH
    Modes <- {"futex", "sem", "condvar"}, Posters <- Threads,
    Waits <- <<FALSE, TRUE, FALSE>>, kIdlePeriods <- 1, MaxTicks <- 3,
    pc <- waiter
(* Two threads, readers, TryLock and versions; three threads around a      *)
(* circle of three mutexes                                                 *)
Pair(t) == CASE t = t1 -> {m1, m2} [] t = t2 -> {m2, m3} [] OTHER -> {m3, m1}
Locks2 == INSTANCE DeadlockDetection WITH
    Threads <- {t1, t2}, Mutexes <- {m1, m2}, Modes <- BOOLEAN, MaxHeld <- 2,
    MaxCalls <- 2, MaxForget <- 1, MaxVersion <- 2, Null <- NoThread
Locks3 == INSTANCE DeadlockDetection WITH
    Mutexes <- {m1, m2, m3}, Modes <- {TRUE}, MaxHeld <- 2,
    MaxCalls <- 2, MaxForget <- 0, MaxVersion <- 2, Null <- NoThread

-----------------------------------------------------------------------------
NoOnce == control = 0 /\ old = 0 /\ ran = 0
NoSpin ==
    /\ lockword_ = 0 /\ lock_value = 0 /\ wait_cycles = 0
    /\ spin_hold = [t \in Threads |-> "None"]
NoFlag ==
    /\ kind = 0 /\ init_control_ = 0 /\ words = 0 /\ value = 0 /\ seq = 0
    /\ st = [t \in Threads |-> "idle"] /\ left = 0 /\ dst = 0 /\ src = 0
    /\ cb_guard = 0 /\ callback_ = 0 /\ cb_seen = 0 /\ modified_ = 0
    /\ on_command_line_ = 0 /\ default_value_ = 0 /\ set_by_user = 0
    /\ saved = 0 /\ fault = 0
NoRegistry ==
    /\ flags_ = 0 /\ flat_flags_ = 0 /\ finalized_flags_ = 0 /\ loaded = 0
    /\ seen = 0 /\ before = 0
NoSem ==
    /\ mode = 0 /\ count = 0 /\ sem_ = 0 /\ waiter_count_ = 0 /\ ticker = 0
    /\ wait_start = 0 /\ is_idle = 0 /\ first_pass = 0 /\ todo = <<>> /\ post = 0
    /\ waiter = 0
NoLocks ==
    /\ deadlock_graph = 0 /\ held_locks = 0 /\ holders = 0 /\ exclusive = 0
    /\ waiting = 0 /\ forgets = 0 /\ fatal = FALSE /\ order = 0

Init ==
    /\ group \in Groups
    /\ IF group = "once" THEN Once!Init ELSE NoOnce
    /\ IF group = "spin" THEN Spin!Init ELSE NoSpin
    /\ IF group = "flag" THEN Flag!Init ELSE NoFlag
    /\ IF group = "registry" THEN Registry!Init ELSE NoRegistry
    /\ IF group = "barrier" THEN Block!Init
       ELSE num_to_block_ = 0 /\ num_to_exit_ = 0 /\ deleted = FALSE
    /\ IF group = "counter" THEN Counter!Init ELSE count_ = 0 /\ done_ = 0
    /\ IF group = "notification" THEN Notice!Init ELSE notified_yet_ = 0
    /\ IF group = "sem" THEN Sem!Init ELSE NoSem
    /\ CASE group = "locks2" -> Locks2!Init
         [] group = "locks3" -> Locks3!Init
         [] OTHER -> NoLocks
    /\ group \in {"sem", "locks2", "locks3"} => pc = [t \in Threads |-> "idle"]
    /\ group \notin {"once", "spin", "sem"} => asleep = {}
    /\ group \notin {"spin", "flag", "registry", "locks2", "locks3"} => calls = [t \in Threads |-> <<>>]
    /\ group \notin {"flag", "barrier", "counter", "notification"} => hold = 0
    /\ group \notin {"flag", "registry"} => lock_ = 0

(* The variables that each group leaves alone *)
BesideOnce == <<group, calls, hold, lock_, spinVars, flagVars, registryVars,
                barrierVars, counterVars, notified_yet_, semVars,
                lockVars>>
BesideSpin == <<group, hold, lock_, onceVars, flagVars, registryVars,
                barrierVars, counterVars, notified_yet_, semVars,
                lockVars>>
BesideFlag == <<group, asleep, onceVars, spinVars, registryVars, barrierVars,
                counterVars, notified_yet_, semVars,
                lockVars>>
BesideRegistry == <<group, asleep, hold, onceVars, spinVars, flagVars,
                    barrierVars, counterVars, notified_yet_, semVars,
                    lockVars>>
BesideBarrier == <<group, asleep, calls, lock_, onceVars, spinVars, flagVars,
                   registryVars, counterVars, notified_yet_, semVars,
                   lockVars>>
BesideCounter == <<group, asleep, calls, lock_, onceVars, spinVars, flagVars,
                   registryVars, barrierVars, notified_yet_, semVars,
                   lockVars>>
BesideNotification == <<group, asleep, calls, lock_, onceVars, spinVars,
                        flagVars, registryVars, barrierVars, counterVars, semVars,
                        lockVars>>
BesideSem == <<group, pc, calls, hold, lock_, onceVars, spinVars, flagVars,
               registryVars, barrierVars, counterVars, notified_yet_,
               lockVars>>

BesideLocks == <<group, pc, asleep, hold, lock_, onceVars, spinVars, flagVars,
                 registryVars, barrierVars, counterVars, notified_yet_, semVars>>

(* One step of thread t in its group *)
Step(t) ==
    \/ group = "once" /\ Once!Step(t) /\ UNCHANGED BesideOnce
    \/ group = "spin" /\ Spin!Step(t) /\ UNCHANGED BesideSpin
    \/ group = "flag" /\ Flag!Step(t) /\ UNCHANGED BesideFlag
    \/ group = "registry" /\ Registry!Step(t) /\ UNCHANGED BesideRegistry
    \/ group = "barrier" /\ Block!Step(t) /\ UNCHANGED BesideBarrier
    \/ group = "counter" /\ Counter!Step(t) /\ UNCHANGED BesideCounter
    \/ group = "notification" /\ Notice!Step(t) /\ UNCHANGED BesideNotification
    \/ group = "sem" /\ Sem!Posting(t) /\ UNCHANGED BesideSem

Next ==
    \/ \E t \in Threads :
          \/ Step(t)
          \/ group = "once" /\ Once!FutexReturn(t) /\ UNCHANGED BesideOnce
          \/ group = "spin" /\ Spin!FutexReturn(t) /\ UNCHANGED BesideSpin
    \/ /\ group = "sem" /\ UNCHANGED BesideSem
       /\ Sem!Waiting \/ Sem!Interrupt \/ Sem!TimeOut \/ Sem!Tick
    \/ group = "locks2" /\ Locks2!Next /\ UNCHANGED BesideLocks
    \/ /\ group = "locks3" /\ UNCHANGED BesideLocks
       /\ \E t \in Threads :
             \/ Locks3!Lock(t)
             \/ \E mu \in Pair(t) : Locks3!DeadlockCheck(t, mu, TRUE) \/ Locks3!Unlock(t, mu)

(* The operating system runs every thread; no futex call has to return on  *)
(* its own, and no lock is granted to a thread that does not ask for it.   *)
Spec ==
    /\ Init /\ [][Next]_vars
    /\ \A t \in Threads : WF_vars(Step(t))
    /\ WF_vars(group = "sem" /\ Sem!Waiting /\ UNCHANGED BesideSem)
    /\ WF_vars(group = "sem" /\ Sem!TimeOut /\ UNCHANGED BesideSem)

-----------------------------------------------------------------------------
(* call_once runs its function once, before any call returns: CallOnce.    *)
RunsOnce == group = "once" => Once!RunsOnce

(* base_internal::SpinLock is held by one thread at a time: AbslSpinLock.  *)
SpinLockExcludes == Spin!SpinLockExcludes

(* What the code states or asserts of its own state: the wait bits of a    *)
(* spin lock never forget a sleeper, and the flag's TryRead under the      *)
(* guard never fails.                                                      *)
AssertionsHold ==
    /\ group = "spin" => Spin!SleeperRemembered
    /\ group = "flag" => Flag!FlagAssertionsHold

(* A flag read past the sequence lock is whole and current: FlagImpl.      *)
FlagReadsWhole == Flag!FlagReadsWhole

(* RestoreState skips no flag that has changed: FlagImpl.                  *)
RestoreSkipsUnchanged == group = "flag" => Flag!RestoreSkipsUnchanged

(* The mutation callback has seen the last value stored: FlagImpl.         *)
CallbackUpToDate == group = "flag" => Flag!CallbackUpToDate

(* FindFlag and ForEachFlag miss no flag, but across a FinalizeRegistry:   *)
(* FlagRegistry.                                                           *)
MissesOnlyAcrossFinalize == group = "registry" => Registry!MissesOnlyAcrossFinalize

(* A Barrier, a BlockingCounter and a Notification can be destroyed as     *)
(* soon as the call that says so has returned: nobody is inside any more.  *)
ObjectsOutliveUsers ==
    /\ group = "barrier" => Block!BarrierSafe
    /\ group = "counter" => Counter!CounterSafe
    /\ group = "notification" => Notice!NotificationSafe

(* No wake-up is lost: every blocking call of every group returns.         *)
SyncCallsReturn ==
    <>(CASE group = "once" -> Once!AllReturned
         [] group = "spin" -> Spin!AllReturned
         [] group = "flag" -> Flag!AllReturned
         [] group = "registry" -> Registry!AllReturned
         [] group = "barrier" -> Block!AllReturned
         [] group = "counter" -> Counter!AllReturned
         [] group = "notification" -> Notice!AllReturned
         [] group = "sem" -> Sem!AllReturned
         [] OTHER -> TRUE)

(* The order of the deadlock detector's graph survives every insertion,    *)
(* removal and reuse of nodes: GraphCycles.                                *)
GraphSound == group \in {"locks2", "locks3"} => Locks2!GraphSound

(* Deadlocked threads were warned, a warning shows locks that were asked   *)
(* for in both orders, and releasing a lock that is held never ends the    *)
(* program: DeadlockDetection.                                             *)
DetectorExact ==
    /\ group = "locks2" => Locks2!DeadlockReported /\ Locks2!ReportsInversion
    /\ group = "locks3" => Locks3!DeadlockReported /\ Locks3!ReportsInversion
    /\ Locks2!ReleasesHeld

(* SET_FLAG_IF_DEFAULT leaves a value alone that someone has set: FlagImpl. *)
IfDefaultKeepsSetValue == group = "flag" => Flag!IfDefaultKeepsSetValue
=============================================================================
