------------------------------ MODULE AbslMutex -----------------------------
(***************************************************************************)
(* absl::Mutex and absl::CondVar: the mutex word, its waiter queue, the    *)
(* slow paths of locking and unlocking, conditions, timeouts and the       *)
(* transfer of CondVar waiters to the mutex.                               *)
(*                                                                         *)
(* A load of the word and the compare-and-swap that uses it are one step:  *)
(* the swap succeeds only on the value that was loaded.  A failed swap     *)
(* repeats the loop it is in.  Lock(), ReaderLock() and                    *)
(* LockSlowWithDeadline() first try what the first branch of               *)
(* LockSlowLoop() tries, and Unlock() and ReaderUnlock() what the first    *)
(* branches of UnlockSlow() try, with the same effect; each pair is one    *)
(* action.  Events (kMuEvent), profiling and the deadlock detector of      *)
(* debug builds are left out here.                                         *)
(***************************************************************************)
EXTENDS MutexWaiters, FiniteSets

LOCAL INSTANCE SequencesExt

CONSTANTS
    Conditions,      \* the conditions clients wait for
    Programs,        \* what the threads may run: sequences of calls, by thread
    OsPriority       \* sched_priority of each thread

VARIABLES
    mu,        \* Mutex::mu_: the kMu bits, and the reader count of its high bits
    W,         \* the waiter queue the high bits point to when kMuWait is set
    cvq,       \* the waiters of CondVar::cv_, the first to be woken first
    data,      \* the client state the conditions look at
    calls,     \* the calls each thread has yet to make
    hold,      \* how each thread holds the mutex
    pc,
    state,     \* PerThreadSynch::state
    sem,       \* the count of the thread's PerThreadSem
    waitp,     \* whether PerThreadSynch::waitp is set
    how, cond, timed, cv_word,   \* the fields of SynchWaitParams
    priority,  \* PerThreadSynch::priority
    blocked,   \* kMuHasBlocked of LockSlowLoop's flags
    u,         \* the variables of UnlockSlow
    wake_list, \* the threads this one has to wake
    fault      \* a run-time check has failed

vars == <<mu, W, cvq, data, calls, hold, pc, state, sem, waitp, how, cond,
          timed, cv_word, priority, blocked, u, wake_list, fault>>

(* mu_ when nobody holds the mutex or waits for it *)
Free == [reader |-> FALSE, desig |-> FALSE, wait |-> FALSE, writer |-> FALSE,
         wrwait |-> FALSE, spin |-> FALSE, count |-> 0]

(* UnlockSlow has not been entered. *)
NotUnlocking ==
    [v |-> Free, waitp |-> "none", w |-> NoThread, pw |-> NoThread,
     old_h |-> NoThread, known_false |-> NoCond, wr_wait |-> FALSE,
     w_walk |-> NoThread, pw_walk |-> NoThread]

All(x) == [t \in Threads |-> x]

Init ==
    /\ mu = Free
    /\ W = NoWaiters /\ cvq = <<>>
    /\ data = [c \in Conditions |-> FALSE]
    /\ calls \in Programs
    /\ hold = All("None") /\ pc = All("run")
    /\ state = All("Available") /\ sem = All(0)
    /\ waitp = All(FALSE) /\ how = All("Exclusive") /\ cond = All(NoCond)
    /\ timed = All(FALSE) /\ cv_word = All(FALSE) /\ priority = All(0)
    /\ blocked = All(FALSE) /\ u = All(NotUnlocking)
    /\ wake_list = All(<<>>) /\ fault = FALSE

Goto(t, label) == pc' = [pc EXCEPT ![t] = label]

Check(ok) == fault' = (fault \/ ~ok)

key == [t \in Threads |->
           [how |-> how[t], cond |-> cond[t], prio |-> priority[t]]]

call(t) == Head(calls[t])

Calling(t, name) == pc[t] = "run" /\ calls[t] # <<>> /\ call(t).name = name

(* The call t is in returns. *)
Return(t) == Goto(t, "run") /\ calls' = [calls EXCEPT ![t] = Tail(@)]

(* The variables of the queues, and those a step of LockSlowLoop keeps.    *)
paramVars == <<how, cond, timed, cv_word>>
clientVars == <<data, calls>>

-----------------------------------------------------------------------------
(* PerThreadSynch::next is not null: the thread is on some list.           *)
Linked(t) ==
    \/ InQueue(W, t)
    \/ \E i \in DOMAIN cvq : cvq[i] = t
    \/ \E s \in Threads, i \in 1 .. 3 :
          /\ i \in DOMAIN wake_list[s] /\ wake_list[s][i] = t
          /\ i = 1 => pc[s] \notin {"wake_state", "wake_post"}

(* The queue an unlocker leaves: no readers, nobody scanning it.  The      *)
(* mutant leaves the reader count.                                         *)
Released_KeepReaders(Q) ==
    IF Q.q = <<>> THEN Q
    ELSE [Q EXCEPT !.maybe_unlocking[HeadOf(Q)] = FALSE]

Released(Q) ==
    IF Q.q = <<>> THEN Q
    ELSE [Q EXCEPT !.readers[HeadOf(Q)] = 0, !.maybe_unlocking[HeadOf(Q)] = FALSE]

(* Enqueue(head, waitp of s, mu, flags), run by self: now and then it      *)
(* reads the priority of the thread that runs it.  release says that an    *)
(* unlocker leaves the queue after it; ok is another check.                *)
EnqueueBy(self, s, Q, count, ok, release) ==
    \E p \in IF Q.q = <<>> THEN {priority[s]} ELSE {priority[s], OsPriority[self]} :
        LET k == [key EXCEPT ![s].prio = p]
            pr == [priority EXCEPT ![s] = p]
        IN  /\ W' = IF release THEN Released(Enqueue(Q, k, pr, s, count))
                    ELSE Enqueue(Q, k, pr, s, count)
            /\ priority' = pr
            /\ waitp' = [waitp EXCEPT ![s] = TRUE]
            /\ state' = [state EXCEPT ![s] = "Queued"]
            /\ Check(ok /\ EnqueueOk(Q, k, pr, s))

(* ClearDesignatedWakerMask; the mutant clears nothing. *)
ClearDesig_Never(t, v) == v

ClearDesig(t, v) == [v EXCEPT !.desig = @ /\ ~blocked[t]]

(* (v & how->slow_need_zero) == 0 *)
SlowNeedZero(t) ==
    ~mu.writer /\ IF how[t] = "Shared" THEN ~mu.wait ELSE ~mu.reader

(* or-ing fast_or and adding fast_add *)
FastAcquired(t, v) ==
    IF how[t] = "Shared" THEN [v EXCEPT !.reader = TRUE, !.count = @ + 1]
    ELSE [v EXCEPT !.writer = TRUE]

(* LockSlowLoop has the mutex: it returns, or has a condition to evaluate. *)
(* An untimed wait on the CondVar is in a loop of its caller.              *)
GotLock(t) ==
    /\ hold' = [hold EXCEPT ![t] = how[t]]
    /\ IF cond[t] # NoCond THEN Goto(t, "eval") /\ UNCHANGED calls
       ELSE IF call(t).name = "CvWhile" /\ ~call(t).timed
            THEN Goto(t, "run") /\ UNCHANGED calls
            ELSE Return(t)

-----------------------------------------------------------------------------
(* Lock, ReaderLock, LockWhen and their variants with a timeout *)
StartLock(t) ==
    /\ Calling(t, "Lock")
    /\ how' = [how EXCEPT ![t] = call(t).how]
    /\ cond' = [cond EXCEPT ![t] = call(t).cond]
    /\ timed' = [timed EXCEPT ![t] = call(t).timed]
    /\ blocked' = [blocked EXCEPT ![t] = FALSE]
    /\ Goto(t, "loop")
    /\ UNCHANGED <<mu, W, cvq, data, calls, hold, state, sem, waitp, cv_word,
                   priority, u, wake_list, fault>>

(* TryLock and ReaderTryLock; without the lock the caller skips the calls  *)
(* up to the unlock.                                                       *)
TryLock(t) ==
    /\ Calling(t, "TryLock")
    /\ how' = [how EXCEPT ![t] = call(t).how]
    /\ Goto(t, "run")
    /\ IF ~mu.writer /\ IF call(t).how = "Shared" THEN ~mu.wait ELSE ~mu.reader
       THEN /\ hold' = [hold EXCEPT ![t] = call(t).how]
            /\ mu' = IF call(t).how = "Shared"
                     THEN [mu EXCEPT !.reader = TRUE, !.count = @ + 1]
                     ELSE [mu EXCEPT !.writer = TRUE]
            /\ calls' = [calls EXCEPT ![t] = Tail(@)]
       ELSE /\ calls' = [calls EXCEPT ![t] =
                   LET n == CHOOSE i \in DOMAIN @ : /\ @[i].name = "Unlock"
                               /\ \A j \in 1 .. i - 1 : @[j].name # "Unlock"
                   IN  SubSeq(@, n + 1, Len(@))]
            /\ UNCHANGED <<mu, hold>>
    /\ UNCHANGED <<W, cvq, data, state, sem, waitp, cond, timed, cv_word,
                   priority, blocked, u, wake_list, fault>>

(* LockSlowLoop: the lock is free for this mode. *)
LockAcquire(t) ==
    /\ pc[t] = "loop" /\ SlowNeedZero(t)
    /\ mu' = FastAcquired(t, ClearDesig(t, mu))
    /\ GotLock(t)
    /\ UNCHANGED <<W, cvq, data, state, sem, waitp, paramVars, priority,
                   blocked, u, wake_list, fault>>

(* LockSlowLoop: to become the one and only waiter *)
LockFirstWaiter(t) ==
    /\ pc[t] = "loop" /\ ~SlowNeedZero(t)
    /\ ~mu.spin /\ ~mu.wait
    /\ EnqueueBy(t, t, [W EXCEPT !.q = <<>>], mu.count, ~waitp[t], FALSE)
    /\ mu' = [ClearDesig(t, mu) EXCEPT !.wait = TRUE, !.count = 0,
                 !.wrwait = @ \/ (how[t] = "Exclusive" /\ mu.reader)]
    /\ Goto(t, "block")
    /\ UNCHANGED <<cvq, clientVars, hold, sem, paramVars, blocked, u, wake_list>>

(* slow_inc_need_zero under IgnoreWaitingWritersMask: a reader may join    *)
(* the readers, whose count is in the last waiter.  The mutant forgets     *)
(* kMuWriter.                                                              *)
MayIncrement_PastWriter(t) ==
    how[t] = "Shared" /\ (~mu.wrwait \/ blocked[t])

MayIncrement(t) ==
    how[t] = "Shared" /\ ~mu.writer /\ (~mu.wrwait \/ blocked[t])

LockReaderSpin(t) ==
    /\ pc[t] = "loop" /\ ~SlowNeedZero(t)
    /\ ~mu.spin /\ mu.wait /\ MayIncrement(t)
    /\ mu' = [ClearDesig(t, mu) EXCEPT !.spin = TRUE, !.reader = TRUE]
    /\ Goto(t, "inc")
    /\ UNCHANGED <<W, cvq, clientVars, hold, state, sem, waitp, paramVars,
                   priority, blocked, u, wake_list, fault>>

LockReaderIncrement(t) ==
    /\ pc[t] = "inc"
    /\ W' = [W EXCEPT !.readers[HeadOf(W)] = @ + 1]
    /\ mu' = [mu EXCEPT !.spin = FALSE, !.reader = TRUE]
    /\ GotLock(t)
    /\ UNCHANGED <<cvq, data, state, sem, waitp, paramVars, priority, blocked,
                   u, wake_list, fault>>

(* LockSlowLoop: to queue behind other waiters *)
LockEnqueueSpin(t) ==
    /\ pc[t] = "loop" /\ ~SlowNeedZero(t)
    /\ ~mu.spin /\ mu.wait /\ ~MayIncrement(t)
    /\ u' = [u EXCEPT ![t].wr_wait = how[t] = "Exclusive" /\ mu.reader]
    /\ mu' = [ClearDesig(t, mu) EXCEPT !.spin = TRUE]
    /\ Goto(t, "enqueue")
    /\ UNCHANGED <<W, cvq, clientVars, hold, state, sem, waitp, paramVars,
                   priority, blocked, wake_list, fault>>

LockEnqueue(t) ==
    /\ pc[t] = "enqueue"
    /\ EnqueueBy(t, t, W, 0, ~waitp[t], FALSE)
    /\ mu' = [mu EXCEPT !.spin = FALSE, !.wait = TRUE,
                        !.wrwait = @ \/ u[t].wr_wait]
    /\ u' = [u EXCEPT ![t] = NotUnlocking]
    /\ Goto(t, "block")
    /\ UNCHANGED <<cvq, clientVars, hold, sem, paramVars, blocked, wake_list>>

(* The condition is evaluated with the lock held; if it is false the lock  *)
(* is given up for a place in the queue.                                   *)
Evaluate(t) ==
    /\ pc[t] = "eval"
    /\ IF data[cond[t]]
       THEN Return(t) /\ UNCHANGED u
       ELSE /\ Goto(t, "unlock") /\ UNCHANGED calls
            /\ u' = [u EXCEPT ![t].waitp = "mutex"]
    /\ UNCHANGED <<mu, W, cvq, data, hold, state, sem, waitp, paramVars,
                   priority, blocked, wake_list, fault>>

-----------------------------------------------------------------------------
(* Block: the thread has been removed from the queue.  The mutant leaves   *)
(* it its waitp.                                                           *)
Unblock_KeepWaitp(t) ==
    /\ pc[t] = "block" /\ state[t] = "Available"
    /\ Check(waitp[t])
    /\ blocked' = [blocked EXCEPT ![t] = TRUE]
    /\ Goto(t, "loop")
    /\ UNCHANGED <<mu, W, cvq, clientVars, hold, state, sem, waitp, paramVars,
                   priority, u, wake_list>>

Unblock(t) ==
    /\ pc[t] = "block" /\ state[t] = "Available"
    /\ Check(waitp[t])
    /\ waitp' = [waitp EXCEPT ![t] = FALSE]
    /\ blocked' = [blocked EXCEPT ![t] = TRUE]
    /\ Goto(t, "loop")
    /\ UNCHANGED <<mu, W, cvq, clientVars, hold, state, sem, paramVars,
                   priority, u, wake_list>>

(* DecrementSynchSem returns true; Block and WaitCommon look again.        *)
SemWait(t) ==
    /\ pc[t] \in {"block", "cv_block", "cv_timed_out"}
    /\ state[t] = "Queued" /\ sem[t] > 0
    /\ sem' = [sem EXCEPT ![t] = @ - 1]
    /\ UNCHANGED <<mu, W, cvq, clientVars, hold, pc, state, waitp, paramVars,
                   priority, blocked, u, wake_list, fault>>

(* Block: DecrementSynchSem times out. *)
BlockTimeout(t) ==
    /\ pc[t] = "block" /\ state[t] = "Queued" /\ sem[t] = 0 /\ timed[t]
    /\ Goto(t, "remove")
    /\ UNCHANGED <<mu, W, cvq, clientVars, hold, state, sem, waitp, paramVars,
                   priority, blocked, u, wake_list, fault>>

CanTryRemove == mu.wait /\ ~mu.spin /\ ~mu.writer /\ ~mu.reader

(* TryRemove takes the spinlock and the mutex, if both are free; the first *)
(* call is made even if the thread has been removed in the meantime.       *)
TryRemove(t) ==
    /\ \/ pc[t] = "remove"
       \/ pc[t] = "removing" /\ Linked(t) /\ CanTryRemove
    /\ IF CanTryRemove
       THEN /\ mu' = [mu EXCEPT !.spin = TRUE, !.writer = TRUE]
            /\ Goto(t, "search")
       ELSE Goto(t, "removing") /\ UNCHANGED mu
    /\ UNCHANGED <<W, cvq, clientVars, hold, state, sem, waitp, paramVars,
                   priority, blocked, u, wake_list, fault>>

TryRemoveSearch(t) ==
    /\ pc[t] = "search"
    /\ W' = Released(RemoveFrom(W, key, t, 1))
    /\ state' = IF InQueue(W, t) THEN [state EXCEPT ![t] = "Available"] ELSE state
    /\ mu' = [mu EXCEPT !.spin = FALSE, !.writer = FALSE, !.reader = FALSE,
                        !.wrwait = FALSE, !.wait = W'.q # <<>>]
    /\ Goto(t, "removing")
    /\ UNCHANGED <<cvq, clientVars, hold, sem, waitp, paramVars, priority,
                   blocked, u, wake_list, fault>>

(* Block: off the list, it no longer waits for a time or a condition.      *)
RemovedAfterTimeout(t) ==
    /\ pc[t] = "removing" /\ ~Linked(t)
    /\ timed' = [timed EXCEPT ![t] = FALSE]
    /\ cond' = [cond EXCEPT ![t] = NoCond]
    /\ Goto(t, "block")
    /\ UNCHANGED <<mu, W, cvq, clientVars, hold, state, sem, waitp, how,
                   cv_word, priority, blocked, u, wake_list, fault>>

-----------------------------------------------------------------------------
(* Unlock and ReaderUnlock *)
StartUnlock(t) ==
    /\ Calling(t, "Unlock")
    /\ Goto(t, "unlock")
    /\ UNCHANGED <<mu, W, cvq, clientVars, hold, state, sem, waitp, paramVars,
                   priority, blocked, u, wake_list, fault>>

(* Giving up the lock to wait in the queue or on the CondVar.              *)
GiveUp(t, where) ==
    /\ how' = [how EXCEPT ![t] = IF mu.writer THEN "Exclusive" ELSE "Shared"]
    /\ timed' = [timed EXCEPT ![t] = call(t).timed]
    /\ u' = [u EXCEPT ![t].waitp = where]
    /\ blocked' = [blocked EXCEPT ![t] = TRUE]
    /\ Goto(t, "unlock")
    /\ UNCHANGED calls

(* Await and AwaitWithTimeout *)
Await(t) ==
    /\ Calling(t, "Await")
    /\ IF data[call(t).cond]
       THEN Return(t) /\ UNCHANGED <<how, cond, timed, u, blocked>>
       ELSE GiveUp(t, "mutex") /\ cond' = [cond EXCEPT ![t] = call(t).cond]
    /\ UNCHANGED <<mu, W, cvq, data, hold, state, sem, waitp, cv_word, priority,
                   wake_list, fault>>

(* while (!condition) cv.Wait(&mu), or one cv.WaitWithTimeout *)
CvWhile(t) ==
    /\ Calling(t, "CvWhile")
    /\ IF data[call(t).cond]
       THEN Return(t) /\ UNCHANGED <<how, cond, timed, cv_word, u, blocked>>
       ELSE /\ GiveUp(t, "cv")
            /\ cond' = [cond EXCEPT ![t] = NoCond]
            /\ cv_word' = [cv_word EXCEPT ![t] = TRUE]
    /\ UNCHANGED <<mu, W, cvq, data, hold, state, sem, waitp, priority,
                   wake_list, fault>>

(* The client changes what the conditions look at. *)
SetData(t) ==
    /\ Calling(t, "Set")
    /\ data' = [data EXCEPT ![call(t).cond] = call(t).value]
    /\ Return(t)
    /\ UNCHANGED <<mu, W, cvq, hold, state, sem, waitp, paramVars, priority,
                   blocked, u, wake_list, fault>>

-----------------------------------------------------------------------------
(* UnlockSlow is done; t has the threads in list to wake, and then blocks  *)
(* if it gave up the lock to wait.                                         *)
AfterUnlock(t, list) ==
    /\ wake_list' = [wake_list EXCEPT ![t] = list]
    /\ hold' = [hold EXCEPT ![t] = "None"]
    /\ IF list # <<>> THEN Goto(t, "wake_next") /\ UNCHANGED <<u, calls>>
       ELSE /\ u' = [u EXCEPT ![t] = NotUnlocking]
            /\ CASE u[t].waitp = "none" -> Return(t)
                 [] u[t].waitp = "mutex" -> Goto(t, "block") /\ UNCHANGED calls
                 [] OTHER -> Goto(t, "cv_block") /\ UNCHANGED calls

(* A writer with no waiters or with a designated waker *)
FastWriterRelease == mu.writer /\ ~(mu.wait /\ ~mu.desig)

(* A reader with no waiters *)
FastReaderRelease == mu.reader /\ ~mu.wait

UnlockFast(t) ==
    /\ pc[t] = "unlock" /\ u[t].waitp = "none"
    /\ FastWriterRelease \/ FastReaderRelease
    /\ mu' = IF FastWriterRelease
             THEN [mu EXCEPT !.wrwait = FALSE, !.writer = FALSE]
             ELSE [mu EXCEPT !.reader = mu.count # 1, !.count = @ - 1]
    /\ AfterUnlock(t, <<>>)
    /\ UNCHANGED <<W, cvq, data, state, sem, waitp, paramVars, priority,
                   blocked, fault>>

UnlockSpin(t) ==
    /\ pc[t] = "unlock"
    /\ u[t].waitp = "none" => ~FastWriterRelease /\ ~FastReaderRelease
    /\ ~mu.spin
    /\ mu' = [mu EXCEPT !.spin = TRUE]
    /\ u' = [u EXCEPT ![t].v = mu]
    /\ Goto(t, "unlocking")
    /\ UNCHANGED <<W, cvq, clientVars, hold, state, sem, waitp, paramVars,
                   priority, blocked, wake_list, fault>>

(* With the spinlock held, UnlockSlow does one of the following.           *)
Unlocking(t) == pc[t] = "unlocking"

OtherReaders(t) == u[t].v.reader /\ W.readers[HeadOf(W)] > 1

(* The lock becomes free, with waiters; old_h ended an earlier search and  *)
(* may skip again.                                                         *)
LastHolder(t) == u[t].v.wait /\ ~OtherReaders(t)

Unterminated(t) ==
    LET o == u[t].old_h IN
    IF o = NoThread \/ (o # NoThread /\ W.may_skip[o]) THEN W
    ELSE [W EXCEPT !.may_skip[o] = TRUE,
              !.skip[o] = IF /\ HeadOf(W) # o
                             /\ MuEquivalentWaiter(key, o, NextOf(W, o))
                          THEN NextOf(W, o) ELSE @]

EasyWriter == how[W.q[1]] = "Exclusive" /\ cond[W.q[1]] = NoCond

FoundWaiter(t) ==
    /\ u[t].w # NoThread
    /\ how[u[t].w] = "Exclusive" \/ HeadOf(W) = u[t].old_h

MustSearch(t) ==
    LastHolder(t) /\ ~EasyWriter /\ ~FoundWaiter(t) /\ u[t].old_h # HeadOf(W)

(* CondVarEnqueue, just before the mutex is released *)
CondVarEnqueue(t) ==
    /\ Unlocking(t) /\ cv_word[t] /\ ~MustSearch(t)
    /\ Check(~waitp[t])
    /\ cv_word' = [cv_word EXCEPT ![t] = FALSE]
    /\ waitp' = [waitp EXCEPT ![t] = TRUE]
    /\ state' = [state EXCEPT ![t] = "Queued"]
    /\ cvq' = Append(cvq, t)
    /\ UNCHANGED <<mu, W, clientVars, hold, pc, sem, how, cond, timed, priority,
                   blocked, u, wake_list>>

(* The queue Q, with t on it if t gave up the lock to wait there.          *)
Requeue(t, Q, count, ok, release) ==
    IF u[t].waitp = "mutex" THEN EnqueueBy(t, t, Q, count, ok /\ ~waitp[t], release)
    ELSE /\ W' = IF release THEN Released(Q) ELSE Q
         /\ Check(ok)
         /\ UNCHANGED <<priority, waitp, state>>

(* No one to wake: t queues itself, or is on the CondVar already, and the  *)
(* reader count returns to the word or moves to t.                         *)
UnlockNoWaiters(t) ==
    /\ Unlocking(t) /\ ~u[t].v.wait /\ ~cv_word[t]
    /\ LET readers == IF mu.count >= 1 THEN mu.count - 1 ELSE 0
           queues == u[t].waitp = "mutex"
       IN  /\ Requeue(t, [W EXCEPT !.q = <<>>], readers, u[t].waitp # "none", FALSE)
           /\ mu' = [mu EXCEPT !.spin = FALSE, !.wrwait = FALSE, !.writer = FALSE,
                        !.reader = @ /\ ~(~mu.writer /\ mu.count = 1),
                        !.wait = queues, !.count = IF queues THEN 0 ELSE readers]
    /\ AfterUnlock(t, <<>>)
    /\ UNCHANGED <<cvq, data, sem, paramVars, blocked>>

(* A reader but not the last *)
UnlockNotLast(t) ==
    /\ Unlocking(t) /\ u[t].v.wait /\ OtherReaders(t) /\ ~cv_word[t]
    /\ Requeue(t, [W EXCEPT !.readers[HeadOf(W)] = @ - 1], 0, TRUE, FALSE)
    /\ mu' = u[t].v
    /\ AfterUnlock(t, <<>>)
    /\ UNCHANGED <<cvq, data, sem, paramVars, blocked>>

(* "Mutex queue changed beneath us" and "illegal skip from head" *)
OldHeadOk(t) ==
    LET o == u[t].old_h IN
    o # NoThread => /\ W.maybe_unlocking[HeadOf(W)]
                    /\ ~W.may_skip[o] => W.skip[o] = NoThread

(* The waiters chosen are taken from the queue; the lock is released, with *)
(* a designated waker.                                                     *)
UnlockWake(t) ==
    /\ Unlocking(t) /\ LastHolder(t) /\ ~cv_word[t]
    /\ EasyWriter \/ FoundWaiter(t)
    /\ LET w == IF EasyWriter THEN W.q[1] ELSE u[t].w
           pw == IF EasyWriter \/ u[t].pw = NoThread THEN HeadOf(W) ELSE u[t].pw
           chosen == [Unterminated(t) EXCEPT !.wake[w] = TRUE]
           R == DequeueAllWakeable(chosen, key, IndexOf(W, w), <<>>, TRUE)
       IN  /\ Requeue(t, R.w, 0, OldHeadOk(t) /\ R.ok /\ R.woken # <<>>
                                    /\ NextOf(W, pw) = w, TRUE)
           /\ mu' = [reader |-> FALSE, desig |-> TRUE, wait |-> W'.q # <<>>,
                     writer |-> FALSE, spin |-> FALSE, count |-> 0,
                     wrwait |-> W'.q # <<>> /\ (EasyWriter \/ u[t].wr_wait)]
           /\ AfterUnlock(t, R.woken)
    /\ UNCHANGED <<cvq, data, sem, paramVars, blocked>>

(* The queue has been searched, and nothing is new: no one to wake.        *)
UnlockNoneToWake(t) ==
    /\ Unlocking(t) /\ LastHolder(t) /\ ~cv_word[t]
    /\ ~EasyWriter /\ ~FoundWaiter(t) /\ u[t].old_h = HeadOf(W)
    /\ Requeue(t, Released(Unterminated(t)), 0, OldHeadOk(t), FALSE)
    /\ mu' = [u[t].v EXCEPT !.reader = FALSE, !.writer = FALSE, !.wrwait = FALSE]
    /\ AfterUnlock(t, <<>>)
    /\ UNCHANGED <<cvq, data, sem, paramVars, blocked>>

(* To search the queue for waiters whose condition holds, the spinlock is  *)
(* released; the head is where the search ends, so it must not skip.       *)
UnlockSearch(t) ==
    /\ Unlocking(t) /\ MustSearch(t)
    /\ LET Q == Unterminated(t)
           h == HeadOf(W)
           o == u[t].old_h
       IN  /\ W' = [Q EXCEPT !.may_skip[h] = FALSE, !.maybe_unlocking[h] = TRUE]
           /\ Check(OldHeadOk(t) /\ Q.skip[h] = NoThread)
           /\ u' = [u EXCEPT ![t].old_h = h, ![t].pw_walk = o,
                       ![t].w_walk = IF o # NoThread THEN NextOf(W, o) ELSE W.q[1]]
    /\ mu' = u[t].v
    /\ Goto(t, "walk")
    /\ UNCHANGED <<cvq, clientVars, hold, state, sem, waitp, paramVars, priority,
                   blocked, wake_list>>

(* One waiter of the search: wake the first whose condition holds and, if  *)
(* it is a reader, every other reader.                                     *)
Walk(t) ==
    /\ pc[t] = "walk"
    /\ LET w == u[t].w_walk
           holds == \/ cond[w] = NoCond
                    \/ cond[w] # u[t].known_false /\ data[cond[w]]
           first == holds /\ u[t].w = NoThread
           wakes == holds /\ (first \/ how[w] = "Shared")
           Q == [W EXCEPT !.wake[w] = wakes]
           pw == IF wakes THEN w ELSE SkipEnd(Q, w)
           over == pw = u[t].old_h \/ (first /\ how[w] = "Exclusive")
       IN  /\ W' = IF wakes THEN Q ELSE Skip(Q, w)
           /\ u' = [u EXCEPT
                  ![t].w = IF first THEN w ELSE @,
                  ![t].pw = IF first THEN u[t].pw_walk ELSE @,
                  ![t].wr_wait = @ \/ (holds /\ how[w] = "Exclusive"),
                  ![t].known_false = IF holds THEN @ ELSE cond[w],
                  ![t].pw_walk = IF over THEN NoThread ELSE pw,
                  ![t].w_walk = IF over THEN NoThread ELSE NextOf(W, pw)]
           /\ Goto(t, IF over THEN "unlock" ELSE "walk")
    /\ UNCHANGED <<mu, cvq, clientVars, hold, state, sem, waitp, paramVars,
                   priority, blocked, wake_list, fault>>

-----------------------------------------------------------------------------
(* Wakeup of the first thread on the wake list: next, then state, then the *)
(* semaphore.                                                              *)
WakeNext(t) ==
    /\ pc[t] = "wake_next"
    /\ Goto(t, "wake_state")
    /\ UNCHANGED <<mu, W, cvq, clientVars, hold, state, sem, waitp, paramVars,
                   priority, blocked, u, wake_list, fault>>

WakeState(t) ==
    /\ pc[t] = "wake_state"
    /\ state' = [state EXCEPT ![Head(wake_list[t])] = "Available"]
    /\ Goto(t, "wake_post")
    /\ UNCHANGED <<mu, W, cvq, clientVars, hold, sem, waitp, paramVars, priority,
                   blocked, u, wake_list, fault>>

Signalling(t) == call(t).name \in {"Signal", "SignalAll"}

(* A signaller has woken the threads before those in list. *)
AfterSignal(t, list) ==
    /\ wake_list' = [wake_list EXCEPT ![t] = list]
    /\ IF list = <<>> THEN Return(t) ELSE Goto(t, "cv_wakeup") /\ UNCHANGED calls

WakePost(t) ==
    /\ pc[t] = "wake_post"
    /\ sem' = [sem EXCEPT ![Head(wake_list[t])] = @ + 1]
    /\ IF Signalling(t)
       THEN AfterSignal(t, Tail(wake_list[t])) /\ UNCHANGED <<u, hold>>
       ELSE AfterUnlock(t, Tail(wake_list[t]))
    /\ UNCHANGED <<mu, W, cvq, data, state, waitp, paramVars, priority, blocked,
                   fault>>

-----------------------------------------------------------------------------
(* WaitCommon: woken, the thread takes the mutex again (Trans).            *)
CvUnblock(t) ==
    /\ pc[t] \in {"cv_block", "cv_timed_out"} /\ state[t] = "Available"
    /\ Check(waitp[t])
    /\ waitp' = [waitp EXCEPT ![t] = FALSE]
    /\ timed' = [timed EXCEPT ![t] = FALSE]
    /\ Goto(t, "loop")
    /\ UNCHANGED <<mu, W, cvq, clientVars, hold, state, sem, how, cond, cv_word,
                   priority, blocked, u, wake_list>>

(* WaitCommon: a timeout, and Remove *)
CvTimeout(t) ==
    /\ pc[t] = "cv_block" /\ state[t] = "Queued" /\ sem[t] = 0 /\ timed[t]
    /\ cvq' = SelectSeq(cvq, LAMBDA s : s # t)
    /\ state' = IF cvq' # cvq THEN [state EXCEPT ![t] = "Available"] ELSE state
    /\ Goto(t, "cv_timed_out")
    /\ UNCHANGED <<mu, W, clientVars, hold, sem, waitp, paramVars, priority,
                   blocked, u, wake_list, fault>>

(* Signal takes the first waiter from the CondVar, SignalAll every one.    *)
Signal(t) ==
    /\ Calling(t, "Signal") \/ Calling(t, "SignalAll")
    /\ LET n == IF call(t).name = "Signal" /\ cvq # <<>> THEN 1 ELSE Len(cvq) IN
       /\ cvq' = SubSeq(cvq, n + 1, Len(cvq))
       /\ AfterSignal(t, SubSeq(cvq, 1, n))
    /\ UNCHANGED <<mu, W, data, hold, state, sem, waitp, paramVars, priority,
                   blocked, u, fault>>

(* Whether w cannot take the mutex now; the mutant has Fer queue it even   *)
(* on a free mutex.                                                        *)
Conflicting_Always(w) == TRUE

Conflicting(w) == mu.writer \/ (how[w] # "Shared" /\ mu.reader)

(* CondVar::Wakeup: a timed waiter is woken; another is handed to the      *)
(* mutex by Fer, which wakes it too if the mutex is free for it.           *)
CvWakeup(t) ==
    /\ pc[t] = "cv_wakeup"
    /\ LET w == Head(wake_list[t]) IN
       /\ timed[w] \/ ~Conflicting(w)
       /\ Check(timed[w] \/ (cond[w] = NoCond /\ ~cv_word[w]))
    /\ Goto(t, "wake_next")
    /\ UNCHANGED <<mu, W, cvq, clientVars, hold, state, sem, waitp, paramVars,
                   priority, blocked, u, wake_list>>

FerFirstWaiter(t) ==
    /\ pc[t] = "cv_wakeup" /\ ~mu.spin /\ ~mu.wait
    /\ LET w == Head(wake_list[t]) IN
       /\ ~timed[w] /\ Conflicting(w)
       /\ EnqueueBy(t, w, [W EXCEPT !.q = <<>>], mu.count,
                    cond[w] = NoCond /\ ~cv_word[w], FALSE)
    /\ mu' = [mu EXCEPT !.wait = TRUE, !.count = 0]
    /\ AfterSignal(t, Tail(wake_list[t]))
    /\ UNCHANGED <<cvq, data, hold, sem, paramVars, blocked, u>>

FerSpin(t) ==
    /\ pc[t] = "cv_wakeup" /\ ~mu.spin /\ mu.wait
    /\ ~timed[Head(wake_list[t])] /\ Conflicting(Head(wake_list[t]))
    /\ mu' = [mu EXCEPT !.spin = TRUE]
    /\ Goto(t, "fer")
    /\ UNCHANGED <<W, cvq, clientVars, hold, state, sem, waitp, paramVars,
                   priority, blocked, u, wake_list, fault>>

FerEnqueue(t) ==
    /\ pc[t] = "fer"
    /\ LET w == Head(wake_list[t]) IN
       EnqueueBy(t, w, W, 0, cond[w] = NoCond /\ ~cv_word[w], FALSE)
    /\ mu' = [mu EXCEPT !.spin = FALSE, !.wait = TRUE]
    /\ AfterSignal(t, Tail(wake_list[t]))
    /\ UNCHANGED <<cvq, data, hold, sem, paramVars, blocked, u>>

-----------------------------------------------------------------------------
Step(t) ==
    \/ StartLock(t) \/ TryLock(t) \/ LockAcquire(t) \/ LockFirstWaiter(t)
    \/ LockReaderSpin(t) \/ LockReaderIncrement(t) \/ LockEnqueueSpin(t)
    \/ LockEnqueue(t) \/ Evaluate(t) \/ Unblock(t) \/ SemWait(t)
    \/ BlockTimeout(t) \/ TryRemove(t) \/ TryRemoveSearch(t)
    \/ RemovedAfterTimeout(t) \/ StartUnlock(t) \/ Await(t) \/ CvWhile(t)
    \/ SetData(t) \/ UnlockFast(t) \/ UnlockSpin(t) \/ CondVarEnqueue(t)
    \/ UnlockNoWaiters(t) \/ UnlockNotLast(t) \/ UnlockWake(t)
    \/ UnlockNoneToWake(t) \/ UnlockSearch(t) \/ Walk(t) \/ WakeNext(t)
    \/ WakeState(t) \/ WakePost(t) \/ CvUnblock(t) \/ CvTimeout(t)
    \/ Signal(t) \/ CvWakeup(t) \/ FerFirstWaiter(t) \/ FerSpin(t)
    \/ FerEnqueue(t)

AllReturned == \A t \in Threads : calls[t] = <<>>

Next == \E t \in Threads : Step(t)

Fairness == \A t \in Threads : WF_vars(Step(t))

Spec == Init /\ [][Next]_vars /\ Fairness

-----------------------------------------------------------------------------
(* Clients see a reader-writer lock: a writer, Await or CondVar::Wait      *)
(* included, never holds the mutex together with anyone else.              *)
Lock == INSTANCE RWLock
ImplementsRWLock == Lock!Spec

(* Whenever the spinlock is free, the word and the queue agree: kMuWait is *)
(* set if anybody waits, kMuReader if a reader holds the lock, and the     *)
(* reader count, in the word or in the last waiter, is exact.              *)
Readers == {t \in Threads : hold[t] = "Shared"}
WordMatchesQueue ==
    ~mu.spin =>
        /\ mu.wait <=> W.q # <<>>
        /\ mu.wrwait => mu.wait
        /\ mu.reader <=> Readers # {}
        /\ (IF mu.wait THEN W.readers[HeadOf(W)] ELSE mu.count) = Cardinality(Readers)

(* INVARIANT1 of the source: if kMuDesig is set, some thread was blocked,  *)
(* no longer is, and has neither acquired the mutex nor blocked again.     *)
OnItsWay(t) ==
    \/ \E s \in Threads, i \in 1 .. 3 : i \in DOMAIN wake_list[s] /\ wake_list[s][i] = t
    \/ pc[t] = "loop" /\ blocked[t]
    \/ /\ pc[t] \in {"block", "removing", "remove", "search", "cv_block", "cv_timed_out"}
       /\ state[t] = "Available"
DesignatedWaker == mu.desig => \E t \in Threads : OnItsWay(t)

(* The skip chains of the queue join equivalent waiters only, and a        *)
(* timed-out waiter leaves none that leads to it.                          *)
SkipsSound == SkipChainsSound(W, key)

(* None of the run-time checks of Enqueue, DequeueAllWakeable, UnlockSlow, *)
(* Block and Fer fails.                                                    *)
ChecksHold == ~fault

(* Every call returns: no waiter whose turn or condition has come sleeps   *)
(* on.                                                                     *)
CallsReturn == <>AllReturned
=============================================================================
