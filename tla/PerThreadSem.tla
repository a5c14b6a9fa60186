---------------------------- MODULE PerThreadSem ----------------------------
(***************************************************************************)
(* The semaphore a thread blocks on in absl::Mutex, with each of the       *)
(* Waiters it can be built on: "futex" (FutexWaiter), "sem" (SemWaiter)    *)
(* and "condvar" (PthreadWaiter, StdcppWaiter, whose critical sections are *)
(* steps).  Posters post, the ticker pokes a thread that has waited long.  *)
(***************************************************************************)
EXTENDS Integers, Sequences

CONSTANTS
    Modes,
    Posters,
    Waits,          \* for each Wait of the thread, whether it has a timeout
    kIdlePeriods,
    MaxTicks        \* how often Tick is called

VARIABLES
    mode,
    count,          \* futex_, wakeups_ or wakeup_count_
    sem_,           \* the POSIX semaphore
    asleep,         \* the thread is in FUTEX_WAIT or pthread_cond_wait
    waiter_count_,
    ticker, wait_start, is_idle,
    first_pass,
    pc,             \* the waiting thread's place
    todo,           \* its remaining Waits
    post            \* each poster's place

vars == <<mode, count, sem_, asleep, waiter_count_, ticker, wait_start, is_idle,
          first_pass, pc, todo, post>>
identity == <<ticker, wait_start, is_idle>>

Init ==
    /\ mode \in Modes
    /\ count = 0 /\ sem_ = 0 /\ asleep = FALSE /\ waiter_count_ = 0
    /\ ticker = 0 /\ wait_start = 0 /\ is_idle = FALSE
    /\ first_pass = TRUE /\ pc = "run" /\ todo = Waits
    /\ post = [p \in Posters |-> "post"]

timed == Head(todo)

(* AbslInternalPerThreadSemWait: ensure wait_start != 0 *)
Wait ==
    /\ pc = "run" /\ todo # <<>>
    /\ wait_start' = IF ticker = 0 THEN 1 ELSE ticker
    /\ is_idle' = FALSE
    /\ first_pass' = TRUE
    /\ waiter_count_' = waiter_count_ + 1
    /\ pc' = "loop"
    /\ UNCHANGED <<mode, count, sem_, asleep, ticker, todo, post>>

MaybeBecomeIdle ==
    is_idle' = (is_idle \/ (~first_pass /\ ticker - wait_start > kIdlePeriods))

(* Waiter::Wait returns, and AbslInternalPerThreadSemWait cleans up. *)
Return ==
    /\ is_idle' = FALSE /\ wait_start' = 0
    /\ waiter_count_' = waiter_count_ - 1
    /\ pc' = "run" /\ todo' = Tail(todo)

(* The loop of Wait: a wakeup is consumed, or the thread is to block.  On  *)
(* the condition variable it blocks in the same critical section.          *)
Consume ==
    /\ pc = "loop" /\ ~asleep
    /\ IF count > 0
       THEN count' = count - 1 /\ Return /\ UNCHANGED asleep
       ELSE /\ MaybeBecomeIdle
            /\ asleep' = (mode = "condvar")
            /\ pc' = IF mode = "condvar" THEN "loop" ELSE "block"
            /\ UNCHANGED <<count, wait_start, waiter_count_, todo>>
    /\ first_pass' = FALSE
    /\ UNCHANGED <<mode, sem_, ticker, post>>

(* FUTEX_WAIT compares futex_ with 0; sem_wait takes a token. *)
Block ==
    /\ pc = "block"
    /\ \/ mode = "futex" /\ asleep' = (count = 0) /\ UNCHANGED sem_
       \/ mode = "sem" /\ sem_ > 0 /\ sem_' = sem_ - 1 /\ UNCHANGED asleep
    /\ pc' = "loop"
    /\ UNCHANGED <<mode, count, waiter_count_, identity, first_pass, todo, post>>

(* EINTR or a spurious wakeup *)
Interrupt ==
    /\ asleep
    /\ asleep' = FALSE
    /\ UNCHANGED <<mode, count, sem_, waiter_count_, identity, first_pass, pc, todo, post>>

TimeOut ==
    /\ asleep \/ (mode = "sem" /\ pc = "block" /\ sem_ = 0)
    /\ timed
    /\ asleep' = FALSE
    /\ Return
    /\ UNCHANGED <<mode, count, sem_, ticker, first_pass, post>>

-----------------------------------------------------------------------------
(* Poke: the condition variable is signalled if somebody waits. *)
Poke ==
    /\ asleep' = IF mode = "sem" THEN asleep ELSE FALSE
    /\ sem_' = IF mode = "sem" THEN sem_ + 1 ELSE sem_

(* Post: only the step from 0 pokes, except under the mutex; the mutant    *)
(* never does.                                                             *)
Post_NoPoke(p) ==
    /\ post[p] = "post"
    /\ count' = count + 1
    /\ post' = [post EXCEPT ![p] = "done"]
    /\ UNCHANGED <<mode, sem_, asleep, waiter_count_, identity, first_pass, pc, todo>>

Post(p) ==
    /\ post[p] = "post"
    /\ count' = count + 1
    /\ IF mode = "condvar" THEN Poke ELSE UNCHANGED <<asleep, sem_>>
    /\ post' = [post EXCEPT ![p] = IF mode # "condvar" /\ count = 0 THEN "poke" ELSE "done"]
    /\ UNCHANGED <<mode, waiter_count_, identity, first_pass, pc, todo>>

PostPoke(p) ==
    /\ post[p] = "poke"
    /\ Poke
    /\ post' = [post EXCEPT ![p] = "done"]
    /\ UNCHANGED <<mode, count, waiter_count_, identity, first_pass, pc, todo>>

(* Tick, called by a background thread *)
Tick ==
    /\ ticker < MaxTicks
    /\ ticker' = ticker + 1
    /\ IF wait_start # 0 /\ ticker' - wait_start > kIdlePeriods /\ ~is_idle
       THEN Poke ELSE UNCHANGED <<asleep, sem_>>
    /\ UNCHANGED <<mode, count, waiter_count_, wait_start, is_idle, first_pass, pc, todo, post>>

Waiting == Wait \/ Consume \/ Block
Posting(p) == Post(p) \/ PostPoke(p)

Next == Waiting \/ Interrupt \/ TimeOut \/ Tick \/ \E p \in Posters : Posting(p)

Spec ==
    /\ Init /\ [][Next]_vars
    /\ WF_vars(Waiting) /\ WF_vars(TimeOut) /\ \A p \in Posters : WF_vars(Posting(p))

-----------------------------------------------------------------------------
(* As long as there are posts, the thread's Waits return: a Post that      *)
(* finds the count positive need not wake anybody.                         *)
AllReturned == todo = <<>>
SemWaitReturns == <>AllReturned
=============================================================================
