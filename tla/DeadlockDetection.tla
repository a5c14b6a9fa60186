-------------------------- MODULE DeadlockDetection -------------------------
(***************************************************************************)
(* The deadlock detection of absl::Mutex in debug mode (kReport): Lock     *)
(* adds an edge from every lock the thread holds to the new one before it  *)
(* may block, and reports the first edge that would close a cycle.         *)
(***************************************************************************)
EXTENDS GraphCycles

CONSTANTS
    Threads, Mutexes,
    Modes,          \* of the locks asked for: TRUE for exclusive, FALSE for shared
    MaxHeld,        \* ABSL_ARRAYSIZE(held_locks->locks)
    MaxCalls,       \* how many locks a thread asks for
    MaxForget       \* how often ForgetDeadlockInfo is called

VARIABLES
    deadlock_graph,
    held_locks,     \* what SynchLocksHeld records for each thread
    holders,        \* how often each thread holds each mutex
    exclusive,      \* the mutexes held by a writer
    waiting,        \* the Lock call a thread is in
    calls, forgets,
    fatal,          \* "thread releasing lock it does not hold"
    order           \* every (held, asked for) pair so far

vars == <<deadlock_graph, held_locks, holders, exclusive, waiting, calls, forgets, fatal, order>>
bounds == <<calls, forgets>>

NoCall == [mu |-> Null, id |-> MakeId(0, 0), excl |-> FALSE, cycle |-> <<>>]

Init ==
    /\ deadlock_graph = EmptyGraph
    /\ held_locks = [t \in Threads |-> [locks |-> <<>>, overflow |-> FALSE]]
    /\ holders = [m \in Mutexes |-> [t \in Threads |-> 0]]
    /\ exclusive = {}
    /\ waiting = [t \in Threads |-> NoCall]
    /\ calls = [t \in Threads |-> 0] /\ forgets = 0
    /\ fatal = FALSE /\ order = {}

Held(t) == {m \in Mutexes : holders[m][t] > 0}
Blocks(s, m, excl) == holders[m][s] > 0 /\ (excl \/ m \in exclusive)
Blocked(m, excl) == \E s \in Threads : Blocks(s, m, excl)

-----------------------------------------------------------------------------
(* The edges of DeadlockCheck, from the locks of the array in its order;   *)
(* an expired id is ignored, the first cycle reported with its path.       *)
RECURSIVE Edges(_, _, _)
Edges(g, locks, id) ==
    LET other == locks[1].id
        r == InsertEdge(g, other, id)
        path == FindPath(g, id, other)
    IN  IF locks = <<>> THEN [g |-> g, cycle |-> <<>>]
        ELSE IF Ptr(g, other) = Null \/ r.ok THEN
            Edges(IF Ptr(g, other) = Null THEN g ELSE r.g, Tail(locks), id)
        ELSE [g |-> r.g, cycle |-> [i \in DOMAIN path |-> g.nodes_[path[i]].ptr]]

(* With no lock held there is nothing to check; the mutant thinks so with  *)
(* one lock.                                                               *)
CheckedLocks_Many(locks) == IF Len(locks) <= 1 THEN <<>> ELSE locks

CheckedLocks(locks) == locks

(* Lock and ReaderLock up to the point where they may block *)
DeadlockCheck(t, mu, excl) ==
    LET g == WithNode(deadlock_graph, mu)
        id == IdOf(g, mu)
        r == Edges(g, CheckedLocks(held_locks[t].locks), id)
    IN  /\ waiting[t] = NoCall /\ calls[t] < MaxCalls
        /\ deadlock_graph' = r.g
        /\ waiting' = [waiting EXCEPT ![t] =
               [mu |-> mu, id |-> id, excl |-> excl, cycle |-> r.cycle]]
        /\ order' = order \cup (Held(t) \X {mu})
        /\ calls' = [calls EXCEPT ![t] = @ + 1]
        /\ UNCHANGED <<held_locks, holders, exclusive, forgets, fatal>>

Entry(h, id) == SelectInSeq(h.locks, LAMBDA e : e.id = id)

LockEnter(t, mu, id) ==
    held_locks' = [held_locks EXCEPT ![t] =
        LET i == Entry(@, id)
        IN  IF i > 0 THEN [@ EXCEPT !.locks[i].count = @ + 1]
            ELSE IF Len(@.locks) = MaxHeld THEN [@ EXCEPT !.overflow = TRUE]
            ELSE [@ EXCEPT !.locks = Append(@, [mu |-> mu, id |-> id, count |-> 1])]]

Acquired(t, mu, excl) ==
    /\ holders' = [holders EXCEPT ![mu][t] = @ + 1]
    /\ exclusive' = IF excl THEN exclusive \cup {mu} ELSE exclusive

(* The rest of Lock and ReaderLock *)
Lock(t) ==
    LET w == waiting[t]
    IN  /\ w # NoCall /\ ~Blocked(w.mu, w.excl)
        /\ Acquired(t, w.mu, w.excl)
        /\ LockEnter(t, w.mu, w.id)
        /\ waiting' = [waiting EXCEPT ![t] = NoCall]
        /\ UNCHANGED <<deadlock_graph, bounds, fatal, order>>

(* TryLock and ReaderTryLock do not check. *)
TryLock(t, mu, excl) ==
    LET g == WithNode(deadlock_graph, mu)
    IN  /\ waiting[t] = NoCall /\ calls[t] < MaxCalls
        /\ ~Blocked(mu, excl)
        /\ Acquired(t, mu, excl)
        /\ deadlock_graph' = g
        /\ LockEnter(t, mu, IdOf(g, mu))
        /\ calls' = [calls EXCEPT ![t] = @ + 1]
        /\ UNCHANGED <<waiting, forgets, fatal, order>>

(* LockLeave: the last entry takes the place of the one that goes.  An id  *)
(* that was reassigned since LockEnter leaves the entry where it is; the   *)
(* mutant does not look for the mutex then.                                *)
Missing_ById(h, mu) == TRUE

Missing(h, mu) == \A i \in DOMAIN h.locks : h.locks[i].mu # mu

LockLeave(t, mu, id) ==
    LET h == held_locks[t]
        i == Entry(h, id)
        n == Len(h.locks)
    IN  /\ held_locks' = [held_locks EXCEPT ![t].locks =
               IF i = 0 THEN @
               ELSE IF @[i].count > 1 THEN [@ EXCEPT ![i].count = @ - 1]
               ELSE Front([@ EXCEPT ![i] = h.locks[n]])]
        /\ fatal' = (fatal \/ (i = 0 /\ ~h.overflow /\ Missing(h, mu)))

(* Unlock and ReaderUnlock *)
Unlock(t, mu) ==
    LET g == WithNode(deadlock_graph, mu)
    IN  /\ waiting[t] = NoCall /\ holders[mu][t] > 0
        /\ deadlock_graph' = g
        /\ LockLeave(t, mu, IdOf(g, mu))
        /\ holders' = [holders EXCEPT ![mu][t] = @ - 1]
        /\ exclusive' = exclusive \ {mu}
        /\ UNCHANGED <<waiting, bounds, order>>

ForgetDeadlockInfo(mu) ==
    /\ forgets < MaxForget
    /\ deadlock_graph' = RemoveNode(deadlock_graph, mu)
    /\ forgets' = forgets + 1
    /\ UNCHANGED <<held_locks, holders, exclusive, waiting, calls, fatal, order>>

Next ==
    \/ \E t \in Threads, mu \in Mutexes :
        \/ \E excl \in Modes : DeadlockCheck(t, mu, excl) \/ TryLock(t, mu, excl)
        \/ Unlock(t, mu)
    \/ \E t \in Threads : Lock(t)
    \/ \E mu \in Mutexes : ForgetDeadlockInfo(mu)

Spec == Init /\ [][Next]_vars

-----------------------------------------------------------------------------
(* The graph stays ordered by its ranks: what CheckInvariants checks.     *)
GraphSound == CheckInvariants(deadlock_graph)

(* The threads that wait for one another *)
Deadlocked(D) ==
    /\ D # {}
    /\ \A t \in D :
        /\ waiting[t] # NoCall
        /\ \E s \in D : Blocks(s, waiting[t].mu, waiting[t].excl)

(* What is recorded of t is complete: nothing overflowed, and no mutex it  *)
(* holds or waits for lost its id since it was entered or asked for.       *)
Recorded(t) ==
    /\ ~held_locks[t].overflow
    /\ Ptr(deadlock_graph, waiting[t].id) = waiting[t].mu
    /\ \A m \in Held(t) : \E i \in DOMAIN held_locks[t].locks :
        Ptr(deadlock_graph, held_locks[t].locks[i].id) = m

(* Threads that wait for one another do not do so unreported: one of the   *)
(* calls they are blocked in was reported, however the locks they hold     *)
(* were acquired and whatever was reported before.                         *)
DeadlockReported ==
    \A D \in SUBSET Threads :
        Deadlocked(D) /\ (\A t \in D : Recorded(t)) => \E t \in D : waiting[t].cycle # <<>>

(* A report is about locks that were asked for in both orders: the cycle   *)
(* it shows leads from the lock asked for to one the thread holds, each    *)
(* lock on it asked for while the one before was held.                     *)
ReportsInversion ==
    \A t \in Threads :
        LET cycle == waiting[t].cycle
        IN  cycle # <<>> =>
                /\ cycle[1] = waiting[t].mu /\ Last(cycle) \in Held(t)
                /\ \A i \in 1..(Len(cycle) - 1) : <<cycle[i], cycle[i + 1]>> \in order

(* A thread that releases a lock it holds is never taken for one that does *)
(* not, also when the mutex got a new id in between (LockLeave).           *)
ReleasesHeld == ~fatal
=============================================================================
