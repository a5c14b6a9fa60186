---------------------------- MODULE MutexWaiters ----------------------------
(***************************************************************************)
(* The waiter queue of absl::Mutex: the circular list of PerThreadSynch    *)
(* and its skip chains, as operators on a queue state                      *)
(*                                                                         *)
(*   W == [q, skip, may_skip, wake, readers, maybe_unlocking]              *)
(*                                                                         *)
(* W.q holds the waiting threads from the front, head->next, to "head",    *)
(* the thread queued last.  The other fields are those of PerThreadSynch,  *)
(* by thread.  key[t] is what MuEquivalentWaiter compares: the lock type,  *)
(* the condition and the priority of a waiter.                             *)
(***************************************************************************)
EXTENDS Naturals, Sequences

LOCAL INSTANCE SequencesExt

CONSTANTS Threads, NoThread, NoCond

NoWaiters ==
    [q |-> <<>>,
     skip |-> [t \in Threads |-> NoThread],
     may_skip |-> [t \in Threads |-> FALSE],
     wake |-> [t \in Threads |-> FALSE],
     readers |-> [t \in Threads |-> 0],
     maybe_unlocking |-> [t \in Threads |-> FALSE]]

InQueue(W, t) == \E i \in DOMAIN W.q : W.q[i] = t

IndexOf(W, t) == CHOOSE i \in DOMAIN W.q : W.q[i] = t

HeadOf(W) == Last(W.q)

(* x->next: the list is circular. *)
NextOf(W, t) ==
    LET i == IndexOf(W, t) IN W.q[IF i = Len(W.q) THEN 1 ELSE i + 1]

MuEquivalentWaiter(key, x, y) == key[x] = key[y]

(* The threads on the skip chain that starts at x, and its last one.       *)
RECURSIVE SkipEnd(_, _)
SkipEnd(W, x) == IF W.skip[x] = NoThread THEN x ELSE SkipEnd(W, W.skip[x])

RECURSIVE SkipChain(_, _)
SkipChain(W, x) ==
    {x} \union (IF W.skip[x] = NoThread THEN {} ELSE SkipChain(W, W.skip[x]))

(* Skip(x) returns SkipEnd(W, x) and leaves the chain shortened.           *)
Skip(W, x) ==
    [W EXCEPT !.skip =
        [y \in Threads |->
            IF y \notin SkipChain(W, x) \/ W.skip[y] = NoThread THEN W.skip[y]
            ELSE IF y = x THEN SkipEnd(W, x)
            ELSE IF W.skip[W.skip[y]] # NoThread THEN W.skip[W.skip[y]]
            ELSE W.skip[y]]]

(* FixSkip, for a waiter that leaves the queue out of order; the mutant     *)
(* leaves the dangling skip.                                               *)
FixSkip_None(W, ancestor, s) == W

FixSkip(W, ancestor, s) ==
    IF W.skip[ancestor] # s THEN W
    ELSE [W EXCEPT !.skip[ancestor] =
             IF W.skip[s] # NoThread THEN W.skip[s]
             ELSE IF NextOf(W, ancestor) # s THEN NextOf(W, ancestor)
             ELSE NoThread]

-----------------------------------------------------------------------------
(* Enqueue: the thread after which a waiter of higher priority goes.       *)
RECURSIVE AfterPriority(_, _, _, _)
AfterPriority(W, prio, s, after) ==
    LET front == NextOf(W, after)
        end == SkipEnd(W, front)
    IN  IF prio[s] <= prio[end]
        THEN AfterPriority(Skip(W, front), prio, s, end)
        ELSE [w |-> Skip(W, front), after |-> after]

(* Queueing s after a thread that is not to be its predecessor as "head".  *)
EnqueueAfter(W, key, s, after) ==
    LET pos == IF after = HeadOf(W) THEN 1 ELSE IndexOf(W, after) + 1
        A == [W EXCEPT !.q = InsertAt(W.q, pos, s)]
        B == IF /\ after # HeadOf(W) /\ A.may_skip[after]
                /\ MuEquivalentWaiter(key, after, s)
             THEN [A EXCEPT !.skip[after] = s] ELSE A
    IN  IF MuEquivalentWaiter(key, s, NextOf(A, s))
        THEN [B EXCEPT !.skip[s] = NextOf(A, s)] ELSE B

(* Queueing s at the back, as the new "head". *)
EnqueueLast(W, key, s) ==
    LET h == HeadOf(W) IN
    [W EXCEPT !.q = Append(W.q, s),
              !.readers[s] = W.readers[h],
              !.maybe_unlocking[s] = W.maybe_unlocking[h],
              !.skip[h] = IF W.may_skip[h] /\ MuEquivalentWaiter(key, h, s)
                          THEN s ELSE @]

(* Where Enqueue puts s: after some thread, or NoThread for the back.      *)
EnqueuePlace(W, key, prio, s) ==
    LET h == HeadOf(W) IN
    IF prio[s] <= prio[h] THEN [w |-> W, after |-> NoThread]
    ELSE IF ~W.maybe_unlocking[h] THEN AfterPriority(W, prio, s, h)
    ELSE IF key[s].how = "Exclusive" /\ key[s].cond = NoCond
         THEN [w |-> W, after |-> h]
         ELSE [w |-> W, after |-> NoThread]

(* Enqueue(head, waitp, mu, flags) for a waiter that is not bound for a    *)
(* CondVar; count is the number of readers in mu, used on an empty queue.  *)
Enqueue(W0, key, prio, s, count) ==
    LET W == [W0 EXCEPT !.skip[s] = NoThread, !.may_skip[s] = TRUE,
                        !.wake[s] = FALSE]
    IN  IF W.q = <<>>
        THEN [W EXCEPT !.q = <<s>>, !.readers[s] = count,
                       !.maybe_unlocking[s] = FALSE]
        ELSE LET place == EnqueuePlace(W, key, prio, s) IN
             IF place.after = NoThread
             THEN EnqueueLast(place.w, key, s)
             ELSE EnqueueAfter(place.w, key, s, place.after)

(* The check of Enqueue: "Mutex Enqueue failure". *)
EnqueueOk(W, key, prio, s) ==
    W.q # <<>> =>
        LET place == EnqueuePlace(W, key, prio, s) IN
        place.after # NoThread =>
            \/ place.w.skip[place.after] = NoThread
            \/ MuEquivalentWaiter(key, place.after, s)

-----------------------------------------------------------------------------
(* Dequeue(head, pw), where pw->next is at position i of the queue.        *)
DequeueAt(W, key, i) ==
    LET A == [W EXCEPT !.q = RemoveAt(W.q, i)] IN
    IF i = Len(W.q) \/ i = 1 THEN A
    ELSE LET pw == W.q[i - 1]
             next == W.q[i + 1]
         IN  IF ~MuEquivalentWaiter(key, pw, next) THEN A
             ELSE [A EXCEPT !.skip[pw] = IF A.skip[next] # NoThread
                                         THEN A.skip[next] ELSE next]

(* DequeueAllWakeable from position i: the queue that is left, the threads *)
(* removed, and whether the check on pw->skip held throughout.             *)
RECURSIVE DequeueAllWakeable(_, _, _, _, _)
DequeueAllWakeable(W, key, i, woken, ok) ==
    LET w == W.q[i]
        pw == W.q[IF i = 1 THEN Len(W.q) ELSE i - 1]
        A == DequeueAt(W, key, i)
        B == Skip(W, w)
        j == IndexOf(W, SkipEnd(W, w))
        okHere == ok /\ W.skip[pw] = NoThread
    IN  IF W.wake[w]
        THEN IF key[w].how = "Exclusive" \/ i = Len(W.q)
             THEN [w |-> A, woken |-> Append(woken, w), ok |-> okHere]
             ELSE DequeueAllWakeable(A, key, i, Append(woken, w), okHere)
        ELSE IF j = Len(W.q) THEN [w |-> B, woken |-> woken, ok |-> ok]
             ELSE DequeueAllWakeable(B, key, j + 1, woken, ok)

(* The search of TryRemove for s, from position i. *)
RECURSIVE RemoveFrom(_, _, _, _)
RemoveFrom(W, key, s, i) ==
    LET w == W.q[i]
        B == Skip(W, w)
        j == IndexOf(W, SkipEnd(W, w))
    IN  IF w = s THEN DequeueAt(W, key, i)
        ELSE IF ~MuEquivalentWaiter(key, s, w)
             THEN IF j = Len(W.q) THEN B ELSE RemoveFrom(B, key, s, j + 1)
             ELSE IF i = Len(W.q) THEN FixSkip(W, w, s)
                  ELSE RemoveFrom(FixSkip(W, w, s), key, s, i + 1)

-----------------------------------------------------------------------------
(* The comment above Skip: x->skip is null or a waiter later in the queue, *)
(* and every waiter from x to x->skip is equivalent to x; only a waiter    *)
(* that may skip does.                                                     *)
SkipChainsSound(W, key) ==
    \A i \in DOMAIN W.q :
        LET x == W.q[i] IN
        W.skip[x] # NoThread =>
            /\ W.may_skip[x]
            /\ \E j \in i + 1 .. Len(W.q) :
                  /\ W.skip[x] = W.q[j]
                  /\ \A k \in i .. j : MuEquivalentWaiter(key, x, W.q[k])
=============================================================================
