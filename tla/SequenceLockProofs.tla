------------------------- MODULE SequenceLockProofs -------------------------
(***************************************************************************)
(* What a successful TryRead returns, for any number of threads and words. *)
(* The sequence counter is even exactly when no Write is in progress, so a *)
(* reader that finds the even value it began with has met no Write.        *)
(***************************************************************************)
EXTENDS SequenceLock, TLAPS

V == Values \cup {Default}

(* Every variable keeps its type; the counter starts at kUninitialized.    *)
TypeOK ==
    /\ lock_ \in Int /\ lock_ >= kUninitialized
    /\ words \in [Words -> V] /\ value \in V
    /\ st \in [Threads -> {"idle", "reading", "read", "failed", "writing"}]
    /\ seq \in [Threads -> Int]
    /\ left \in [Threads -> SUBSET Words]
    /\ dst \in [Threads -> [Words -> V]]
    /\ src \in [Threads -> V]

Even(n) == n % 2 = 0

(* Write: the counter is odd, and the words already copied have the value. *)
WriterInv ==
    \A t \in Threads : st[t] = "writing" =>
        /\ Even(seq[t]) /\ 0 <= seq[t] /\ lock_ = seq[t] + 1
        /\ \A s \in Threads : st[s] = "writing" => s = t
        /\ \A w \in Words \ left[t] : words[w] = src[t]

(* Between Writes the counter is even, and the buffer holds one value.     *)
QuietInv ==
    (\A t \in Threads : st[t] # "writing") =>
        /\ lock_ = kUninitialized \/ Even(lock_)
        /\ \A w \in Words : words[w] = value

(* TryRead: what was copied is current as long as the counter has not      *)
(* moved.                                                                  *)
ReaderInv ==
    \A t \in Threads : st[t] = "reading" =>
        /\ Even(seq[t]) /\ 0 <= seq[t] /\ seq[t] <= lock_
        /\ seq[t] = lock_ => \A w \in Words \ left[t] : dst[t][w] = value

Inv == TypeOK /\ WriterInv /\ QuietInv /\ ReaderInv

(* An even number has odd neighbours.                                      *)
LEMMA Parity ==
    ASSUME NEW n \in Int
    PROVE  /\ Even(n) => ~Even(n + 1) /\ Even(n + 2)
           /\ ~Even(kUninitialized)
           /\ Even(n) \/ n % 2 = 1
           /\ ~(Even(n) /\ n % 2 = 1)
BY DEF Even, kUninitialized

(* The constructor's state satisfies the invariant.                        *)
LEMMA InitInv == Init => Inv
<1>1. Whole(Default) \in [Words -> V]
  BY DEF Whole, V
<1>2. Init => TypeOK
  BY <1>1 DEF Init, TypeOK, V, kUninitialized
<1>3. Init => WriterInv /\ QuietInv /\ ReaderInv
  BY DEF Init, WriterInv, QuietInv, ReaderInv, Whole
<1> QED BY <1>2, <1>3 DEF Inv

(* A counter that equals the even value a reader began with is even, so    *)
(* that no Write is in progress.                                           *)
LEMMA QuietWhenEven ==
    ASSUME Inv, Even(lock_)
    PROVE  \A t \in Threads : st[t] # "writing"
<1> SUFFICES ASSUME NEW t \in Threads, st[t] = "writing" PROVE FALSE
  OBVIOUS
<1>1. Even(seq[t]) /\ lock_ = seq[t] + 1
  BY DEF Inv, WriterInv
<1>2. seq[t] \in Int
  BY DEF Inv, TypeOK
<1> QED BY <1>1, <1>2, Parity

(* Every step of TryRead, Write and MarkInitialized keeps the invariant.   *)
LEMMA NextInv == Inv /\ [Next]_vars => Inv'
<1> SUFFICES ASSUME Inv, [Next]_vars PROVE Inv'
  OBVIOUS
<1> USE DEF Inv
<1>1. CASE MarkInitialized
  <2>1. \A t \in Threads : st[t] # "writing" /\ st[t] # "reading"
    <3> SUFFICES ASSUME NEW t \in Threads PROVE st[t] # "writing" /\ st[t] # "reading"
      OBVIOUS
    <3>1. seq[t] \in Int /\ lock_ \in Int
      BY DEF TypeOK
    <3>2. st[t] = "writing" => FALSE
      BY <1>1, <3>1 DEF MarkInitialized, WriterInv, Even, kUninitialized
    <3>3. QED
      BY <1>1, <3>1, <3>2 DEF MarkInitialized, ReaderInv, kUninitialized
  <2>2. TypeOK'
    BY <1>1 DEF MarkInitialized, TypeOK, kUninitialized
  <2>3. WriterInv' /\ ReaderInv'
    BY <1>1, <2>1 DEF MarkInitialized, WriterInv, ReaderInv
  <2>4. QuietInv'
    BY <1>1, <2>1 DEF MarkInitialized, QuietInv, Even
  <2> QED BY <2>2, <2>3, <2>4
<1>2. ASSUME NEW t \in Threads, TryRead(t) PROVE Inv'
  <2>1. TypeOK'
    BY <1>2 DEF TryRead, TypeOK
  <2>2. WriterInv'
    BY <1>2 DEF TryRead, WriterInv, TypeOK
  <2>3. QuietInv'
    BY <1>2 DEF TryRead, QuietInv, TypeOK
  <2>4. lock_ \in Int /\ (lock_ % 2 # 1 => Even(lock_) /\ 0 <= lock_)
    <3>1. lock_ \in Int /\ lock_ >= kUninitialized
      BY DEF TypeOK
    <3>2. lock_ % 2 # 1 => Even(lock_) /\ lock_ # kUninitialized
      BY <3>1, Parity
    <3> QED BY <3>1, <3>2 DEF kUninitialized
  <2>5. ReaderInv'
    BY <1>2, <2>4 DEF TryRead, ReaderInv, TypeOK
  <2> QED BY <2>1, <2>2, <2>3, <2>5
<1>3. ASSUME NEW t \in Threads, NEW w \in Words, RelaxedCopyFromAtomic(t, w)
      PROVE  Inv'
  <2>1. TypeOK'
    BY <1>3 DEF RelaxedCopyFromAtomic, TypeOK
  <2>2. WriterInv'
    BY <1>3 DEF RelaxedCopyFromAtomic, WriterInv, TypeOK
  <2>3. QuietInv'
    BY <1>3 DEF RelaxedCopyFromAtomic, QuietInv, TypeOK
  <2>4. seq[t] = lock_ => words[w] = value
    BY <1>3, QuietWhenEven DEF RelaxedCopyFromAtomic, ReaderInv, QuietInv
  <2>5. ReaderInv'
    BY <1>3, <2>4 DEF RelaxedCopyFromAtomic, ReaderInv, TypeOK
  <2> QED BY <2>1, <2>2, <2>3, <2>5
<1>4. ASSUME NEW t \in Threads, TryReadEnd(t) \/ Done(t) PROVE Inv'
  <2>1. TypeOK'
    BY <1>4 DEF TryReadEnd, Done, TypeOK
  <2>2. WriterInv' /\ QuietInv' /\ ReaderInv'
    BY <1>4 DEF TryReadEnd, Done, WriterInv, QuietInv, ReaderInv, TypeOK
  <2> QED BY <2>1, <2>2
<1>5. ASSUME NEW t \in Threads, NEW v \in Values, MayWrite, WriteBegin(t, v)
      PROVE  Inv'
  <2>1. TypeOK'
    BY <1>5 DEF WriteBegin, TypeOK, V, kUninitialized
  <2>2. Even(lock_) /\ 0 <= lock_ /\ lock_ \in Int
    BY <1>5 DEF MayWrite, QuietInv, TypeOK, kUninitialized
  <2>3. WriterInv'
    BY <1>5, <2>2 DEF WriteBegin, MayWrite, WriterInv, TypeOK
  <2>4. QuietInv'
    BY <1>5 DEF WriteBegin, QuietInv, TypeOK
  <2>5. ReaderInv'
    BY <1>5, <2>2 DEF WriteBegin, ReaderInv, TypeOK
  <2> QED BY <2>1, <2>3, <2>4, <2>5
<1>6. ASSUME NEW t \in Threads, NEW w \in Words, RelaxedCopyToAtomic(t, w)
      PROVE  Inv'
  <2>1. TypeOK'
    BY <1>6 DEF RelaxedCopyToAtomic, TypeOK
  <2>2. WriterInv'
    BY <1>6 DEF RelaxedCopyToAtomic, WriterInv, TypeOK
  <2>3. QuietInv'
    BY <1>6 DEF RelaxedCopyToAtomic, QuietInv
  <2>4. ReaderInv'
    BY <1>6 DEF RelaxedCopyToAtomic, ReaderInv, TypeOK
  <2> QED BY <2>1, <2>2, <2>3, <2>4
<1>7. ASSUME NEW t \in Threads, WriteEnd(t) PROVE Inv'
  <2>1. /\ Even(seq[t]) /\ 0 <= seq[t] /\ seq[t] \in Int /\ lock_ = seq[t] + 1
        /\ \A s \in Threads : st[s] = "writing" => s = t
        /\ \A w \in Words : words[w] = src[t]
    BY <1>7 DEF WriteEnd, WriterInv, TypeOK
  <2>2. Even(seq[t] + 2)
    BY <2>1, Parity
  <2>3. TypeOK'
    BY <1>7, <2>1 DEF WriteEnd, TypeOK, kUninitialized
  <2>4. WriterInv'
    BY <1>7, <2>1 DEF WriteEnd, WriterInv, TypeOK
  <2>5. QuietInv'
    BY <1>7, <2>1, <2>2 DEF WriteEnd, QuietInv
  <2>6. ReaderInv'
    BY <1>7, <2>1 DEF WriteEnd, ReaderInv, TypeOK
  <2> QED BY <2>3, <2>4, <2>5, <2>6
<1>8. CASE UNCHANGED vars
  BY <1>8 DEF vars, TypeOK, WriterInv, QuietInv, ReaderInv
<1> QED BY <1>1, <1>2, <1>3, <1>4, <1>5, <1>6, <1>7, <1>8 DEF Next

(* The invariant holds in every state of the lock.                         *)
THEOREM SequenceInvariant == Spec => []Inv
BY InitInv, NextInv, PTL DEF Spec

(* A step by which TryRead succeeds finds the current value in the copy.   *)
LEMMA ReadStep ==
    Inv /\ [Next]_vars =>
        \A t \in Threads : st[t] = "reading" /\ st'[t] = "read" => dst[t] = Whole(value)
<1> SUFFICES ASSUME Inv, [Next]_vars, NEW t \in Threads, st[t] = "reading", st'[t] = "read"
             PROVE  dst[t] = Whole(value)
  OBVIOUS
<1> USE DEF Inv
<1>1. left[t] = {} /\ lock_ = seq[t]
  BY DEF Next, vars, MarkInitialized, TryRead, RelaxedCopyFromAtomic, TryReadEnd, Done,
         WriteBegin, RelaxedCopyToAtomic, WriteEnd, TypeOK
<1>2. \A w \in Words : dst[t][w] = value
  BY <1>1 DEF ReaderInv
<1>3. dst[t] \in [Words -> V]
  BY DEF TypeOK
<1> QED BY <1>2, <1>3 DEF Whole

(* TryRead never returns a torn or an outdated value, whatever the number  *)
(* of threads, of words and of Writes that overlap it.                     *)
THEOREM ReadsWhole == Spec => NoTornRead
<1>1. Inv /\ [Next]_vars =>
          [\A t \in Threads :
             st[t] = "reading" /\ st'[t] = "read" => dst[t] = Whole(value)]_vars
  BY ReadStep
<1> QED BY <1>1, SequenceInvariant, PTL DEF Spec, NoTornRead
=============================================================================
