---------------------------- MODULE SequenceLock ----------------------------
(***************************************************************************)
(* absl::flags_internal::SequenceLock and the words it protects.  The      *)
(* fences order the accesses of lock_ and those of the words, not the      *)
(* words among themselves: they are copied in any order.  Write calls are  *)
(* synchronised by the caller.                                             *)
(***************************************************************************)
EXTENDS Integers

CONSTANTS
    Threads,
    Words,      \* the words of the buffer
    Values,     \* what is stored: a value is found in every word
    Default     \* the value the buffer starts with

VARIABLES
    lock_,      \* the sequence counter
    words,      \* the buffer
    value,      \* the value of the last Write that has ended
    st,         \* what each thread does with the lock
    seq,        \* seq_before or orig_seq
    left,       \* the words it has still to copy
    dst,        \* what it has read
    src         \* what it writes

vars == <<lock_, words, value, st, seq, left, dst, src>>

kUninitialized == -1

Whole(v) == [w \in Words |-> v]

Init ==
    /\ lock_ = kUninitialized
    /\ words = Whole(Default) /\ value = Default
    /\ st = [t \in Threads |-> "idle"]
    /\ seq = [t \in Threads |-> 0]
    /\ left = [t \in Threads |-> {}]
    /\ dst = [t \in Threads |-> Whole(Default)]
    /\ src = [t \in Threads |-> Default]

MarkInitialized ==
    /\ lock_ = kUninitialized
    /\ lock_' = 0
    /\ UNCHANGED <<words, value, st, seq, left, dst, src>>

(* TryRead: the first load of lock_; an odd value is refused.  The mutant  *)
(* reads on.                                                               *)
TryRead_AnySeq(t) ==
    /\ st[t] = "idle"
    /\ seq' = [seq EXCEPT ![t] = lock_]
    /\ left' = [left EXCEPT ![t] = Words]
    /\ st' = [st EXCEPT ![t] = "reading"]
    /\ UNCHANGED <<lock_, words, value, dst, src>>

TryRead(t) ==
    /\ st[t] = "idle"
    /\ seq' = [seq EXCEPT ![t] = lock_]
    /\ left' = [left EXCEPT ![t] = Words]
    /\ st' = [st EXCEPT ![t] = IF lock_ % 2 = 1 THEN "failed" ELSE "reading"]
    /\ UNCHANGED <<lock_, words, value, dst, src>>

RelaxedCopyFromAtomic(t, w) ==
    /\ st[t] = "reading" /\ w \in left[t]
    /\ dst' = [dst EXCEPT ![t][w] = words[w]]
    /\ left' = [left EXCEPT ![t] = @ \ {w}]
    /\ UNCHANGED <<lock_, words, value, st, seq, src>>

(* TryRead: the second load; the mutant does without.                      *)
TryReadEnd_Trusting(t) ==
    /\ st[t] = "reading" /\ left[t] = {}
    /\ st' = [st EXCEPT ![t] = "read"]
    /\ UNCHANGED <<lock_, words, value, seq, left, dst, src>>

TryReadEnd(t) ==
    /\ st[t] = "reading" /\ left[t] = {}
    /\ st' = [st EXCEPT ![t] = IF lock_ = seq[t] THEN "read" ELSE "failed"]
    /\ UNCHANGED <<lock_, words, value, seq, left, dst, src>>

(* TryRead has returned, true or false. *)
Done(t) ==
    /\ st[t] \in {"read", "failed"}
    /\ st' = [st EXCEPT ![t] = "idle"]
    /\ UNCHANGED <<lock_, words, value, seq, left, dst, src>>

(* No other thread is in Write, and the flag has been initialised. *)
MayWrite == lock_ # kUninitialized /\ \A s \in Threads : st[s] # "writing"

WriteBegin(t, v) ==
    /\ st[t] = "idle"
    /\ seq' = [seq EXCEPT ![t] = lock_]
    /\ lock_' = lock_ + 1
    /\ left' = [left EXCEPT ![t] = Words]
    /\ src' = [src EXCEPT ![t] = v]
    /\ st' = [st EXCEPT ![t] = "writing"]
    /\ UNCHANGED <<words, value, dst>>

RelaxedCopyToAtomic(t, w) ==
    /\ st[t] = "writing" /\ w \in left[t]
    /\ words' = [words EXCEPT ![w] = src[t]]
    /\ left' = [left EXCEPT ![t] = @ \ {w}]
    /\ UNCHANGED <<lock_, value, st, seq, dst, src>>

WriteEnd(t) ==
    /\ st[t] = "writing" /\ left[t] = {}
    /\ lock_' = seq[t] + 2
    /\ st' = [st EXCEPT ![t] = "idle"]
    /\ value' = src[t]
    /\ UNCHANGED <<words, seq, left, dst, src>>

Next ==
    \/ MarkInitialized
    \/ \E t \in Threads :
          \/ TryRead(t) \/ TryReadEnd(t) \/ Done(t) \/ WriteEnd(t)
          \/ \E w \in Words : RelaxedCopyFromAtomic(t, w) \/ RelaxedCopyToAtomic(t, w)
          \/ \E v \in Values : MayWrite /\ WriteBegin(t, v)

Spec == Init /\ [][Next]_vars

-----------------------------------------------------------------------------
(* A TryRead that succeeds, while Write may run at any point of it, has    *)
(* copied the value of one Write, the one that is current when it returns. *)
NoTornRead ==
    [][\A t \in Threads :
          st[t] = "reading" /\ st'[t] = "read" => dst[t] = Whole(value)]_vars
=============================================================================
