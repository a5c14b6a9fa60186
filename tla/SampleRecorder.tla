---------------------------- MODULE SampleRecorder --------------------------
(***************************************************************************)
(* profiling_internal::SampleRecorder: samples are pushed on the lock-free *)
(* list all_ once and are never freed; unregistered ones wait on the       *)
(* graveyard's list to be resurrected.  The dispose callback of PushDead   *)
(* is the client's and is left out.                                        *)
(***************************************************************************)
EXTENDS Integers, Sequences, FiniteSets, FiniteSetsExt

CONSTANTS
    Clients,    \* threads that register and unregister a sample
    Rounds,     \* how many times each does
    Readers,    \* threads that call Iterate
    Limits,     \* the arguments of SetMaxSamples
    None        \* nullptr, and nobody

(* A sample is numbered in the order of allocation; 0 is graveyard_. *)
graveyard_ == 0
Samples == 1..(Rounds * Cardinality(Clients))

VARIABLES
    max_samples_, size_estimate_, dropped_samples_,
    allocated,
    all_, next,             \* the list of all samples
    dead,                   \* the dead pointers, of the graveyard's too
    prepared,               \* how often each sample was prepared
    init_mu,                \* who holds each sample's mutex
    pc, sample,             \* of each thread
    rounds

lists == <<allocated, all_, next, dead, prepared, init_mu>>
vars == <<max_samples_, size_estimate_, dropped_samples_, lists, pc, sample, rounds>>

Threads == Clients \cup Readers
Nodes == Samples \cup {graveyard_}

Init ==
    /\ max_samples_ \in Limits /\ size_estimate_ = 0 /\ dropped_samples_ = 0
    /\ allocated = 0
    /\ all_ = None /\ next = [s \in Samples |-> None]
    /\ dead = [s \in Nodes |-> IF s = graveyard_ THEN graveyard_ ELSE None]
    /\ prepared = [s \in Samples |-> 0]
    /\ init_mu = [s \in Nodes |-> None]
    /\ pc = [t \in Threads |-> "idle"]
    /\ sample = [t \in Threads |-> None]
    /\ rounds = [c \in Clients |-> Rounds]

Goto(t, label) == pc' = [pc EXCEPT ![t] = label]

(* Register: the estimate counts the new sample first, and a sample beyond *)
(* the limit is dropped.                                                   *)
Register(c) ==
    /\ pc[c] = "idle" /\ rounds[c] > 0
    /\ size_estimate_' = size_estimate_ + 1
    /\ rounds' = [rounds EXCEPT ![c] = @ - 1]
    /\ Goto(c, IF size_estimate_ > max_samples_ THEN "drop" ELSE "pop")
    /\ UNCHANGED <<max_samples_, dropped_samples_, lists, sample>>

Drop(c) ==
    /\ pc[c] = "drop"
    /\ size_estimate_' = size_estimate_ - 1
    /\ dropped_samples_' = dropped_samples_ + 1
    /\ Goto(c, "idle")
    /\ UNCHANGED <<max_samples_, lists, sample, rounds>>

(* The graveyard's mutex, in PopDead and PushDead *)
LockGraveyard(c) ==
    /\ pc[c] \in {"pop", "push"} /\ init_mu[graveyard_] = None
    /\ init_mu' = [init_mu EXCEPT ![graveyard_] = c]
    /\ Goto(c, IF pc[c] = "pop" THEN "popping" ELSE "pushing")
    /\ UNCHANGED <<max_samples_, size_estimate_, dropped_samples_, allocated, all_, next, dead,
                   prepared, sample, rounds>>

(* PopDead: the sample's mutex is taken for the step that revives it. *)
PopDead(c) ==
    LET s == dead[graveyard_]
    IN  /\ pc[c] = "popping"
        /\ IF s = graveyard_
           THEN Goto(c, "new") /\ UNCHANGED <<dead, prepared, sample>>
           ELSE /\ init_mu[s] = None
                /\ dead' = [dead EXCEPT ![graveyard_] = dead[s], ![s] = None]
                /\ prepared' = [prepared EXCEPT ![s] = @ + 1]
                /\ sample' = [sample EXCEPT ![c] = s]
                /\ Goto(c, "registered")
        /\ init_mu' = [init_mu EXCEPT ![graveyard_] = None]
        /\ UNCHANGED <<max_samples_, size_estimate_, dropped_samples_, allocated, all_, next, rounds>>

(* Resurrection failed: a new sample, pushed with a CAS *)
PushNew(c) ==
    LET s == allocated + 1
    IN  /\ pc[c] = "new"
        /\ allocated' = s
        /\ prepared' = [prepared EXCEPT ![s] = 1]
        /\ next' = [next EXCEPT ![s] = all_]
        /\ all_' = s
        /\ sample' = [sample EXCEPT ![c] = s]
        /\ Goto(c, "registered")
        /\ UNCHANGED <<max_samples_, size_estimate_, dropped_samples_, dead, init_mu, rounds>>

(* Unregister: PushDead, then the estimate; the mutant counts the sample   *)
(* off before PushDead already.                                            *)
Unregister_CountFirst(c) ==
    /\ pc[c] = "registered"
    /\ size_estimate_' = size_estimate_ - 1
    /\ Goto(c, "push")
    /\ UNCHANGED <<max_samples_, dropped_samples_, lists, sample, rounds>>

Unregister(c) ==
    /\ pc[c] = "registered"
    /\ Goto(c, "push")
    /\ UNCHANGED <<max_samples_, size_estimate_, dropped_samples_, lists, sample, rounds>>

PushDead(c) ==
    LET s == sample[c]
    IN  /\ pc[c] = "pushing" /\ init_mu[s] = None
        /\ dead' = [dead EXCEPT ![s] = dead[graveyard_], ![graveyard_] = s]
        /\ init_mu' = [init_mu EXCEPT ![graveyard_] = None]
        /\ sample' = [sample EXCEPT ![c] = None]
        /\ Goto(c, "uncount")
        /\ UNCHANGED <<max_samples_, size_estimate_, dropped_samples_, allocated, all_, next,
                       prepared, rounds>>

Uncount(c) ==
    /\ pc[c] = "uncount"
    /\ size_estimate_' = size_estimate_ - 1
    /\ Goto(c, "idle")
    /\ UNCHANGED <<max_samples_, dropped_samples_, lists, sample, rounds>>

-----------------------------------------------------------------------------
At(r, s) == sample' = [sample EXCEPT ![r] = s] /\ Goto(r, IF s = None THEN "idle" ELSE "visit")

(* Iterate: every sample of all_ in turn, under its mutex *)
Iterate(r) ==
    /\ pc[r] = "idle"
    /\ At(r, all_)
    /\ UNCHANGED <<max_samples_, size_estimate_, dropped_samples_, lists, rounds>>

(* A sample that is not dead is given to the callback; the mutant does not *)
(* hold the mutex while the callback runs.                                 *)
Visit_Unlocked(r) ==
    /\ pc[r] = "visit" /\ init_mu[sample[r]] = None
    /\ Goto(r, IF dead[sample[r]] = None THEN "callback" ELSE "advance")
    /\ UNCHANGED <<max_samples_, size_estimate_, dropped_samples_, lists, sample, rounds>>

Visit(r) ==
    /\ pc[r] = "visit" /\ init_mu[sample[r]] = None
    /\ init_mu' = [init_mu EXCEPT ![sample[r]] = r]
    /\ Goto(r, IF dead[sample[r]] = None THEN "callback" ELSE "advance")
    /\ UNCHANGED <<max_samples_, size_estimate_, dropped_samples_, allocated, all_, next, dead,
                   prepared, sample, rounds>>

Advance(r) ==
    /\ pc[r] \in {"callback", "advance"}
    /\ init_mu' = [init_mu EXCEPT ![sample[r]] = None]
    /\ At(r, next[sample[r]])
    /\ UNCHANGED <<max_samples_, size_estimate_, dropped_samples_, allocated, all_, next, dead,
                   prepared, rounds>>

SetMaxSamples(m) ==
    /\ m \in Limits
    /\ max_samples_' = m
    /\ UNCHANGED <<size_estimate_, dropped_samples_, lists, pc, sample, rounds>>

ClientStep(c) ==
    \/ Register(c) \/ Drop(c) \/ LockGraveyard(c) \/ PopDead(c) \/ PushNew(c)
    \/ Unregister(c) \/ PushDead(c) \/ Uncount(c)

ReaderStep(r) == Iterate(r) \/ Visit(r) \/ Advance(r)

Next ==
    \/ \E c \in Clients : ClientStep(c)
    \/ \E r \in Readers : ReaderStep(r)
    \/ \E m \in Limits : SetMaxSamples(m)

Spec == Init /\ [][Next]_vars

-----------------------------------------------------------------------------
(* Although samples are never freed, there are never more of them than the *)
(* limit allows to be registered at once: size_estimate_ counts a sample   *)
(* from before PopDead until after PushDead.                               *)
SamplesBounded ==
    allocated + Cardinality({c \in Clients : pc[c] = "new"}) <= Max(Limits) + 1

(* The sample Iterate's callback looks at is neither resurrected for       *)
(* another client nor put on the graveyard meanwhile.                      *)
VisitedStays ==
    \A r \in Readers :
        LET s == sample[r]
        IN  pc[r] = "callback" /\ pc'[r] = "callback" =>
                prepared'[s] = prepared[s] /\ dead'[s] = None
VisitedUnchanged == [][VisitedStays]_vars
=============================================================================
