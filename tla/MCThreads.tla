----------------------------- MODULE MCThreads ------------------------------
(***************************************************************************)
(* The multi-threaded programs around plain counters and queues, for TLC.  *)
(* Each is a program of its own: a behaviour runs the spin lock, the       *)
(* queue or the counters, and the others stay in an initial state.         *)
(***************************************************************************)
EXTENDS SpinLock, Sequences

CONSTANTS Sizes, MaxItems, Workers, Elements

VARIABLES
    group,
    capacity_, data_, head_, tail_, ppc, cpc, elem, added, polled,
    direct, total, cell, worker, done, main, iteration

queueVars == <<capacity_, data_, head_, tail_, ppc, cpc, elem, added, polled>>
counterVars == <<direct, total, cell, worker, done, main, iteration>>
allVars == <<group, vars, queueVars, counterVars>>

Queue == INSTANCE NaiveQueue
Counters == INSTANCE CacheLineCounters WITH pc <- worker

MCInit ==
    /\ group \in {"lock", "queue", "counters"}
    /\ Init /\ (group # "lock" => counter = 0 /\ iterations = 1)
    /\ Queue!Init /\ (group # "queue" => capacity_ = 2)
    /\ Counters!Init /\ (group # "counters" => direct)

MCNext ==
    \/ group = "lock" /\ Next /\ UNCHANGED <<group, queueVars, counterVars>>
    \/ group = "queue" /\ Queue!Next /\ UNCHANGED <<group, vars, counterVars>>
    \/ group = "counters" /\ Counters!Next /\ UNCHANGED <<group, vars, queueVars>>

MCSpec ==
    /\ MCInit /\ [][MCNext]_allVars
    /\ \A t \in Threads : WF_allVars(group = "lock" /\ Body(t) /\ UNCHANGED <<group, queueVars, counterVars>>)
    /\ WF_allVars(group = "queue" /\ Queue!produce /\ UNCHANGED <<group, vars, counterVars>>)
    /\ WF_allVars(group = "queue" /\ Queue!consume /\ UNCHANGED <<group, vars, counterVars>>)

(* The counts of the benchmarks are exact after every run: of the threads  *)
(* that increment one counter under the spin lock, and of the workers that *)
(* share an atomic or add up private cells.  The spin lock's lock_ is true *)
(* while one thread, and no other, works on the counter.                   *)
CountsExact ==
    /\ group = "lock" => FinalCount /\ LockInv
    /\ group = "counters" => Counters!TotalAfterJoin

(* Queue::add and Queue::poll together are a bounded FIFO: NaiveQueue.     *)
ImplementsFifo == Queue!ImplementsFifo

(* Every thread gets through its iterations with the spin lock, and every  *)
(* element that the producer has is added and polled.                      *)
WorkersFinish ==
    /\ group = "lock" => AllFinish
    /\ group = "queue" => Queue!AllPolled
=============================================================================
