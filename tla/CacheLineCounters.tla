------------------------- MODULE CacheLineCounters -------------------------
(***************************************************************************)
(* The counting benchmarks of design_patterns/cache_line/cache_line.cc.    *)
(* In every iteration the benchmark's thread resets the total, spawns the  *)
(* workers and joins them.  The workers either increment the shared atomic *)
(* themselves (BM_DirectSharing) or count in cells of their own, add the   *)
(* cell to the total once and clear it for the next iteration              *)
(* (BM_FalseSharing, BM_NoSharing).                                        *)
(***************************************************************************)
EXTENDS Integers, FiniteSets

CONSTANTS
    Workers,         \* num_threads workers
    Elements,        \* elements_per_thread
    MaxIterations    \* bound: iterations of the benchmark

VARIABLES
    direct,       \* BM_DirectSharing runs, not one of the other two
    total,        \* counter, or final_sum
    cell,         \* counters.counters[i].value
    pc,           \* where each worker is
    done,         \* elements each worker has counted
    main,         \* where the benchmark's thread is
    iteration     \* iterations begun

vars == <<direct, total, cell, pc, done, main, iteration>>

Init ==
    /\ direct \in BOOLEAN
    /\ total = 0
    /\ cell = [w \in Workers |-> 0]
    /\ pc = [w \in Workers |-> "none"]
    /\ done = [w \in Workers |-> 0]
    /\ main = "between"
    /\ iteration = 0

(* for (auto _ : state): the total is reset before any worker exists. *)
Begin ==
    /\ main = "between"
    /\ iteration < MaxIterations
    /\ total' = 0
    /\ iteration' = iteration + 1
    /\ main' = "spawn"
    /\ UNCHANGED <<direct, cell, pc, done>>

(* threads.emplace_back(work, i); the last one ends the loop. *)
Spawn(w) ==
    /\ main = "spawn"
    /\ pc[w] = "none"
    /\ pc' = [pc EXCEPT ![w] = "count"]
    /\ done' = [done EXCEPT ![w] = 0]
    /\ main' = IF \A v \in Workers : pc'[v] # "none" THEN "join" ELSE "spawn"
    /\ UNCHANGED <<direct, total, cell, iteration>>

(* One element: the shared atomic, or the worker's own cell. *)
Count(w) ==
    /\ pc[w] = "count"
    /\ done[w] < Elements
    /\ done' = [done EXCEPT ![w] = @ + 1]
    /\ IF direct THEN total' = total + 1 /\ UNCHANGED cell
                 ELSE cell' = [cell EXCEPT ![w] = @ + 1] /\ UNCHANGED total
    /\ UNCHANGED <<direct, pc, main, iteration>>

(* BM_DirectSharing: the worker ends with its loop. *)
End(w) ==
    /\ direct
    /\ pc[w] = "count"
    /\ done[w] = Elements
    /\ pc' = [pc EXCEPT ![w] = "ended"]
    /\ UNCHANGED <<direct, total, cell, done, main, iteration>>

(* After its loop the worker adds its cell: final_sum.fetch_add(...). *)
AddCell(w) ==
    /\ ~direct
    /\ pc[w] = "count"
    /\ done[w] = Elements
    /\ total' = total + cell[w]
    /\ pc' = [pc EXCEPT ![w] = "clear"]
    /\ UNCHANGED <<direct, cell, done, main, iteration>>

KeptCell(w) == cell[w]

ClearedCell(w) == 0

(* The worker clears its cell and ends. *)
Clear(w) ==
    /\ pc[w] = "clear"
    /\ cell' = [cell EXCEPT ![w] = ClearedCell(w)]
    /\ pc' = [pc EXCEPT ![w] = "ended"]
    /\ UNCHANGED <<direct, total, done, main, iteration>>

(* thread.join() for every worker *)
Join ==
    /\ main = "join"
    /\ \A w \in Workers : pc[w] = "ended"
    /\ pc' = [w \in Workers |-> "none"]
    /\ main' = "between"
    /\ UNCHANGED <<direct, total, cell, done, iteration>>

Work(w) == Count(w) \/ End(w) \/ AddCell(w) \/ Clear(w)

Next ==
    \/ Begin
    \/ \E w \in Workers : Spawn(w) \/ Work(w)
    \/ Join
    \/ main = "between" /\ iteration = MaxIterations /\ UNCHANGED vars

Spec == Init /\ [][Next]_vars

-----------------------------------------------------------------------------
(***************************************************************************)
(* After the joins of every iteration, not just the first, the total is    *)
(* the number of elements of all workers: the reset of the total, the      *)
(* private cells and their clearing leave nothing over and lose nothing.   *)
(***************************************************************************)
TotalAfterJoin ==
    main = "between" /\ iteration > 0
        => total = Cardinality(Workers) * Elements
=============================================================================
