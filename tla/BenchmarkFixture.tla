-------------------------- MODULE BenchmarkFixture --------------------------
(***************************************************************************)
(* The fixtures of design_patterns/lock_free/lock_free.cc and the harness  *)
(* that drives them.  Google Benchmark runs a registered benchmark several *)
(* times on the same fixture object, with iteration counts of its own      *)
(* choice; in each run every thread calls SetUp, all threads meet at a     *)
(* barrier, and each goes through its iterations of the loop body.         *)
(***************************************************************************)
EXTENDS Integers, FiniteSets

CONSTANTS
    Threads,         \* the threads of one run, ->Threads(1), (2) and (4)
    NoThread,        \* stands for no thread where a mutex is free
    MaxIterations,   \* bound: iterations of one thread in one run
    MaxRuns          \* bound: runs of the benchmark

ASSUME FixtureAssumption ==
    /\ IsFiniteSet(Threads) /\ Threads # {}
    /\ MaxIterations \in Nat \ {0}
    /\ MaxRuns \in Nat \ {0}
    /\ NoThread \notin Threads

VARIABLES
    counter,      \* the member every thread increments
    stage,        \* where each thread is in the run
    left,         \* iterations each thread still has to finish
    iterations,   \* iterations per thread of this run
    runs          \* runs begun

fixtureVars == <<counter, stage, left, iterations, runs>>

Stages == {"setup", "ready", "loop", "done"}

(* A fixture object is created with its counter uninitialised. *)
FixtureInit ==
    /\ counter \in {-1, 0}
    /\ stage = [t \in Threads |-> "setup"]
    /\ left = [t \in Threads |-> 0]
    /\ iterations \in 1 .. MaxIterations
    /\ runs = 1

SetUp_NoReset(t) ==
    /\ stage[t] = "setup"
    /\ stage' = [stage EXCEPT ![t] = "ready"]
    /\ UNCHANGED <<counter, left, iterations, runs>>

(* Fixture::SetUp, by every thread. *)
SetUp(t) ==
    /\ stage[t] = "setup"
    /\ counter' = 0
    /\ stage' = [stage EXCEPT ![t] = "ready"]
    /\ UNCHANGED <<left, iterations, runs>>

(* The harness releases the threads together, after every SetUp. *)
StartBarrier ==
    /\ \A t \in Threads : stage[t] = "ready"
    /\ stage' = [t \in Threads |-> "loop"]
    /\ left' = [t \in Threads |-> iterations]
    /\ UNCHANGED <<counter, iterations, runs>>

(* The end of one iteration of  for (auto _ : state). *)
EndIteration(t) ==
    /\ left' = [left EXCEPT ![t] = @ - 1]
    /\ stage' = [stage EXCEPT ![t] = IF left[t] = 1 THEN "done" ELSE "loop"]
    /\ UNCHANGED <<iterations, runs>>

(* The harness runs the benchmark again, with another iteration count. *)
NextRun ==
    /\ \A t \in Threads : stage[t] = "done"
    /\ runs < MaxRuns
    /\ runs' = runs + 1
    /\ iterations' \in 1 .. MaxIterations
    /\ stage' = [t \in Threads |-> "setup"]
    /\ UNCHANGED <<counter, left>>

Harness == (\E t \in Threads : SetUp(t)) \/ StartBarrier \/ NextRun

(* The last run is over. *)
Finished ==
    /\ \A t \in Threads : stage[t] = "done"
    /\ runs = MaxRuns

FixtureTypeOK ==
    /\ counter \in Int
    /\ stage \in [Threads -> Stages]
    /\ left \in [Threads -> 0 .. MaxIterations]
    /\ iterations \in 1 .. MaxIterations
    /\ runs \in 1 .. MaxRuns
    /\ \A t \in Threads : stage[t] = "loop" => left[t] > 0

(* The barrier separates the threads' SetUp from everyone's loop.          *)
BarrierInv ==
    \A t, u \in Threads :
        stage[t] \in {"setup", "ready"} => stage[u] \in {"setup", "ready"}

(***************************************************************************)
(* No increment is lost or made twice in any run, the repeated SetUp       *)
(* included: with every thread through its loop, the counter is the number *)
(* of iterations of all threads.                                           *)
(***************************************************************************)
FinalCount ==
    (\A t \in Threads : stage[t] = "done")
        => counter = Cardinality(Threads) * iterations

(* Every thread gets through its iterations, whoever else competes.        *)
AllFinish == \A t \in Threads : (stage[t] = "loop") ~> (stage[t] = "done")
=============================================================================
