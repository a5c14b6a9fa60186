-------------------------- MODULE LockFreeCounter --------------------------
(***************************************************************************)
(* LockFreeTest: one atomic fetch_add per iteration.  It is also what the  *)
(* lock-protected benchmarks must look like from outside.                  *)
(***************************************************************************)
EXTENDS BenchmarkFixture

(* counter.fetch_add(1, std::memory_order_relaxed) *)
fetch_add(t) ==
    /\ stage[t] = "loop"
    /\ counter' = counter + 1
    /\ EndIteration(t)

Init == FixtureInit

Next ==
    \/ Harness
    \/ \E t \in Threads : fetch_add(t)
    \/ Finished /\ UNCHANGED fixtureVars

Spec == Init /\ [][Next]_fixtureVars
=============================================================================
