-------------------------- MODULE BranchReduction ---------------------------
(***************************************************************************)
(* Branching and ReducedBranching of branch_reduction.cc: an iteration     *)
(* that checks for three errors one after another, and one that checks     *)
(* once and gets a word of flags.  The counters that simulate the errors   *)
(* are globals; the harness runs each benchmark as often as it likes.      *)
(***************************************************************************)
EXTENDS Integers

CONSTANTS
    MaxChecks,         \* bound: iterations of one run
    MaxBranchRuns      \* bound: runs of the two benchmarks

ErrorA == 1
NoError == 0
Period == 10

VARIABLES
    branching,           \* which of the two benchmarks runs
    errorCounterA,
    errorCounterFlags,
    step,                \* where the iteration is
    errorFlags,          \* the local variable of ReducedBranching
    iteration,           \* iterations begun in this run
    handled,             \* the iterations in which handleErrorA ran
    hot,                 \* the iterations that took the hot path
    branchRuns           \* runs begun

vars == <<branching, errorCounterA, errorCounterFlags, step, errorFlags,
                iteration, handled, hot, branchRuns>>

Init ==
    /\ branching \in BOOLEAN
    /\ errorCounterA = 0 /\ errorCounterFlags = 0
    /\ step = "start"
    /\ errorFlags = NoError
    /\ iteration = 0
    /\ handled = {} /\ hot = {}
    /\ branchRuns = 0

Start_NoReset ==
    /\ step = "start"
    /\ step' = "loop"
    /\ iteration' = 0 /\ handled' = {} /\ hot' = {}
    /\ branchRuns' = branchRuns + 1
    /\ UNCHANGED <<branching, errorFlags, errorCounterA, errorCounterFlags>>

(* A run begins by resetting its counter. *)
Start ==
    /\ step = "start"
    /\ IF branching THEN errorCounterA' = 0 /\ UNCHANGED errorCounterFlags
                    ELSE errorCounterFlags' = 0 /\ UNCHANGED errorCounterA
    /\ step' = "loop"
    /\ iteration' = 0 /\ handled' = {} /\ hot' = {}
    /\ branchRuns' = branchRuns + 1
    /\ UNCHANGED <<branching, errorFlags>>

checkForErrorA ==
    /\ step = "loop" /\ branching /\ iteration < MaxChecks
    /\ errorCounterA' = errorCounterA + 1
    /\ iteration' = iteration + 1
    /\ step' = IF errorCounterA' % Period = 0 THEN "handleErrorA" ELSE "checkForErrorB"
    /\ UNCHANGED <<branching, errorCounterFlags, errorFlags, handled, hot, branchRuns>>

(* checkForErrorB and checkForErrorC return false. *)
checkForErrorB ==
    /\ step = "checkForErrorB"
    /\ step' = "checkForErrorC"
    /\ UNCHANGED <<branching, errorCounterA, errorCounterFlags, errorFlags,
                   iteration, handled, hot, branchRuns>>

checkForErrorC ==
    /\ step = "checkForErrorC"
    /\ step' = "executeHotpath"
    /\ UNCHANGED <<branching, errorCounterA, errorCounterFlags, errorFlags,
                   iteration, handled, hot, branchRuns>>

checkErrors ==
    /\ step = "loop" /\ ~branching /\ iteration < MaxChecks
    /\ errorCounterFlags' = errorCounterFlags + 1
    /\ iteration' = iteration + 1
    /\ errorFlags' = IF errorCounterFlags' % Period = 0 THEN ErrorA ELSE NoError
    /\ step' = IF errorFlags' = NoError THEN "executeHotpath" ELSE "HandleError"
    /\ UNCHANGED <<branching, errorCounterA, handled, hot, branchRuns>>

(* errorFlags & ErrorA is bit 0. *)
HandleError ==
    /\ step = "HandleError"
    /\ step' = IF errorFlags % 2 = 1 THEN "handleErrorA" ELSE "loop"
    /\ UNCHANGED <<branching, errorCounterA, errorCounterFlags, errorFlags,
                   iteration, handled, hot, branchRuns>>

handleErrorA ==
    /\ step = "handleErrorA"
    /\ handled' = handled \cup {iteration}
    /\ step' = "loop"
    /\ UNCHANGED <<branching, errorCounterA, errorCounterFlags, errorFlags,
                   iteration, hot, branchRuns>>

executeHotpath ==
    /\ step = "executeHotpath"
    /\ hot' = hot \cup {iteration}
    /\ step' = "loop"
    /\ UNCHANGED <<branching, errorCounterA, errorCounterFlags, errorFlags,
                   iteration, handled, branchRuns>>

(* The harness ends a run after any number of iterations. *)
EndRun ==
    /\ step = "loop" /\ branchRuns < MaxBranchRuns
    /\ step' = "start"
    /\ branching' \in BOOLEAN
    /\ UNCHANGED <<errorCounterA, errorCounterFlags, errorFlags, iteration,
                   handled, hot, branchRuns>>

Next ==
    \/ Start \/ checkForErrorA \/ checkForErrorB \/ checkForErrorC
    \/ checkErrors \/ HandleError \/ handleErrorA \/ executeHotpath \/ EndRun

Spec == Init /\ [][Next]_vars

Finished == step = "loop" /\ branchRuns = MaxBranchRuns /\ iteration = MaxChecks

-----------------------------------------------------------------------------
(***************************************************************************)
(* The two forms do the same work: after any number of iterations of any   *)
(* run of either, whatever ran before and wherever it stopped, the error   *)
(* has been handled in every tenth iteration ("Produce an error once every *)
(* 10 calls") and all the others, and only they, took the hot path.        *)
(***************************************************************************)
EveryTenth ==
    step = "loop" =>
        /\ handled = {k \in 1 .. iteration : k % 10 = 0}
        /\ hot = 1 .. iteration \ handled
=============================================================================
