---------------------------- MODULE MCSequential ----------------------------
(***************************************************************************)
(* The single-threaded programs, for TLC: the dictionaries, the spell      *)
(* checker and the benchmarks of loops, lists and branches.  A behaviour   *)
(* runs one of the six groups.                                             *)
(***************************************************************************)
EXTENDS Integers, Sequences

CONSTANTS Sizes, WideSizes, FixedSizes, MaxPasses, Lengths, Dimensions, Chunks,
          MaxSums, NODE_COUNT, MaxWalks, MaxChecks, MaxBranchRuns,
          Words, Hashes, Width, MaxWords, NoWord, Entries, MaxText

(* A word in small letters, and one that begins with a capital *)
MCEntries == {<<"a">>, <<"A", "a">>}

VARIABLES
    group,
    version, hash, words, hashTable_, size_, call, inserted, idx, attempts,
    word, asked, found,
    dict, text, lineNo, pc, pos, start, errors, num_errors,
    pair, n, large, passes, turn, pass, loop, i, mem, fault,
    bench, size, cols, chunk, outer, inner, added, stray, sums,
    next, data, g_list_head, at, prefetching, indices, current, count,
    walked, walks, prefetched,
    branching, errorCounterA, errorCounterFlags, step, errorFlags, iteration,
    handled, hot, branchRuns

Table == INSTANCE Dictionary WITH pc <- call
Checker == INSTANCE SpellChecker WITH next <- pos
Loops == INSTANCE ArrayLoops
Sums == INSTANCE ArraySums
List == INSTANCE ScrambledList
Branches == INSTANCE BranchReduction

tableVars == <<version, hash, words, hashTable_, size_, call, inserted, idx,
               attempts, word, asked, found>>
checkerVars == <<dict, text, lineNo, pc, pos, start, errors, num_errors>>
loopVars == <<pair, n, large, passes, turn, pass, loop, i, mem, fault>>
sumVars == <<bench, size, cols, chunk, outer, inner, added, stray, sums>>
listVars == <<next, data, g_list_head, at, prefetching, indices, current,
              count, walked, walks, prefetched>>
branchVars == <<branching, errorCounterA, errorCounterFlags, step, errorFlags,
                iteration, handled, hot, branchRuns>>

(* The variables of a group that does not run; the table, whose refinement *)
(* is checked in every behaviour, is in an initial state.                  *)
NoTable == Table!Init /\ version = "v3" /\ words = <<>> /\ hash = [w \in Words |-> 0]
NoChecker ==
    /\ dict = 0 /\ text = 0 /\ lineNo = 0 /\ pc = "idle" /\ pos = 0 /\ start = 0
    /\ errors = 0 /\ num_errors = 0
NoLoops ==
    /\ pair = 0 /\ n = 0 /\ large = 0 /\ passes = 0 /\ turn = 0 /\ pass = 0
    /\ loop = 0 /\ i = 0 /\ mem = 0 /\ fault = 0
NoSums ==
    /\ bench = 0 /\ size = 0 /\ cols = 0 /\ chunk = 0 /\ outer = 0
    /\ inner = 0 /\ added = 0 /\ stray = 0 /\ sums = 0
NoList ==
    /\ next = 0 /\ data = 0 /\ g_list_head = 0 /\ at = 0 /\ prefetching = 0
    /\ indices = 0 /\ current = 0 /\ count = 0 /\ walked = 0 /\ walks = 0
    /\ prefetched = 0
NoBranches ==
    /\ branching = 0 /\ errorCounterA = 0 /\ errorCounterFlags = 0
    /\ step = 0 /\ errorFlags = 0 /\ iteration = 0 /\ handled = 0 /\ hot = 0
    /\ branchRuns = 0

Init ==
    /\ group \in {"table", "checker", "loops", "sums", "list", "branches"}
    /\ IF group = "table" THEN Table!Init ELSE NoTable
    /\ IF group = "checker" THEN Checker!Init ELSE NoChecker
    /\ IF group = "loops" THEN Loops!Init ELSE NoLoops
    /\ IF group = "sums" THEN Sums!Init ELSE NoSums
    /\ IF group = "list" THEN List!Init ELSE NoList
    /\ IF group = "branches" THEN Branches!Init ELSE NoBranches

vars == <<group, tableVars, checkerVars, loopVars, sumVars, listVars, branchVars>>

(* The groups but one *)
BesideTable == <<group, checkerVars, loopVars, sumVars, listVars, branchVars>>
BesideChecker == <<group, tableVars, loopVars, sumVars, listVars, branchVars>>

Finished ==
    \/ group = "loops" /\ Loops!Finished
    \/ group = "sums" /\ Sums!Finished
    \/ group = "list" /\ List!Finished
    \/ group = "branches" /\ Branches!Finished

Next ==
    \/ group = "table" /\ Table!Next /\ UNCHANGED BesideTable
    \/ group = "checker" /\ Checker!Next /\ UNCHANGED BesideChecker
    \/ /\ group = "loops" /\ Loops!Next
       /\ UNCHANGED <<group, tableVars, checkerVars, sumVars, listVars, branchVars>>
    \/ /\ group = "sums" /\ Sums!Next
       /\ UNCHANGED <<group, tableVars, checkerVars, loopVars, listVars, branchVars>>
    \/ /\ group = "list" /\ List!Next
       /\ UNCHANGED <<group, tableVars, checkerVars, loopVars, sumVars, branchVars>>
    \/ /\ group = "branches" /\ Branches!Next
       /\ UNCHANGED <<group, tableVars, checkerVars, loopVars, sumVars, listVars>>
    \/ Finished /\ UNCHANGED vars

(* Calls run; nobody has to make one. *)
Spec ==
    /\ Init /\ [][Next]_vars
    /\ WF_vars(group = "table" /\ Table!Construct /\ UNCHANGED BesideTable)
    /\ WF_vars(group = "table" /\ Table!Lookup /\ UNCHANGED BesideTable)
    /\ WF_vars(group = "checker" /\ Checker!Step /\ UNCHANGED BesideChecker)

-----------------------------------------------------------------------------
(* No cell outside the dictionary's table is looked at (the table v4 makes *)
(* of no words included) and no free cell lies before a word; no vector or *)
(* unrolled loop faults; and no sum, and no prefetch for one, leaves its   *)
(* array.                                                                  *)
NoStrayAccess ==
    /\ group = "table" => Table!InBounds /\ Table!NoGaps
    /\ group = "loops" => Loops!NoFault
    /\ group = "sums" => Sums!NoStray

(* in_dictionary finds the constructor's words and no other: Dictionary.   *)
ImplementsSet == Table!ImplementsSet

(* Only misspelled words are counted as errors and, once the text is read, *)
(* each as often as it occurs: SpellChecker.                               *)
ErrorsExact == group = "checker" => Checker!ErrorsExact /\ Checker!ErrorsAreMisspelled

(* Benchmarks that are compared with each other do the same: fused and     *)
(* split, scalar and vector loops leave the same arrays, and both ways to  *)
(* branch handle an error in every tenth iteration.                        *)
PairsAgree ==
    /\ group = "loops" => Loops!SameResults
    /\ group = "branches" => Branches!EveryTenth

(* Every order of summation adds every element once, and a walk of the     *)
(* scrambled list, whose prefetches run ahead, meets every node once.      *)
EachVisitedOnce ==
    /\ group = "sums" => Sums!EachAddedOnce
    /\ group = "list" => List!WalkInOrder /\ List!PrefetchedAhead

(* Every insert and every in_dictionary returns, and the spell checker     *)
(* gets through its text.                                                  *)
ProgramsReturn ==
    /\ group = "table" => Table!CallsReturn
    /\ group = "checker" => Checker!Finishes
=============================================================================
