----------------------------- MODULE ArraySums ------------------------------
(***************************************************************************)
(* The benchmarks that add up an array in different orders: with and       *)
(* without prefetching, a matrix by rows and by columns (prefetching.cc),  *)
(* a sum of indices plain and unrolled (loop_unrolling.cc), and a random   *)
(* chunk in random order (test.cc).  One step is one iteration of the      *)
(* inner loop.  Which elements have been added stands for the sum.         *)
(***************************************************************************)
EXTENDS Integers, Sequences, SequencesExt

CONSTANTS
    Lengths,       \* the sizes of NoPrefetch and WithPrefetch
    Dimensions,    \* the values of ROWS and of COLS
    Chunks,        \* the values of chunk_size
    MaxSums        \* bound: passes of  for (auto _ : state)

VARIABLES
    bench,     \* the benchmark
    size,      \* elements of its array
    cols,      \* COLS
    chunk,     \* start, and the shuffled indices
    outer,     \* the outer loop's variable
    inner,     \* the inner loop's variable
    added,     \* how often each element has been added in this pass
    stray,     \* an address outside the array was formed
    sums       \* passes begun

vars == <<bench, size, cols, chunk, outer, inner, added, stray, sums>>

prefetch_distance == 10

rows == size \div cols

(* The draws of one pass of BM_Chunk_Memory_Access: dist(engine), between  *)
(* 0 and N - chunk_size - 1, and the shuffled indices 0 .. chunk_size - 1. *)
Draws(length) ==
    [start : 0 .. size - length - 1,
     indices : {p \in [1 .. length -> 0 .. length - 1] : IsInjective(p)}]

NoDraw == [start |-> 0, indices |-> <<>>]

(* The bounds of the two loops, and the step of the inner one. *)
OuterBound ==
    CASE bench = "BM_Matrix_Row_Major" -> rows
      [] bench = "BM_Matrix_Col_Major" -> cols
      [] OTHER -> 1
InnerBound ==
    CASE bench = "BM_Matrix_Row_Major" -> cols
      [] bench = "BM_Matrix_Col_Major" -> rows
      [] bench = "BM_Chunk_Memory_Access" -> Len(chunk.indices)
      [] OTHER -> size
Step == IF bench = "BM_LoopWithUnrolling" THEN 8 ELSE 1

RowMajor == {outer * cols + inner}
ColMajor == {inner * cols + outer}
Unrolled == inner .. inner + 7
Chunk == {chunk.start + chunk.indices[inner + 1]}

(* The elements one iteration adds. *)
Adds ==
    CASE bench = "BM_Matrix_Row_Major" -> RowMajor
      [] bench = "BM_Matrix_Col_Major" -> ColMajor
      [] bench = "BM_LoopWithUnrolling" -> Unrolled
      [] bench = "BM_Chunk_Memory_Access" -> Chunk
      [] OTHER -> {inner}

Prefetches_Always ==
    IF bench = "WithPrefetch" THEN {inner + prefetch_distance} ELSE {}

(* The element WithPrefetch asks for ahead of time. *)
Prefetches ==
    IF bench = "WithPrefetch" /\ inner + prefetch_distance < size
    THEN {inner + prefetch_distance} ELSE {}

Elements == 0 .. size - 1

Init ==
    /\ \/ /\ bench \in {"NoPrefetch", "WithPrefetch", "BM_LoopWithoutUnrolling"}
          /\ size \in Lengths /\ cols = 1 /\ chunk = NoDraw
       \/ /\ bench = "BM_LoopWithUnrolling"
          /\ size \in {8 * k : k \in Lengths} /\ cols = 1 /\ chunk = NoDraw
       \/ /\ bench \in {"BM_Matrix_Row_Major", "BM_Matrix_Col_Major"}
          /\ cols \in Dimensions /\ size \in {r * cols : r \in Dimensions}
          /\ chunk = NoDraw
       \/ /\ bench = "BM_Chunk_Memory_Access"
          /\ cols = 1
          /\ \E length \in Chunks :
               /\ size \in {length + 1, length + 2}
               /\ chunk \in Draws(length)
    /\ outer = 0 /\ inner = 0
    /\ added = [k \in Elements |-> 0]
    /\ stray = FALSE
    /\ sums = 1

Iterate ==
    /\ outer < OuterBound /\ inner < InnerBound
    /\ added' = [k \in Elements |-> IF k \in Adds THEN added[k] + 1 ELSE added[k]]
    /\ stray' = (stray \/ ~(Adds \cup Prefetches \subseteq Elements))
    /\ inner' = inner + Step
    /\ UNCHANGED <<bench, size, cols, chunk, outer, sums>>

ExitInner ==
    /\ outer < OuterBound /\ inner >= InnerBound
    /\ outer' = outer + 1
    /\ inner' = 0
    /\ UNCHANGED <<bench, size, cols, chunk, added, stray, sums>>

PassOver == outer >= OuterBound

(* The next pass: the sum is a new variable, the chunk a new draw. *)
NextPass ==
    /\ PassOver /\ sums < MaxSums
    /\ sums' = sums + 1
    /\ outer' = 0 /\ inner' = 0
    /\ added' = [k \in Elements |-> 0]
    /\ chunk' \in IF bench = "BM_Chunk_Memory_Access"
                  THEN Draws(Len(chunk.indices)) ELSE {NoDraw}
    /\ UNCHANGED <<bench, size, cols, stray>>

Next == Iterate \/ ExitInner \/ NextPass

Spec == Init /\ [][Next]_vars

Finished == PassOver /\ sums = MaxSums

-----------------------------------------------------------------------------
(***************************************************************************)
(* No iteration forms an address outside the array: neither the look-ahead *)
(* of the prefetching loop near the end, nor the unrolled one, nor a chunk *)
(* drawn as far back as the distribution allows.                           *)
(***************************************************************************)
NoStray == ~stray

(***************************************************************************)
(* The orders are interchangeable: a pass adds every element of the array, *)
(* or of the chunk it drew, exactly once and nothing else, so row-major    *)
(* and column-major, plain, prefetching and unrolled sums are equal.       *)
(***************************************************************************)
EachAddedOnce ==
    PassOver => \A k \in Elements :
        added[k] = IF bench = "BM_Chunk_Memory_Access"
                      /\ k - chunk.start \notin 0 .. Len(chunk.indices) - 1
                   THEN 0 ELSE 1
=============================================================================
