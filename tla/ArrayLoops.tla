----------------------------- MODULE ArrayLoops -----------------------------
(***************************************************************************)
(* The benchmarks that compute whole arrays in two ways: the loop fission  *)
(* pairs of loop_unrolling.cc, the vector additions of simd.cc and the     *)
(* unrolled loop of test.cc.  A behaviour runs the plain benchmark and     *)
(* then its optimised form on equal inputs, one loop iteration a step, and *)
(* each for as many passes as the harness likes.  Floating-point functions *)
(* are not interpreted: a cell holds the term that was computed for it.    *)
(***************************************************************************)
EXTENDS Integers, SequencesExt

CONSTANTS
    Sizes,       \* array sizes of the fission pairs
    WideSizes,   \* array sizes of the loop unrolled by 32
    FixedSizes,  \* simd.cc's size 10000, scaled; like it a multiple of 8
    MaxPasses    \* bound: passes of  for (auto _ : state)

VARIABLES
    pair,     \* the two benchmarks that are compared
    n,        \* the size of the arrays
    large,    \* the indices k with a[k] > 50.0
    passes,   \* passes each of the two makes
    turn,     \* which of the two runs, 3 when both are over
    pass,     \* the pass it is in
    loop,     \* the loop of the pass
    i,        \* the loop's variable
    mem,      \* the arrays of each of the two
    fault     \* an access missed its array or an alignment

vars == <<pair, n, large, passes, turn, pass, loop, i, mem, fault>>

-----------------------------------------------------------------------------
Term(op, args) == [op |-> op, args |-> args]
Zero == Term("zero", <<>>)

(* test.cc's src1, src2 and dest are a, b and c here; input, output1 and    *)
(* output2 of SimpleLoopFission_Benchmark are a, result1 and result2.      *)
Arrays == {"a", "b", "c", "d", "result1", "result2"}

(* Assignments to lanes consecutive elements of an array from i + at on:   *)
(* the scalar statement, and the vector one with or without alignment.     *)
Vector(to, op, from, at, lanes, aligned) ==
    [to |-> to, op |-> op, from |-> from, at |-> at, lanes |-> lanes,
     aligned |-> aligned]
Scalar(to, op, from) == Vector(to, op, from, 0, 1, FALSE)

(* for (i = 0; i + ahead < n; i += step) body; a loop that resumes takes i *)
(* over from the loop before it.                                           *)
Loop(resumes, ahead, step, body) ==
    [resumes |-> resumes, ahead |-> ahead, step |-> step, body |-> body]
For(body) == Loop(FALSE, 0, 1, body)

Trig == Scalar("result1", "sin+cos", <<"a", "b">>)
Logs == Scalar("result2", "log*sqrt", <<"c", "d">>)
MathOperations_Fused == << For(<<Trig, Logs>>) >>
MathOperations_Fission == << For(<<Trig>>), For(<<Logs>>) >>

IntoA == Scalar("a", "2x+y", <<"b", "c">>)
IntoD == Scalar("d", "x+y/2", <<"a", "b">>)
MemoryAccess_Fused == << For(<<IntoA, IntoD>>) >>
MemoryAccess_Swapped == << For(<<IntoD>>), For(<<IntoA>>) >>
MemoryAccess_Fission == << For(<<IntoA>>), For(<<IntoD>>) >>

Simple == Scalar("result1", "x+y", <<"a", "b">>)
Complex == Scalar("result2", "exp(sin)", <<"c">>)
MixedComplexity_Fused == << For(<<Simple, Complex>>) >>
MixedComplexity_Fission == << For(<<Simple>>), For(<<Complex>>) >>

(* The tests go to should_compute in the split loops, to a register here.  *)
Check == Scalar("should_compute", "x>50", <<"a">>)
Compute == Scalar("result1", "if", <<"should_compute", "a", "b">>)
ConditionCheck_Fused == << For(<<Check, Compute>>) >>
ConditionCheck_Fission == << For(<<Check>>), For(<<Compute>>) >>

Sine == Scalar("result1", "sin", <<"a">>)
Cosine == Scalar("result2", "cos", <<"a">>)
SimpleLoop_Fused == << For(<<Sine, Cosine>>) >>
SimpleLoop_Fission == << For(<<Sine>>), For(<<Cosine>>) >>

Add(lanes, aligned) ==
    << Loop(FALSE, 0, lanes, << Vector("c", "x+y", <<"a", "b">>, 0, lanes, aligned) >>) >>
AddArrays == Add(1, FALSE)
AddArraysSSE == Add(4, FALSE)
AddArraysAVX2 == Add(8, FALSE)
AddArraysAVX2Aligned == Add(8, TRUE)

Fma(at, lanes) == Vector("c", "2x+y", <<"a", "b">>, at, lanes, FALSE)
BM_SimdLoop == << For(<<Fma(0, 1)>>) >>

Unrolled_NoLookahead ==
    << Loop(FALSE, 0, 32, <<Fma(0, 8), Fma(8, 8), Fma(16, 8), Fma(24, 8)>>),
       Loop(TRUE, 0, 1, <<Fma(0, 1)>>) >>

(* Four vectors an iteration while 32 elements are left, then one by one. *)
BM_SimdLoop_Intrinsic_Unrolled ==
    << Loop(FALSE, 31, 32, <<Fma(0, 8), Fma(8, 8), Fma(16, 8), Fma(24, 8)>>),
       Loop(TRUE, 0, 1, <<Fma(0, 1)>>) >>

FissionPairs == {
    <<MathOperations_Fused, MathOperations_Fission>>,
    <<MemoryAccess_Fused, MemoryAccess_Fission>>,
    <<MixedComplexity_Fused, MixedComplexity_Fission>>,
    <<ConditionCheck_Fused, ConditionCheck_Fission>>,
    <<SimpleLoop_Fused, SimpleLoop_Fission>> }

WidePair == <<BM_SimdLoop, BM_SimdLoop_Intrinsic_Unrolled>>

AddPairs == {AddArrays} \X {AddArraysSSE, AddArraysAVX2, AddArraysAVX2Aligned}

-----------------------------------------------------------------------------
Index == 0 .. n - 1

(* SetUp and GenerateTestData: input arrays with arbitrary contents, and   *)
(* result vectors of zeros.                                                *)
SetUp ==
    [x \in Arrays \cup {"should_compute"} |-> [k \in Index |->
        CASE x \in {"a", "b", "c", "d"} -> Term(x, <<k>>)
          [] x = "should_compute" -> FALSE
          [] OTHER -> Zero]]

Init ==
    /\ \/ pair \in FissionPairs /\ n \in Sizes
       \/ pair = WidePair /\ n \in WideSizes
       \/ pair \in AddPairs /\ n \in FixedSizes
    /\ large \in IF pair[1] = ConditionCheck_Fused THEN SUBSET Index ELSE {{}}
    /\ passes \in [1 .. 2 -> 1 .. MaxPasses]
    /\ turn = 1 /\ pass = 1 /\ loop = 1 /\ i = 0
    /\ mem = <<SetUp, SetUp>>
    /\ fault = FALSE

(* What one lane computes from the operands x.  Only the test on a[k] and  *)
(* the branch on it are interpreted.                                       *)
Value(op, x, k) ==
    CASE op = "x>50" -> k \in large
      [] op = "if" -> IF x[1] THEN Term("sqrt*log", Tail(x)) ELSE Zero
      [] OTHER -> Term(op, x)

Lanes(s) == i + s.at .. i + s.at + s.lanes - 1

Assign(m, s) ==
    [m EXCEPT ![s.to] = [k \in Index |->
        IF k \in Lanes(s) THEN Value(s.op, [j \in DOMAIN s.from |-> m[s.from[j]][k]], k)
        ELSE @[k]]]

(* An access past the end of the arrays, or with an aligned instruction to *)
(* an address that is not a multiple of its width.                         *)
Faults(s) == ~(Lanes(s) \subseteq Index) \/ (s.aligned /\ (i + s.at) % s.lanes # 0)

Loops == pair[turn]

(* One iteration of a loop. *)
Iterate ==
    /\ turn <= 2 /\ loop <= Len(Loops)
    /\ LET l == Loops[loop] IN
         /\ i + l.ahead < n
         /\ mem' = [mem EXCEPT ![turn] = FoldLeft(Assign, @, l.body)]
         /\ fault' = (fault \/ \E k \in DOMAIN l.body : Faults(l.body[k]))
         /\ i' = i + l.step
    /\ UNCHANGED <<pair, n, large, passes, turn, pass, loop>>

(* The loop's condition fails: on to the next loop. *)
ExitLoop ==
    /\ turn <= 2 /\ loop <= Len(Loops)
    /\ i + Loops[loop].ahead >= n
    /\ loop' = loop + 1
    /\ i' = IF loop < Len(Loops) /\ Loops[loop + 1].resumes THEN i ELSE 0
    /\ UNCHANGED <<pair, n, large, passes, turn, pass, mem, fault>>

(* The pass is over: another one, or the end of this benchmark. *)
EndPass ==
    /\ turn <= 2 /\ loop > Len(Loops)
    /\ IF pass < passes[turn]
       THEN pass' = pass + 1 /\ turn' = turn
       ELSE pass' = 1 /\ turn' = turn + 1
    /\ loop' = 1 /\ i' = 0
    /\ UNCHANGED <<pair, n, large, passes, mem, fault>>

Next == Iterate \/ ExitLoop \/ EndPass

Spec == Init /\ [][Next]_vars

Finished == turn = 3

-----------------------------------------------------------------------------
(***************************************************************************)
(* No loop reads or writes past the end of its arrays, however the vector  *)
(* width relates to the size, and no aligned vector instruction meets an   *)
(* unaligned address.                                                      *)
(***************************************************************************)
NoFault == ~fault

(***************************************************************************)
(* The optimised form leaves in every array exactly what the plain loop    *)
(* leaves, whatever the elementary functions compute, for every size,      *)
(* remainder included, and although the harness may give the two a         *)
(* different number of passes over arrays they overwrite.                  *)
(***************************************************************************)
SameResults == Finished => \A x \in Arrays : mem[1][x] = mem[2][x]
=============================================================================
