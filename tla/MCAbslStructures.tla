-------------------------- MODULE MCAbslStructures --------------------------
(***************************************************************************)
(* Data structures of abseil, for TLC: the sampled cords, the sample       *)
(* recorder and the hash table.  A behaviour runs one of the groups; the   *)
(* variables that the others do not share with it stay as they are.        *)
(***************************************************************************)
EXTENDS Integers, Sequences

CONSTANTS
    i1, i2, s1, s2, c1, c2, c3, r1, None

VARIABLES
    group, pc,
    head, ci_prev_, ci_next_, dq_tail, dq_prev_, dq_next_, rep_, locked, refs,
    tree, deleted, current, to_delete,
    max_samples_, size_estimate_, dropped_samples_, allocated, all_, next, dead,
    prepared, init_mu, sample, rounds,
    table, elems, todo

cordVars == <<head, ci_prev_, ci_next_, dq_tail, dq_prev_, dq_next_, rep_,
              locked, refs, tree, deleted, current, to_delete>>
sampleVars == <<max_samples_, size_estimate_, dropped_samples_, allocated, all_,
                next, dead, prepared, init_mu, sample, rounds>>
hashVars == <<table, elems, todo>>
vars == <<group, pc, cordVars, sampleVars, hashVars>>

-----------------------------------------------------------------------------
(* Hash tables of 0, 1, 3, 7 and 15 slots and of more, in groups of 8.  In *)
(* 15 slots the keys up to 9 overflow their group, around the end.         *)
HashKeys == 1..16
Hashes == [k \in HashKeys |->
              [h1 |-> CASE k <= 9 -> 3 [] k \in 10..13 -> 11 [] OTHER -> 14,
               h2 |-> k % 2]]

Release(first, keys, sizes, n) ==
    [first |-> first, keys |-> keys, sizes |-> sizes, calls |-> n,
     salts |-> {0}, backwards |-> {{}}, bug_detection |-> {FALSE}]
Upto(n) == [k \in 1..n |-> k]
Full == <<10, 11, 12, 13>> \o Upto(9) \o <<14>>

HashPrograms ==
    {[Release(Upto(7), {3, 9, 10, 14}, {0, 7, 8}, 4) EXCEPT !.salts = {0, 4}],
     Release(Full, {1, 2, 4, 8, 9, 15, 16}, {0}, 5),
     [Release(Full, {1, 2, 4, 9, 14, 15}, {}, 5) EXCEPT !.backwards = {HashKeys}],
     [Release(Upto(7), {3, 9, 10}, {}, 3) EXCEPT !.backwards = {{}, {2, 3, 9}, HashKeys}],
     [Release(<<>>, {1, 10, 11}, {0, 1, 3}, 4) EXCEPT !.bug_detection = BOOLEAN]}

(* Two collectors; one collector and cords that are given other trees *)
Cords == INSTANCE CordzInfo WITH
    Infos <- {i1, i2}, Updated <- {}, Tokens <- {s1, s2}, Null <- None
Updates == INSTANCE CordzInfo WITH
    Infos <- {i1, i2}, Updated <- {i1, i2}, Tokens <- {s1}, Null <- None
Recorder == INSTANCE SampleRecorder WITH
    Clients <- {c1, c2, c3}, Rounds <- 1, Readers <- {r1}, Limits <- {0, 1}
HashSet == INSTANCE RawHashSet WITH
    Keys <- HashKeys, Hash <- Hashes, kWidth <- 8, Programs <- HashPrograms

-----------------------------------------------------------------------------
NoCords ==
    /\ head = None /\ ci_prev_ = 0 /\ ci_next_ = 0 /\ dq_tail = None
    /\ dq_prev_ = 0 /\ dq_next_ = 0 /\ rep_ = 0 /\ locked = 0 /\ refs = 0
    /\ tree = 0 /\ deleted = {} /\ current = 0 /\ to_delete = 0
NoSamples ==
    /\ max_samples_ = 0 /\ size_estimate_ = 0 /\ dropped_samples_ = 0
    /\ allocated = 0 /\ all_ = 0 /\ next = 0 /\ dead = 0 /\ prepared = 0
    /\ init_mu = 0 /\ sample = [r \in {r1} |-> None] /\ rounds = 0
Init ==
    /\ group \in {"cords", "updates", "samples", "hash"}
    /\ CASE group = "cords" -> Cords!Init
         [] group = "updates" -> Updates!Init
         [] OTHER -> NoCords
    /\ IF group = "samples" THEN Recorder!Init ELSE NoSamples
    /\ IF group = "hash" THEN HashSet!Init ELSE table = 0 /\ elems = 0 /\ todo = 0
    /\ group = "hash" => pc = [r \in {r1} |-> "none"]

BesideCords == <<group, sampleVars, hashVars>>
BesideSamples == <<group, cordVars, hashVars>>
BesideHash == <<group, pc, cordVars, sampleVars>>

CordStep(i) ==
    /\ UNCHANGED BesideCords
    /\ \/ group = "cords" /\ Cords!CordStep(i)
       \/ group = "updates" /\ Updates!CordStep(i)
CollectorStep(s) ==
    /\ UNCHANGED BesideCords
    /\ \/ group = "cords" /\ Cords!CollectorStep(s)
       \/ group = "updates" /\ s = s1 /\ Updates!CollectorStep(s)

Next ==
    \/ \E i \in {i1, i2} : CordStep(i)
    \/ \E s \in {s1, s2} : CollectorStep(s)
    \/ group = "samples" /\ Recorder!Next /\ UNCHANGED BesideSamples
    \/ group = "hash" /\ HashSet!Next /\ UNCHANGED BesideHash

(* Every thread that uses a cord or collects samples gets on. *)
Spec ==
    /\ Init /\ [][Next]_vars
    /\ \A i \in {i1, i2} : WF_vars(CordStep(i))
    /\ \A s \in {s1, s2} : WF_vars(CollectorStep(s))

-----------------------------------------------------------------------------
(* A collector walks infos that are alive and guarded: CordzInfo.          *)
CollectorSafe ==
    /\ group = "cords" => Cords!CollectorSafe
    /\ group = "updates" => Updates!CollectorSafe

(* Every info, token and tree is released in the end: CordzInfo.           *)
AllReleased ==
    <>(CASE group = "cords" -> Cords!Released
         [] group = "updates" -> Updates!Released
         [] OTHER -> TRUE)

(* A sample under the callback of Iterate does not change hands:           *)
(* SampleRecorder.                                                         *)
VisitedUnchanged == [][group = "samples" => Recorder!VisitedStays]_vars

(* The keys in the hash table are found, and no others: RawHashSet.        *)
LookupExact == group = "hash" => HashSet!LookupExact

(* The counters agree with what they count: growth_left and size with the  *)
(* control bytes of the hash table, size_estimate_ with the samples there  *)
(* can be.                                                                 *)
CountersExact ==
    /\ group = "hash" => HashSet!TableConsistent
    /\ group = "samples" => Recorder!SamplesBounded
=============================================================================
