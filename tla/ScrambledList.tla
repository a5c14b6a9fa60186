--------------------------- MODULE ScrambledList ----------------------------
(***************************************************************************)
(* The scrambled linked list of prefetching.cc: a static pool of nodes,    *)
(* linked once in random order, and the two benchmarks that walk it, in    *)
(* the order and as often as the harness runs them.                        *)
(***************************************************************************)
EXTENDS Integers, SequencesExt

CONSTANTS
    NODE_COUNT,
    MaxWalks     \* bound: walks over the list

Nodes == 0 .. NODE_COUNT - 1
nullptr == -1

VARIABLES
    next,          \* Node::next of the pool
    data,          \* Node::data of the pool
    g_list_head,
    at,            \* where the program is: "call", "link" or "walk"
    prefetching,   \* which of the two benchmarks runs
    indices,       \* random_indices
    current,       \* the local variable of set-up and of the walk
    count,         \* the loop variable of set-up; nodes walked
    walked,        \* the data the walk has added up, in order
    walks,         \* walks begun
    prefetched     \* what the walk has prefetched

vars == <<next, data, g_list_head, at, prefetching, indices, current,
              count, walked, walks, prefetched>>

Init ==
    /\ next = [k \in Nodes |-> nullptr]
    /\ data = [k \in Nodes |-> 0]
    /\ g_list_head = nullptr
    /\ at = "call"
    /\ prefetching \in BOOLEAN
    /\ indices = <<>>
    /\ current = nullptr
    /\ count = 0
    /\ walked = <<>>
    /\ walks = 0
    /\ prefetched = {}

(* SetupScrambledList, up to its loop; it returns if there is a list. *)
SetupScrambledList ==
    /\ at = "call"
    /\ IF g_list_head # nullptr
       THEN /\ at' = "walk"
            /\ current' = g_list_head
            /\ walks' = walks + 1
            /\ UNCHANGED <<g_list_head, indices, count>>
       ELSE /\ indices' \in {p \in [1 .. NODE_COUNT -> Nodes] : IsInjective(p)}
            /\ g_list_head' = indices'[1]
            /\ current' = g_list_head'
            /\ count' = 0
            /\ at' = "link"
            /\ UNCHANGED walks
    /\ UNCHANGED <<next, data, prefetching, walked, prefetched>>

Link_DataLate ==
    /\ at = "link" /\ count < NODE_COUNT
    /\ IF count + 1 < NODE_COUNT
       THEN /\ next' = [next EXCEPT ![current] = indices[count + 2]]
            /\ current' = indices[count + 2]
       ELSE next' = [next EXCEPT ![current] = nullptr] /\ UNCHANGED current
    /\ data' = [data EXCEPT ![current'] = count]
    /\ count' = count + 1
    /\ UNCHANGED <<g_list_head, at, prefetching, indices, walked, walks, prefetched>>

(* An iteration of the loop that links the nodes. *)
Link ==
    /\ at = "link" /\ count < NODE_COUNT
    /\ data' = [data EXCEPT ![current] = count]
    /\ IF count + 1 < NODE_COUNT
       THEN /\ next' = [next EXCEPT ![current] = indices[count + 2]]
            /\ current' = indices[count + 2]
       ELSE next' = [next EXCEPT ![current] = nullptr] /\ UNCHANGED current
    /\ count' = count + 1
    /\ UNCHANGED <<g_list_head, at, prefetching, indices, walked, walks, prefetched>>

(* The list is linked: the first walk begins. *)
Linked ==
    /\ at = "link" /\ count = NODE_COUNT
    /\ at' = "walk"
    /\ current' = g_list_head
    /\ walks' = walks + 1
    /\ UNCHANGED <<next, data, g_list_head, prefetching, indices, count, walked, prefetched>>

Prefetch_Unguarded ==
    IF prefetching /\ next[current] # nullptr THEN {next[next[current]]} ELSE {}

(* The node two ahead, if there is one. *)
Prefetch ==
    IF prefetching /\ next[current] # nullptr /\ next[next[current]] # nullptr
    THEN {next[next[current]]} ELSE {}

(* An iteration of a walk. *)
Walk ==
    /\ at = "walk" /\ current # nullptr
    /\ walked' = Append(walked, data[current])
    /\ prefetched' = prefetched \cup Prefetch
    /\ current' = next[current]
    /\ UNCHANGED <<next, data, g_list_head, at, prefetching, indices, count, walks>>

(* The walk is over: another pass, or a run of either benchmark. *)
EndWalk ==
    /\ at = "walk" /\ current = nullptr
    /\ walks < MaxWalks
    /\ walked' = <<>> /\ prefetched' = {}
    /\ \/ /\ current' = g_list_head
          /\ walks' = walks + 1
          /\ UNCHANGED <<at, prefetching>>
       \/ /\ at' = "call"
          /\ prefetching' \in BOOLEAN
          /\ UNCHANGED <<current, walks>>
    /\ UNCHANGED <<next, data, g_list_head, indices, count>>

Next == SetupScrambledList \/ Link \/ Linked \/ Walk \/ EndWalk

Spec == Init /\ [][Next]_vars

Finished == at = "walk" /\ current = nullptr /\ walks = MaxWalks

-----------------------------------------------------------------------------
(***************************************************************************)
(* Whatever the shuffle, every walk of either benchmark, the first one and *)
(* those after set-up has returned early, meets the nodes in the order     *)
(* they were linked, misses none and meets none twice.                     *)
(***************************************************************************)
WalkInOrder ==
    /\ \A k \in DOMAIN walked : walked[k] = k - 1
    /\ at = "walk" => (current = nullptr <=> Len(walked) = NODE_COUNT)

(***************************************************************************)
(* The prefetching walk has asked for every node from the third on before  *)
(* it gets there, and never asks for a node that does not exist.           *)
(***************************************************************************)
PrefetchedAhead ==
    /\ prefetched \subseteq Nodes
    /\ at = "walk" /\ prefetching /\ current # nullptr /\ Len(walked) >= 2
         => current \in prefetched
=============================================================================
