----------------------------- MODULE GraphCycles ----------------------------
(***************************************************************************)
(* synchronization_internal::GraphCycles: a graph that refuses an edge     *)
(* that would close a cycle, by keeping for every node a rank that grows   *)
(* along the edges (Pearce and Kelly).  Each operation maps a graph to a   *)
(* graph; deadlock_graph_mu makes it one step of the program.  A NodeSet   *)
(* is a set, iterated in ascending order as its table of 8 slots does; the *)
(* PointerMap is the search of the nodes for a pointer.                    *)
(***************************************************************************)
EXTENDS Integers, Sequences, FiniteSets, SequencesExt

CONSTANTS
    Null,
    MaxVersion      \* std::numeric_limits<uint32_t>::max()

EmptyGraph == [nodes_ |-> <<>>, free_nodes_ |-> <<>>]

Indices(g) == DOMAIN g.nodes_
MakeId(i, version) == [index |-> i, version |-> version]

(* PointerMap::Find *)
Find(g, ptr) ==
    LET found == {i \in Indices(g) : g.nodes_[i].ptr = ptr}
    IN  IF found = {} THEN -1 ELSE CHOOSE i \in found : TRUE

Live(g, id) == g.nodes_[id.index].version = id.version
Ptr(g, id) == IF Live(g, id) THEN g.nodes_[id.index].ptr ELSE Null

(* GetId: the graph with a node for ptr, a freed one before a new one; a   *)
(* freed node keeps its rank.                                              *)
WithNode(g, ptr) ==
    LET fresh == [rank |-> Len(g.nodes_) + 1, version |-> 1, ptr |-> ptr,
                  in |-> {}, out |-> {}, visited |-> FALSE]
    IN  IF Find(g, ptr) # -1 THEN g
        ELSE IF g.free_nodes_ = <<>> THEN [g EXCEPT !.nodes_ = Append(@, fresh)]
        ELSE [nodes_ |-> [g.nodes_ EXCEPT ![Last(g.free_nodes_)].ptr = ptr],
              free_nodes_ |-> Front(g.free_nodes_)]

IdOf(g, ptr) == MakeId(Find(g, ptr), g.nodes_[Find(g, ptr)].version)

EraseEdge(g, x, y) ==
    [g EXCEPT !.nodes_[x].out = @ \ {y}, !.nodes_[y].in = @ \ {x}]

(* A freed node's version grows, so that copies of its id expire; the      *)
(* mutant's does not.                                                      *)
NextVersion_Same(version) == version

NextVersion(version) == version + 1

RemoveNode(g, ptr) ==
    LET i == Find(g, ptr)
        reusable == g.nodes_[i].version < MaxVersion
    IN  IF i = -1 THEN g
        ELSE [nodes_ |-> [j \in Indices(g) |->
                  [g.nodes_[j] EXCEPT !.in = IF j = i THEN {} ELSE @ \ {i},
                                      !.out = IF j = i THEN {} ELSE @ \ {i},
                                      !.ptr = IF j = i THEN Null ELSE @,
                                      !.version = IF j = i /\ reusable THEN NextVersion(@) ELSE @]],
              free_nodes_ |-> IF reusable THEN Append(g.free_nodes_, i) ELSE g.free_nodes_]

-----------------------------------------------------------------------------
Ascending(S) == SetToSortSeq(S, <)

(* The loop of ForwardDFS from the nodes on stack: it fails at a node of   *)
(* rank upper_bound.                                                       *)
RECURSIVE ForwardDFS(_, _, _, _)
ForwardDFS(g, stack, deltaf, upper_bound) ==
    LET n == Last(stack)
        seen == [g EXCEPT !.nodes_[n].visited = TRUE]
        out == g.nodes_[n].out
        deeper == {w \in out : ~seen.nodes_[w].visited /\ g.nodes_[w].rank < upper_bound}
    IN  IF stack = <<>> THEN [ok |-> TRUE, g |-> g, delta |-> deltaf]
        ELSE IF g.nodes_[n].visited THEN ForwardDFS(g, Front(stack), deltaf, upper_bound)
        ELSE IF \E w \in out : g.nodes_[w].rank = upper_bound
             THEN [ok |-> FALSE, g |-> seen, delta |-> deltaf \cup {n}]
        ELSE ForwardDFS(seen, Front(stack) \o Ascending(deeper), deltaf \cup {n}, upper_bound)

RECURSIVE BackwardDFS(_, _, _, _)
BackwardDFS(g, stack, deltab, lower_bound) ==
    LET n == Last(stack)
        seen == [g EXCEPT !.nodes_[n].visited = TRUE]
        deeper == {w \in g.nodes_[n].in :
                       ~seen.nodes_[w].visited /\ lower_bound < g.nodes_[w].rank}
    IN  IF stack = <<>> THEN [g |-> g, delta |-> deltab]
        ELSE IF g.nodes_[n].visited THEN BackwardDFS(g, Front(stack), deltab, lower_bound)
        ELSE BackwardDFS(seen, Front(stack) \o Ascending(deeper), deltab \cup {n}, lower_bound)

ClearVisited(g, delta) ==
    [g EXCEPT !.nodes_ = [i \in Indices(g) |->
        [g.nodes_[i] EXCEPT !.visited = @ /\ i \notin delta]]]

(* Sort of a delta list by rank *)
ByRank(g, delta) == SetToSortSeq(delta, LAMBDA i, j : g.nodes_[i].rank < g.nodes_[j].rank)

(* The nodes found backwards come before those found forwards; the mutant  *)
(* has them the other way round.                                           *)
Relisted_ForwardFirst(g, deltab, deltaf) == ByRank(g, deltaf) \o ByRank(g, deltab)

Relisted(g, deltab, deltaf) == ByRank(g, deltab) \o ByRank(g, deltaf)

(* Reorder: the nodes found share their ranks anew, in ascending order. *)
Reorder(g, deltab, deltaf) ==
    LET list_ == Relisted(g, deltab, deltaf)
        merged_ == Ascending({g.nodes_[i].rank : i \in deltab \cup deltaf})
        cleared == ClearVisited(g, deltab \cup deltaf)
    IN  [cleared EXCEPT !.nodes_ = [i \in Indices(g) |->
            IF i \in deltab \cup deltaf
            THEN [cleared.nodes_[i] EXCEPT !.rank = merged_[SelectInSeq(list_, LAMBDA j : j = i)]]
            ELSE cleared.nodes_[i]]]

(* The result of InsertEdge, and the graph it leaves *)
InsertEdge(g, idx, idy) ==
    LET x == idx.index
        y == idy.index
        added == [g EXCEPT !.nodes_[x].out = @ \cup {y}, !.nodes_[y].in = @ \cup {x}]
        f == ForwardDFS(added, <<y>>, {}, g.nodes_[x].rank)
        b == BackwardDFS(f.g, <<x>>, {}, g.nodes_[y].rank)
    IN  IF ~Live(g, idx) \/ ~Live(g, idy) THEN [ok |-> TRUE, g |-> g]
        ELSE IF x = y THEN [ok |-> FALSE, g |-> g]
        ELSE IF y \in g.nodes_[x].out THEN [ok |-> TRUE, g |-> g]
        ELSE IF g.nodes_[x].rank <= g.nodes_[y].rank THEN [ok |-> TRUE, g |-> added]
        ELSE IF ~f.ok THEN [ok |-> FALSE, g |-> ClearVisited(EraseEdge(f.g, x, y), f.delta)]
        ELSE [ok |-> TRUE, g |-> Reorder(b.g, b.delta, f.delta)]

(* FindPath with its stack, on which 0 stands for leaving a node: the      *)
(* path from x to y, or <<>> for none.                                     *)
RECURSIVE Search(_, _, _, _, _)
Search(g, stack, seen, path, y) ==
    LET n == Last(stack)
        deeper == g.nodes_[n].out \ seen
    IN  IF stack = <<>> THEN <<>>
        ELSE IF n = 0 THEN Search(g, Front(stack), seen, Front(path), y)
        ELSE IF n = y THEN Append(path, n)
        ELSE Search(g, Front(stack) \o <<0>> \o Ascending(deeper), seen \cup deeper,
                    Append(path, n), y)

FindPath(g, idx, idy) ==
    IF ~Live(g, idx) \/ ~Live(g, idy) THEN <<>>
    ELSE Search(g, <<idx.index>>, {}, <<>>, idy.index)

-----------------------------------------------------------------------------
(* GraphCycles::CheckInvariants, and that in and out agree: the ranks are  *)
(* distinct and grow along the edges, no visited marker is left, and a     *)
(* pointer has one node.                                                   *)
CheckInvariants(g) ==
    \A i \in Indices(g) :
        LET n == g.nodes_[i]
        IN  /\ n.ptr # Null => Find(g, n.ptr) = i
            /\ ~n.visited
            /\ \A j \in Indices(g) : g.nodes_[j].rank = n.rank => j = i
            /\ \A j \in n.out : n.rank < g.nodes_[j].rank
            /\ \A j \in Indices(g) : j \in n.out <=> i \in g.nodes_[j].in
=============================================================================
