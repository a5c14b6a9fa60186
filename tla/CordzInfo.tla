------------------------------ MODULE CordzInfo -----------------------------
(***************************************************************************)
(* Profiling of sampled cords.  A cord's CordzInfo is on a global list     *)
(* that collectors walk without a lock; a collector's token (a             *)
(* CordzSnapshot) on the delete queue keeps alive what it may have seen.   *)
(* A section under the list's or the queue's lock is one step: a reader    *)
(* without the lock sees one of its stores (head, one ci_next_, dq_tail).  *)
(***************************************************************************)
EXTENDS Naturals, Sequences, SequencesExt

CONSTANTS
    Infos,      \* each the CordzInfo of one sampled cord, used by its thread
    Updated,    \* those whose cord is given another tree, or none
    Tokens,     \* each the CordzSampleToken of one collector thread
    Null

Handles == Infos \cup Tokens
is_snapshot(h) == h \in Tokens

Trees == 1..2   \* the trees of a cord, one after the other

VARIABLES
    head, ci_prev_, ci_next_,       \* the list of infos
    dq_tail, dq_prev_, dq_next_,    \* the delete queue
    rep_,                           \* the tree an info refers to
    locked,                         \* its mutex_ is held by the cord's thread
    refs,                           \* the reference counts of each cord's trees
    tree,                           \* the tree the cord itself holds
    deleted,
    pc,                             \* of a cord's thread or a collector
    current,                        \* where a collector's iterator is
    to_delete

list == <<head, ci_prev_, ci_next_>>
queue == <<dq_tail, dq_prev_, dq_next_>>
reps == <<rep_, locked, refs, tree>>
vars == <<list, queue, reps, deleted, pc, current, to_delete>>

Init ==
    /\ head = Null
    /\ ci_prev_ = [i \in Infos |-> Null] /\ ci_next_ = [i \in Infos |-> Null]
    /\ dq_tail = Null
    /\ dq_prev_ = [h \in Handles |-> Null] /\ dq_next_ = [h \in Handles |-> Null]
    /\ rep_ = [i \in Infos |-> 1] /\ locked = [i \in Infos |-> FALSE]
    /\ refs = [i \in Infos |-> [n \in Trees |-> IF n = 1 THEN 1 ELSE 0]]
    /\ tree = [i \in Infos |-> 1]
    /\ deleted = {}
    /\ pc = [h \in Handles |-> "new"]
    /\ current = [s \in Tokens |-> Null]
    /\ to_delete = [s \in Tokens |-> <<>>]

Goto(h, label) == pc' = [pc EXCEPT ![h] = label]

(* TrackCord *)
Track(i) ==
    /\ pc[i] = "new"
    /\ ci_prev_' = IF head = Null THEN ci_prev_ ELSE [ci_prev_ EXCEPT ![head] = i]
    /\ ci_next_' = [ci_next_ EXCEPT ![i] = head]
    /\ head' = i
    /\ Goto(i, "tracked")
    /\ UNCHANGED <<queue, reps, deleted, current, to_delete>>

(* A CordzUpdateScope: Lock, SetCordRep with the cord's new tree or with   *)
(* null when it has none any more, and the old tree's reference goes.      *)
Lock(i) ==
    /\ i \in Updated /\ pc[i] = "tracked" /\ tree[i] = 1
    /\ locked' = [locked EXCEPT ![i] = TRUE]
    /\ Goto(i, "locked")
    /\ UNCHANGED <<list, queue, rep_, refs, tree, deleted, current, to_delete>>

SetCordRep(i) ==
    /\ pc[i] = "locked"
    /\ \E rep \in {2, Null} :
        /\ rep_' = [rep_ EXCEPT ![i] = rep] /\ tree' = [tree EXCEPT ![i] = rep]
        /\ refs' = [refs EXCEPT ![i][1] = @ - 1, ![i][2] = IF rep = 2 THEN 1 ELSE @]
    /\ Goto(i, "unlock")
    /\ UNCHANGED <<list, queue, locked, deleted, current, to_delete>>

(* Unlock untracks an info without a tree. *)
Unlock(i) ==
    /\ pc[i] = "unlock"
    /\ locked' = [locked EXCEPT ![i] = FALSE]
    /\ Goto(i, IF rep_[i] = Null THEN "untrack" ELSE "tracked")
    /\ UNCHANGED <<list, queue, rep_, refs, tree, deleted, current, to_delete>>

(* Untrack, called when the cord is destroyed (or by Unlock): off the list *)
Untrack(i) ==
    LET next == ci_next_[i]
        prev == ci_prev_[i]
    IN  /\ pc[i] \in {"tracked", "untrack"}
        /\ ci_prev_' = IF next = Null THEN ci_prev_ ELSE [ci_prev_ EXCEPT ![next] = prev]
        /\ ci_next_' = IF prev = Null THEN ci_next_ ELSE [ci_next_ EXCEPT ![prev] = next]
        /\ head' = IF prev = Null THEN next ELSE head
        /\ Goto(i, "delisted")
        /\ UNCHANGED <<queue, reps, deleted, current, to_delete>>

IsEmpty == dq_tail = Null

(* ~CordzInfo *)
Destroyed(i) ==
    /\ deleted' = deleted \cup {i}
    /\ refs' = IF rep_[i] = Null THEN refs ELSE [refs EXCEPT ![i][rep_[i]] = @ - 1]

(* The rest of Untrack: with no token the info is deleted at once, and     *)
(* else the tree is kept alive with it.                                    *)
SafeToDelete(i) ==
    /\ pc[i] = "delisted"
    /\ IF IsEmpty
       THEN /\ rep_' = [rep_ EXCEPT ![i] = Null]
            /\ deleted' = deleted \cup {i}
            /\ Goto(i, "untracked")
       ELSE Goto(i, "ref") /\ UNCHANGED <<rep_, deleted>>
    /\ UNCHANGED <<list, queue, locked, refs, tree, current, to_delete>>

Ref(i) ==
    /\ pc[i] = "ref"
    /\ refs' = IF rep_[i] = Null THEN refs ELSE [refs EXCEPT ![i][rep_[i]] = @ + 1]
    /\ Goto(i, "delete")
    /\ UNCHANGED <<list, queue, rep_, locked, tree, deleted, current, to_delete>>

(* The delete queue gets h at its tail. *)
PushBack(h) ==
    /\ dq_prev_' = [dq_prev_ EXCEPT ![h] = dq_tail]
    /\ dq_next_' = IF dq_tail = Null THEN dq_next_ ELSE [dq_next_ EXCEPT ![dq_tail] = h]
    /\ dq_tail' = h

(* CordzHandle::Delete looks without the lock, and again with it. *)
Delete(i) ==
    /\ pc[i] = "delete"
    /\ IF IsEmpty
       THEN Destroyed(i) /\ Goto(i, "untracked")
       ELSE Goto(i, "enqueue") /\ UNCHANGED <<refs, deleted>>
    /\ UNCHANGED <<list, queue, rep_, locked, tree, current, to_delete>>

Enqueue(i) ==
    /\ pc[i] = "enqueue"
    /\ IF IsEmpty
       THEN Destroyed(i) /\ UNCHANGED queue
       ELSE PushBack(i) /\ UNCHANGED <<refs, deleted>>
    /\ Goto(i, "untracked")
    /\ UNCHANGED <<list, rep_, locked, tree, current, to_delete>>

(* The cord gives up its tree. *)
Unref(i) ==
    /\ pc[i] = "untracked"
    /\ refs' = IF tree[i] = Null THEN refs ELSE [refs EXCEPT ![i][tree[i]] = @ - 1]
    /\ Goto(i, "done")
    /\ UNCHANGED <<list, queue, rep_, locked, tree, deleted, current, to_delete>>

-----------------------------------------------------------------------------
(* The constructor of a token *)
CordzSnapshot(s) ==
    /\ pc[s] = "new"
    /\ PushBack(s)
    /\ Goto(s, "begin")
    /\ UNCHANGED <<list, reps, deleted, current, to_delete>>

Moved(s, i) ==
    /\ current' = [current EXCEPT ![s] = i]
    /\ Goto(s, IF i = Null THEN "destroy" ELSE "inspect")
    /\ UNCHANGED <<list, queue, reps, deleted, to_delete>>

(* Iterator() and operator++ *)
HeadOf(s) == pc[s] = "begin" /\ Moved(s, head)
Next_(s) == pc[s] = "next" /\ Moved(s, ci_next_[current[s]])

(* GetCordzStatistics: RefCordRep under the info's mutex_ *)
RefCordRep(s) ==
    LET i == current[s]
    IN  /\ pc[s] = "inspect" /\ ~locked[i]
        /\ IF rep_[i] = Null THEN Goto(s, "next") /\ UNCHANGED refs
           ELSE /\ refs' = [refs EXCEPT ![i][rep_[i]] = @ + 1]
                /\ Goto(s, IF rep_[i] = 1 THEN "analyze1" ELSE "analyze2")
        /\ UNCHANGED <<list, queue, rep_, locked, tree, deleted, current, to_delete>>

AnalyzeCordRep(s) ==
    /\ pc[s] \in {"analyze1", "analyze2"}
    /\ refs' = [refs EXCEPT ![current[s]][IF pc[s] = "analyze1" THEN 1 ELSE 2] = @ - 1]
    /\ Goto(s, "next")
    /\ UNCHANGED <<list, queue, rep_, locked, tree, deleted, current, to_delete>>

(* The handles after h on the queue, up to the next token; the mutants     *)
(* collect past it, or nothing.                                            *)
RECURSIVE Collect(_, _)
Collect(h, past) ==
    IF h = Null \/ (is_snapshot(h) /\ ~past) THEN <<>>
    ELSE (IF is_snapshot(h) THEN <<>> ELSE <<h>>) \o Collect(dq_next_[h], past)

ToDelete_All(s) == IF dq_prev_[s] = Null THEN Collect(dq_next_[s], TRUE) ELSE <<>>

ToDelete_None(s) == <<>>

ToDelete(s) == IF dq_prev_[s] = Null THEN Collect(dq_next_[s], FALSE) ELSE <<>>

(* ~CordzHandle of a token, under the lock *)
Destroy(s) ==
    LET gone == ToDelete(s)
        prev == dq_prev_[s]
        next == IF gone = <<>> THEN dq_next_[s] ELSE dq_next_[Last(gone)]
    IN  /\ pc[s] = "destroy"
        /\ to_delete' = [to_delete EXCEPT ![s] = gone]
        /\ dq_next_' = IF prev = Null THEN dq_next_ ELSE [dq_next_ EXCEPT ![prev] = next]
        /\ dq_prev_' = IF next = Null THEN dq_prev_ ELSE [dq_prev_ EXCEPT ![next] = prev]
        /\ dq_tail' = IF next = Null THEN prev ELSE dq_tail
        /\ deleted' = deleted \cup {s}
        /\ Goto(s, "deleting")
        /\ UNCHANGED <<list, reps, current>>

(* The handles are deleted after the lock is released. *)
DeleteHandle(s) ==
    /\ pc[s] = "deleting" /\ to_delete[s] # <<>>
    /\ Destroyed(Head(to_delete[s]))
    /\ to_delete' = [to_delete EXCEPT ![s] = Tail(@)]
    /\ UNCHANGED <<list, queue, rep_, locked, tree, pc, current>>

CordStep(i) ==
    \/ Track(i) \/ Lock(i) \/ SetCordRep(i) \/ Unlock(i) \/ Untrack(i) \/ SafeToDelete(i)
    \/ Ref(i) \/ Delete(i) \/ Enqueue(i) \/ Unref(i)

CollectorStep(s) ==
    \/ CordzSnapshot(s) \/ HeadOf(s) \/ Next_(s) \/ RefCordRep(s) \/ AnalyzeCordRep(s)
    \/ Destroy(s) \/ DeleteHandle(s)

Next == (\E i \in Infos : CordStep(i)) \/ (\E s \in Tokens : CollectorStep(s))

Fairness ==
    /\ \A i \in Infos : WF_vars(CordStep(i))
    /\ \A s \in Tokens : WF_vars(CollectorStep(s))

Spec == Init /\ [][Next]_vars /\ Fairness

-----------------------------------------------------------------------------
RECURSIVE QueueFrom(_)
QueueFrom(h) == IF h = Null THEN <<>> ELSE Append(QueueFrom(dq_prev_[h]), h)

(* DiagnosticsGetDeleteQueue, oldest first *)
DeleteQueue == QueueFrom(dq_tail)

(* DiagnosticsHandleIsSafeToInspect: i is not on the queue before s *)
SafeToInspect(s, i) ==
    /\ Contains(DeleteQueue, s)
    /\ \A n, m \in DOMAIN DeleteQueue : DeleteQueue[n] = i /\ DeleteQueue[m] = s => m < n

(* What a collector's iterator is at is not deleted, is guarded by the     *)
(* token as Head and Next assert, and has a tree only while that tree is   *)
(* referenced, so that RefCordRep never revives one.                       *)
CollectorSafe ==
    \A s \in Tokens :
        pc[s] \in {"inspect", "analyze1", "analyze2", "next"} =>
            LET i == current[s]
            IN  /\ i \notin deleted
                /\ SafeToInspect(s, i)
                /\ ~locked[i] /\ rep_[i] # Null => refs[i][rep_[i]] > 0

(* Everything is deleted in the end, and no tree is left with a reference  *)
(* or without one too many.                                                *)
Released ==
    /\ deleted = Handles /\ IsEmpty /\ head = Null
    /\ \A i \in Infos, n \in Trees : refs[i][n] = 0
AllReleased == <>Released
=============================================================================
