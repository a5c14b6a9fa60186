---------------------------- MODULE FlagRegistry ----------------------------
(***************************************************************************)
(* The registry of command-line flags: a map under a lock until            *)
(* FinalizeRegistry moves the flags to a sorted vector that is searched    *)
(* without the lock; flags registered later go to the map again.           *)
(***************************************************************************)
EXTENDS Sequences

CONSTANTS
    Threads,
    NoThread,
    Programs     \* the calls each thread makes, with the flag they name

VARIABLES
    flags_, flat_flags_,
    finalized_flags_,
    lock_,       \* the thread that holds the registry's lock
    pc, calls,
    loaded,      \* the finalized_flags_ a FindFlag or ForEachFlag has read
    seen,        \* the flags it has found or visited
    before       \* the flags registered when it was called

vars == <<flags_, flat_flags_, finalized_flags_, lock_, pc, calls, loaded, seen, before>>

Init ==
    /\ flags_ = {} /\ flat_flags_ = {} /\ finalized_flags_ = FALSE
    /\ lock_ = NoThread
    /\ pc = [t \in Threads |-> "run"]
    /\ calls \in Programs
    /\ loaded = [t \in Threads |-> FALSE]
    /\ seen = [t \in Threads |-> {}] /\ before = [t \in Threads |-> {}]

call(t) == Head(calls[t])
Calling(t, name) == pc[t] = "run" /\ calls[t] # <<>> /\ call(t).name = name
Goto(t, label) == pc' = [pc EXCEPT ![t] = label]
Return(t) == Goto(t, "run") /\ calls' = [calls EXCEPT ![t] = Tail(@)]
registered == flags_ \cup flat_flags_

(* RegisterFlag, which exits the program if the map has the name. *)
RegisterFlag(t) ==
    /\ Calling(t, "Register") /\ lock_ = NoThread
    /\ call(t).flag \notin flags_
    /\ flags_' = flags_ \cup {call(t).flag}
    /\ Return(t)
    /\ UNCHANGED <<flat_flags_, finalized_flags_, lock_, loaded, seen, before>>

(* The flags a FindFlag or a ForEachFlag is after. *)
Wanted(t, flags) == IF call(t).name = "Find" THEN flags \cap {call(t).flag} ELSE flags

(* FindFlag and ForEachFlag: finalized_flags_, and the vector *)
Search(t) ==
    /\ Calling(t, "Find") \/ Calling(t, "ForEach")
    /\ loaded' = [loaded EXCEPT ![t] = finalized_flags_]
    /\ before' = [before EXCEPT ![t] = Wanted(t, registered)]
    /\ seen' = [seen EXCEPT ![t] = IF finalized_flags_ THEN Wanted(t, flat_flags_) ELSE {}]
    /\ Goto(t, IF call(t).name = "Find" /\ seen'[t] # {} THEN "found" ELSE "map")
    /\ UNCHANGED <<flags_, flat_flags_, finalized_flags_, lock_, calls>>

(* ... and, under the lock, the map; the mutant takes the map for empty    *)
(* once the registry is finalized.                                         *)
SearchMap_Unless(t) ==
    /\ pc[t] = "map" /\ lock_ = NoThread
    /\ seen' = [seen EXCEPT ![t] = IF loaded[t] THEN @ ELSE @ \cup Wanted(t, flags_)]
    /\ Goto(t, "found")
    /\ UNCHANGED <<flags_, flat_flags_, finalized_flags_, lock_, calls, loaded, before>>

SearchMap(t) ==
    /\ pc[t] = "map" /\ lock_ = NoThread
    /\ seen' = [seen EXCEPT ![t] = @ \cup Wanted(t, flags_)]
    /\ Goto(t, "found")
    /\ UNCHANGED <<flags_, flat_flags_, finalized_flags_, lock_, calls, loaded, before>>

SearchReturns(t) ==
    /\ pc[t] = "found"
    /\ Return(t)
    /\ UNCHANGED <<flags_, flat_flags_, finalized_flags_, lock_, loaded, seen, before>>

(* FinalizeRegistry *)
FinalizeRegistry(t) ==
    /\ Calling(t, "Finalize") /\ lock_ = NoThread
    /\ IF finalized_flags_
       THEN Return(t) /\ UNCHANGED <<flat_flags_, lock_>>
       ELSE /\ lock_' = t
            /\ flat_flags_' = flags_
            /\ Goto(t, "clear") /\ UNCHANGED calls
    /\ UNCHANGED <<flags_, finalized_flags_, loaded, seen, before>>

Clear(t) ==
    /\ pc[t] = "clear"
    /\ flags_' = {}
    /\ Goto(t, "publish")
    /\ UNCHANGED <<flat_flags_, finalized_flags_, lock_, calls, loaded, seen, before>>

Publish(t) ==
    /\ pc[t] = "publish"
    /\ finalized_flags_' = TRUE
    /\ lock_' = NoThread
    /\ Return(t)
    /\ UNCHANGED <<flags_, flat_flags_, loaded, seen, before>>

Step(t) ==
    \/ RegisterFlag(t) \/ Search(t) \/ SearchMap(t) \/ SearchReturns(t)
    \/ FinalizeRegistry(t) \/ Clear(t) \/ Publish(t)

Next == \E t \in Threads : Step(t)

Spec == Init /\ [][Next]_vars

-----------------------------------------------------------------------------
(* FindFlag and ForEachFlag find the flags that were registered when they  *)
(* were called, or finalized_flags_ has changed since they have read it.   *)
MissesOnlyAcrossFinalize ==
    \A t \in Threads :
        pc[t] = "found" => before[t] \subseteq seen[t] \/ finalized_flags_ # loaded[t]

(* Every call returns. *)
AllReturned == \A t \in Threads : calls[t] = <<>>
=============================================================================
