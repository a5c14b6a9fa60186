------------------------------ MODULE FlagImpl ------------------------------
(***************************************************************************)
(* One command-line flag: Flag<T>::Get and Set, FlagImpl with its lazy     *)
(* initialisation, the data guard, the mutation callback that runs without *)
(* the data guard, ParseFrom, SaveState and RestoreState.  The value is    *)
(* stored as one atomic word (kValueAndInitBit, kOneWordAtomic), under the *)
(* sequence lock or in an aligned buffer.  Whether a text parses, and to   *)
(* what, is part of the call.                                              *)
(***************************************************************************)
EXTENDS Integers, Sequences

CONSTANTS
    Threads, Words, Values, Default,
    NoValue,     \* what a text that does not parse gives
    NoThread,
    Kinds,       \* the storage kinds
    Programs     \* the calls each thread makes

VARIABLES
    kind,        \* value_storage_kind_
    init_control_,
    lock_, words, value, st, seq, left, dst, src,   \* seq_lock_ and the value
    hold,        \* the data guard
    cb_guard,    \* the thread that holds callback_->guard
    callback_,   \* whether a callback is set
    cb_seen,     \* the value its last run has found
    modified_, on_command_line_,
    default_value_,
    set_by_user, \* whether the value is one that was set, not a default
    saved,       \* the FlagState each thread has saved
    pc, calls,
    fault        \* whether an assertion has failed

seqVars == <<lock_, words, value, st, seq, left, dst, src>>
bitVars == <<modified_, on_command_line_, default_value_, set_by_user>>
cbVars == <<cb_guard, callback_, cb_seen>>
vars == <<kind, init_control_, seqVars, hold, cbVars, bitVars, saved, pc,
          calls, fault>>

SL == INSTANCE SequenceLock
Guard == INSTANCE RWLock

Init ==
    /\ kind \in Kinds /\ calls \in Programs
    /\ init_control_ = "Init"
    /\ lock_ = SL!kUninitialized /\ words = SL!Whole(NoValue) /\ value = Default
    /\ st = [t \in Threads |-> "idle"] /\ seq = [t \in Threads |-> 0]
    /\ left = [t \in Threads |-> {}] /\ dst = [t \in Threads |-> SL!Whole(NoValue)]
    /\ src = [t \in Threads |-> NoValue]
    /\ Guard!Init
    /\ cb_guard = NoThread /\ callback_ = FALSE /\ cb_seen = Default
    /\ modified_ = FALSE /\ on_command_line_ = FALSE /\ default_value_ = Default
    /\ set_by_user = FALSE
    /\ saved = [t \in Threads |-> [value |-> Default, modified |-> FALSE,
                                   cmd |-> FALSE, counter |-> -1, user |-> FALSE]]
    /\ pc = [t \in Threads |-> "run"]
    /\ fault = FALSE

call(t) == Head(calls[t])
Calling(t, names) == pc[t] = "run" /\ calls[t] # <<>> /\ call(t).name \in names
At(t, label) == pc[t] = label
Goto(t, label) == pc' = [pc EXCEPT ![t] = label]
Return(t) == Goto(t, "run") /\ calls' = [calls EXCEPT ![t] = Tail(@)]
Check(ok) == fault' = (fault \/ ~ok)

(* seq_lock_.ModificationCount() *)
ModificationCount == lock_ \div 2

-----------------------------------------------------------------------------
(* Flag<T>::Get: FlagValue::Get of each storage kind.  A word that holds   *)
(* the uninitialised pattern, and an aligned buffer, are left to Read.     *)
Get(t) ==
    /\ Calling(t, {"Get"})
    /\ IF kind = "SequenceLocked"
       THEN SL!TryRead(t) /\ Goto(t, "fast") /\ UNCHANGED calls
       ELSE /\ IF kind = "OneWordAtomic" /\ init_control_ # "Init" THEN Return(t)
               ELSE Goto(t, "guard") /\ UNCHANGED calls
            /\ UNCHANGED seqVars
    /\ UNCHANGED <<kind, init_control_, hold, cbVars, bitVars, saved, fault>>

(* The copy and the second load of a TryRead *)
Reading(t) ==
    /\ pc[t] \in {"fast", "read", "locked_read"}
    /\ \/ SL!TryReadEnd(t)
       \/ \E w \in Words : SL!RelaxedCopyFromAtomic(t, w)
    /\ UNCHANGED <<kind, init_control_, hold, cbVars, bitVars, saved, pc, calls, fault>>

(* A TryRead has returned; the third one must not fail. *)
TryReadReturns(t) ==
    /\ SL!Done(t)
    /\ CASE At(t, "fast") ->
              /\ IF st[t] = "read" THEN Return(t) ELSE Goto(t, "guard") /\ UNCHANGED calls
              /\ UNCHANGED <<hold, fault>>
         [] At(t, "read") ->
              /\ IF st[t] = "read" THEN Return(t) ELSE Goto(t, "rlock") /\ UNCHANGED calls
              /\ UNCHANGED <<hold, fault>>
         [] At(t, "locked_read") ->
              Guard!Release(t) /\ Check(st[t] = "read") /\ Return(t)
    /\ UNCHANGED <<kind, init_control_, cbVars, bitVars, saved>>

(* Every other call starts with DataGuard(). *)
Start(t) ==
    /\ Calling(t, {"Set", "Value", "IfDefault", "Default", "Save", "Restore", "SetCallback"})
    /\ Goto(t, "guard")
    /\ UNCHANGED <<kind, init_control_, seqVars, hold, cbVars, bitVars, saved, calls, fault>>

(* DataGuard: call_once of Init, which stores the default value. *)
InitBegin(t) ==
    /\ At(t, "guard") /\ init_control_ = "Init"
    /\ init_control_' = "Running"
    /\ words' = SL!Whole(default_value_)
    /\ Goto(t, "init")
    /\ UNCHANGED <<kind, lock_, value, st, seq, left, dst, src, hold, cbVars, bitVars,
                   saved, calls, fault>>

InitEnd(t) ==
    /\ At(t, "init")
    /\ SL!MarkInitialized
    /\ init_control_' = "Done"
    /\ Goto(t, "guard")
    /\ UNCHANGED <<kind, hold, cbVars, bitVars, saved, calls, fault>>

(* Read, once the flag is initialised *)
Read(t) ==
    /\ At(t, "guard") /\ init_control_ = "Done" /\ call(t).name = "Get"
    /\ IF kind = "SequenceLocked"
       THEN SL!TryRead(t) /\ Goto(t, "read") /\ UNCHANGED calls
       ELSE /\ kind = "AlignedBuffer" => Guard!Compatible(t, "Exclusive")
            /\ Return(t)
            /\ UNCHANGED seqVars
    /\ UNCHANGED <<kind, init_control_, hold, cbVars, bitVars, saved, fault>>

(* ReadSequenceLockedData: under the reader lock *)
ReadLocked(t) ==
    /\ At(t, "rlock")
    /\ Guard!Acquire(t, "Shared")
    /\ SL!TryRead(t)
    /\ Goto(t, "locked_read")
    /\ UNCHANGED <<kind, init_control_, cbVars, bitVars, saved, calls, fault>>

-----------------------------------------------------------------------------
(* MutexLock l(DataGuard()), and what the call does before it stores.      *)
LockGuard(t) ==
    /\ At(t, "guard") /\ init_control_ = "Done" /\ call(t).name # "Get"
    /\ Guard!Acquire(t, "Exclusive")
    /\ Goto(t, "locked")
    /\ UNCHANGED <<kind, init_control_, seqVars, cbVars, bitVars, saved, calls, fault>>

Unlock(t) == Guard!Release(t) /\ Return(t)

(* What StoreValue is to store, if anything. *)
ToStore(t) ==
    LET c == call(t)
    IN  CASE c.name \in {"Set", "Value"} -> c.value
          [] c.name = "IfDefault" -> IF modified_ THEN NoValue ELSE c.value
          [] c.name = "Default" -> IF modified_ THEN NoValue ELSE c.value
          [] c.name = "Restore" ->
                IF saved[t].counter = ModificationCount THEN NoValue ELSE saved[t].value
          [] OTHER -> NoValue

(* ParseFrom(SET_FLAGS_DEFAULT) changes the default value first. *)
SetDefault(t) ==
    default_value_' = IF call(t).name = "Default" /\ call(t).value # NoValue
                      THEN call(t).value ELSE default_value_

(* StoreValue: the value and the modification count; the mutant forgets    *)
(* the count of the storage kinds without a sequence lock.                 *)
StoreUnlocked_NoCount(t, v) ==
    /\ words' = SL!Whole(v) /\ value' = v
    /\ UNCHANGED <<lock_, st, seq, left, dst, src>>

StoreUnlocked(t, v) ==
    /\ words' = SL!Whole(v) /\ value' = v
    /\ lock_' = lock_ + 2
    /\ UNCHANGED <<st, seq, left, dst, src>>

StoreValue(t) ==
    /\ At(t, "locked") /\ ToStore(t) # NoValue
    /\ SetDefault(t)
    /\ IF kind = "SequenceLocked"
       THEN /\ SL!WriteBegin(t, ToStore(t))
            /\ Check(lock_ % 2 = 0)
            /\ Goto(t, "writing")
       ELSE StoreUnlocked(t, ToStore(t)) /\ Goto(t, "stored") /\ UNCHANGED fault
    /\ UNCHANGED <<kind, init_control_, hold, cbVars, modified_, on_command_line_,
                   set_by_user, saved, calls>>

Writing(t) ==
    /\ At(t, "writing")
    /\ \/ SL!WriteEnd(t) /\ Goto(t, "stored")
       \/ (\E w \in Words : SL!RelaxedCopyToAtomic(t, w)) /\ UNCHANGED pc
    /\ UNCHANGED <<kind, init_control_, hold, cbVars, bitVars, saved, calls, fault>>

(* Nothing to store: the text did not parse, the flag is modified already, *)
(* or there is nothing to restore.  SaveState reads under the lock.        *)
NoStore(t) ==
    /\ At(t, "locked") /\ ToStore(t) = NoValue /\ call(t).name # "SetCallback"
    /\ SetDefault(t)
    /\ saved' = IF call(t).name # "Save" THEN saved
                ELSE [saved EXCEPT ![t] = [value |-> value, modified |-> modified_,
                         cmd |-> on_command_line_, counter |-> ModificationCount,
                         user |-> set_by_user]]
    /\ Check(call(t).name = "Save" => lock_ % 2 = 0)
    /\ Unlock(t)
    /\ UNCHANGED <<kind, init_control_, seqVars, cbVars, modified_, on_command_line_,
                   set_by_user>>

-----------------------------------------------------------------------------
(* InvokeCallback, after modified_ = true or from SetCallback: with a      *)
(* callback the data guard is released.  The mutant runs no callback for   *)
(* a flag that was modified before.                                        *)
InvokeCallback_OnFirst(t) ==
    IF callback_ /\ ~modified_ THEN Guard!Release(t) /\ Goto(t, "cb_lock")
    ELSE Goto(t, "after") /\ UNCHANGED hold

InvokeCallback(t) ==
    IF callback_' THEN Guard!Release(t) /\ Goto(t, "cb_lock")
    ELSE Goto(t, "after") /\ UNCHANGED hold

Stored(t) ==
    /\ At(t, "stored")
    /\ modified_' = TRUE
    /\ set_by_user' = CASE call(t).name = "Default" -> FALSE
                        [] call(t).name = "Restore" -> saved[t].user
                        [] OTHER -> TRUE
    /\ UNCHANGED callback_
    /\ InvokeCallback(t)
    /\ UNCHANGED <<kind, init_control_, seqVars, cb_guard, cb_seen, on_command_line_,
                   default_value_, saved, calls, fault>>

SetCallback(t) ==
    /\ At(t, "locked") /\ call(t).name = "SetCallback"
    /\ callback_' = TRUE
    /\ InvokeCallback(t)
    /\ UNCHANGED <<kind, init_control_, seqVars, cb_guard, cb_seen, bitVars, saved,
                   calls, fault>>

(* The callback, under its own guard; it reads the flag. *)
CallbackLock(t) ==
    /\ At(t, "cb_lock") /\ cb_guard = NoThread
    /\ cb_guard' = t
    /\ Goto(t, "cb")
    /\ UNCHANGED <<kind, init_control_, seqVars, hold, callback_, cb_seen, bitVars,
                   saved, calls, fault>>

Callback(t) ==
    /\ At(t, "cb")
    /\ cb_seen' = value
    /\ cb_guard' = NoThread
    /\ Goto(t, "relock")
    /\ UNCHANGED <<kind, init_control_, seqVars, hold, callback_, bitVars, saved,
                   calls, fault>>

(* ~MutexRelock *)
Relock(t) ==
    /\ At(t, "relock")
    /\ Guard!Acquire(t, "Exclusive")
    /\ Goto(t, "after")
    /\ UNCHANGED <<kind, init_control_, seqVars, cbVars, bitVars, saved, calls, fault>>

(* What RestoreState and ParseFrom do once StoreValue has returned. *)
After(t) ==
    /\ At(t, "after")
    /\ modified_' = CASE call(t).name = "Restore" -> saved[t].modified
                      [] call(t).name = "Default" -> FALSE
                      [] OTHER -> modified_
    /\ on_command_line_' = CASE call(t).name = "Restore" -> saved[t].cmd
                             [] call(t).name = "Value" -> TRUE
                             [] OTHER -> on_command_line_
    /\ Unlock(t)
    /\ UNCHANGED <<kind, init_control_, seqVars, cbVars, default_value_, set_by_user,
                   saved, fault>>

Step(t) ==
    \/ Get(t) \/ Reading(t) \/ TryReadReturns(t) \/ Start(t) \/ InitBegin(t)
    \/ InitEnd(t) \/ Read(t) \/ ReadLocked(t) \/ LockGuard(t) \/ StoreValue(t)
    \/ Writing(t) \/ NoStore(t) \/ Stored(t) \/ SetCallback(t) \/ CallbackLock(t)
    \/ Callback(t) \/ Relock(t) \/ After(t)

Next == \E t \in Threads : Step(t)

Spec == Init /\ [][Next]_vars /\ \A t \in Threads : WF_vars(Step(t))

-----------------------------------------------------------------------------
(* A read of the flag that goes through the sequence lock gives the value  *)
(* that is current when it returns, whatever Set, ParseFrom and            *)
(* RestoreState do meanwhile.                                              *)
FlagReadsWhole == SL!NoTornRead

(* assert(success): once the lock is held, TryRead does not fail, and      *)
(* Write starts unlocked.                                                  *)
FlagAssertionsHold == ~fault

(* RestoreState leaves the flag alone only if it has the saved value: no   *)
(* store fails to count as a modification.                                 *)
RestoreSkipsUnchanged ==
    \A t \in Threads :
        At(t, "locked") /\ call(t).name = "Restore" /\ ToStore(t) = NoValue
            => value = saved[t].value

(* "Eventual consistency": when no call is in progress, the callback has   *)
(* run since the last store.                                               *)
CallbackUpToDate ==
    callback_ /\ (\A t \in Threads : pc[t] = "run") => cb_seen = value

(* SET_FLAG_IF_DEFAULT sets the flag's value "only if it hasn't been set   *)
(* by someone else".                                                       *)
IfDefaultKeepsSetValue ==
    \A t \in Threads :
        At(t, "locked") /\ call(t).name = "IfDefault" /\ ToStore(t) # NoValue
            => ~set_by_user

(* Every call returns. *)
AllReturned == \A t \in Threads : calls[t] = <<>>
FlagCallsReturn == <>AllReturned
=============================================================================
