----------------------------- MODULE RawHashSet -----------------------------
(***************************************************************************)
(* container_internal::raw_hash_set, the table of flat_hash_set and the    *)
(* other Swiss tables: control bytes probed a group at a time, tombstones, *)
(* and a control array whose head is repeated behind its sentinel.         *)
(***************************************************************************)
EXTENDS Integers, Sequences, FiniteSets, FiniteSetsExt, SequencesExt, Bitwise

CONSTANTS
    Keys,
    Hash,           \* the hash of each key, as its parts [h1, h2]
    kWidth,         \* Group::kWidth
    None,           \* in a slot: no element
    Programs        \* [first |-> the keys inserted first,
                    \*  calls |-> the number of calls afterwards, with these
                    \*  keys |-> ..., sizes |-> ..., in a build with these
                    \*  salts |-> (PerTableSalt of an allocation),
                    \*  backwards |-> (the keys ShouldInsertBackwards holds for),
                    \*  bug_detection |-> (should_rehash_for_bug_detection_on_insert)]

VARIABLES
    table,          \* the CommonFields, and the slots
    elems,          \* the set the table stands for
    todo            \* the rest of the program

vars == <<table, elems, todo>>

(* ctrl_t: a full slot has the H2 of its element *)
kEmpty == -128
kDeleted == -2
kSentinel == -1
IsFull(c) == c >= 0
IsEmptyOrDeleted(c) == c < kSentinel

H2(k) == Hash[k].h2
H1(s, k) == Hash[k].h1 ^^ s.salt

NumClonedBytes == kWidth - 1
NextCapacity(n) == 2 * n + 1
is_small(capacity) == capacity < kWidth - 1

(* The next 2^m - 1 *)
NormalizeCapacity(n) == CHOOSE c \in {2 ^ m - 1 : m \in 1..20} :
    c >= n /\ (c = 1 \/ (c - 1) \div 2 < n)

CapacityToGrowth(capacity) ==
    IF kWidth = 8 /\ capacity = 7 THEN 6 ELSE capacity - capacity \div 8

GrowthToLowerboundCapacity(growth) ==
    IF kWidth = 8 /\ growth = 7 THEN 8
    ELSE IF growth = 0 THEN 0 ELSE growth + (growth - 1) \div 7

-----------------------------------------------------------------------------
(* A table with an empty backing array; kEmptyGroup serves capacity 0. *)
ResetCtrl(capacity, salt, size) ==
    [capacity |-> capacity, size |-> size, salt |-> salt,
     growth_left |-> IF capacity = 0 THEN 0 ELSE CapacityToGrowth(capacity) - size,
     ctrl |-> [i \in 0..(capacity + NumClonedBytes) |->
                   IF i = capacity THEN kSentinel ELSE kEmpty],
     slots |-> [i \in 0..(capacity - 1) |-> None]]

(* The value is mirrored to the cloned tail; the mutant does not. *)
SetCtrl_NoClone(s, i, h) == [s EXCEPT !.ctrl[i] = h]

SetCtrl(s, i, h) ==
    LET mirror == ((i - NumClonedBytes) % (s.capacity + 1)) + (NumClonedBytes % (s.capacity + 1))
    IN  [s EXCEPT !.ctrl[i] = h, !.ctrl[mirror] = h]

(* The positions in the group at offset with a given byte *)
Match(s, offset, h) == {i \in 0..(kWidth - 1) : s.ctrl[offset + i] = h}
MaskEmpty(s, offset) == Match(s, offset, kEmpty)
MaskEmptyOrDeleted(s, offset) ==
    {i \in 0..(kWidth - 1) : IsEmptyOrDeleted(s.ctrl[offset + i])}

(* probe_seq::offset, and its next *)
Position(s, offset, i) == (offset + i) % (s.capacity + 1)
NextOffset(s, offset, index) == (offset + index + kWidth) % (s.capacity + 1)
ProbeOffset(s, k) == H1(s, k) % (s.capacity + 1)

(* "full table!" *)
Endless == -2

(* The slot of k, or -1 (find, has_element, find_or_prepare_insert) *)
RECURSIVE FindFrom(_, _, _, _)
FindFrom(s, k, offset, index) ==
    LET match == {i \in Match(s, offset, H2(k)) :
                      s.slots[Position(s, offset, i)] = k}
    IN  IF index > s.capacity THEN Endless
        ELSE IF match # {} THEN Position(s, offset, Min(match))
        ELSE IF MaskEmpty(s, offset) # {} THEN -1
        ELSE FindFrom(s, k, NextOffset(s, offset, index), index + kWidth)

find(s, k) == FindFrom(s, k, ProbeOffset(s, k), 0)

(* In debug builds the highest free position of a group may be taken. *)
RECURSIVE NonFullFrom(_, _, _, _)
NonFullFrom(s, backwards, offset, index) ==
    LET free == MaskEmptyOrDeleted(s, offset)
    IN  IF index > s.capacity THEN Endless
        ELSE IF free = {} THEN NonFullFrom(s, backwards, NextOffset(s, offset, index), index + kWidth)
        ELSE Position(s, offset, IF backwards /\ ~is_small(s.capacity) THEN Max(free) ELSE Min(free))

find_first_non_full(s, k, backwards) == NonFullFrom(s, k \in backwards, ProbeOffset(s, k), 0)

Put(s, i, k) == [SetCtrl(s, i, H2(k)) EXCEPT !.slots[i] = k]

-----------------------------------------------------------------------------
(* The elements of the old array from i on are put into s. *)
RECURSIVE Transfer(_, _, _, _)
Transfer(s, old, i, backwards) ==
    IF i = old.capacity THEN s
    ELSE LET k == old.slots[i]
         IN  Transfer(IF IsFull(old.ctrl[i]) THEN Put(s, find_first_non_full(s, k, backwards), k) ELSE s,
                      old, i + 1, backwards)

resize(s, capacity, salt, backwards) ==
    Transfer(ResetCtrl(capacity, salt, s.size), s, 0, backwards)

ConvertDeletedToEmptyAndFullToDeleted(s) ==
    [s EXCEPT !.ctrl = [i \in DOMAIN s.ctrl |->
        LET c == s.ctrl[IF i > s.capacity THEN i - s.capacity - 1 ELSE i]
        IN  IF i = s.capacity THEN kSentinel ELSE IF IsFull(c) THEN kDeleted ELSE kEmpty]]

(* The loop of DropDeletesWithoutResize at i, where kDeleted marks an      *)
(* element that has not found its place; the mutant goes on after a swap   *)
(* without looking at the element that came to i.                          *)
AfterSwap_Next(i) == i + 1

AfterSwap(i) == i

RECURSIVE DropDeletes(_, _, _)
DropDeletes(s, i, backwards) ==
    LET k == s.slots[i]
        new_i == find_first_non_full(s, k, backwards)
        probe_index(pos) == ((pos - ProbeOffset(s, k)) % (s.capacity + 1)) \div kWidth
    IN  IF i = s.capacity THEN s
        ELSE IF s.ctrl[i] # kDeleted THEN DropDeletes(s, i + 1, backwards)
        ELSE IF probe_index(new_i) = probe_index(i)
             THEN DropDeletes(SetCtrl(s, i, H2(k)), i + 1, backwards)
        ELSE IF s.ctrl[new_i] = kEmpty
             THEN DropDeletes([SetCtrl(Put(s, new_i, k), i, kEmpty) EXCEPT !.slots[i] = None],
                              i + 1, backwards)
        ELSE DropDeletes([Put(s, new_i, k) EXCEPT !.slots[i] = s.slots[new_i]],
                         AfterSwap(i), backwards)

DropDeletesWithoutResize(s, backwards) ==
    [DropDeletes(ConvertDeletedToEmptyAndFullToDeleted(s), 0, backwards)
        EXCEPT !.growth_left = CapacityToGrowth(s.capacity) - s.size]

(* Few elements and many tombstones: the same array serves again. *)
rehash_and_grow_if_necessary(s, salt, backwards) ==
    IF s.capacity > kWidth /\ s.size * 32 <= s.capacity * 25
    THEN DropDeletesWithoutResize(s, backwards)
    ELSE resize(s, NextCapacity(s.capacity), salt, backwards)

(* What an element put into a slot with byte c takes of growth_left: a     *)
(* tombstone has been paid for; the mutant pays again.                     *)
Growth_Always(c) == 1

Growth(c) == IF c = kEmpty THEN 1 ELSE 0

(* The table the element is put into, and where; in a build with           *)
(* generations the array may be replaced first.                            *)
prepare_insert(s, k, salt, backwards, bug_detection) ==
    LET moved == IF bug_detection
                 THEN resize(s, IF s.growth_left > 0 THEN s.capacity ELSE NextCapacity(s.capacity),
                             salt, backwards)
                 ELSE s
        target == find_first_non_full(moved, k, backwards)
        grown == IF ~bug_detection /\ moved.growth_left = 0 /\ moved.ctrl[target] # kDeleted
                 THEN rehash_and_grow_if_necessary(moved, salt, backwards)
                 ELSE moved
        offset == find_first_non_full(grown, k, backwards)
    IN  [Put(grown, offset, k) EXCEPT
            !.size = @ + 1,
            !.growth_left = @ - Growth(grown.ctrl[offset])]

(* A slot becomes empty only if no window of kWidth positions around it    *)
(* was full; the mutant is off by one.                                     *)
WasNeverFull_OffByOne(trailing, leading) == trailing + leading <= kWidth

WasNeverFull(trailing, leading) == trailing + leading < kWidth

EraseMetaOnly(s, index) ==
    LET before == (index - kWidth) % (s.capacity + 1)
        empty_after == MaskEmpty(s, index)
        empty_before == MaskEmpty(s, before)
        was_never_full == /\ empty_before # {} /\ empty_after # {}
                          /\ WasNeverFull(Min(empty_after), kWidth - 1 - Max(empty_before))
    IN  [SetCtrl(s, index, IF was_never_full THEN kEmpty ELSE kDeleted) EXCEPT
            !.slots[index] = None,
            !.size = @ - 1,
            !.growth_left = IF was_never_full THEN @ + 1 ELSE @]

-----------------------------------------------------------------------------
Init ==
    /\ table = ResetCtrl(0, 0, 0)
    /\ elems = {}
    /\ todo \in Programs

insert(k) ==
    /\ IF find(table, k) # -1 THEN UNCHANGED table
       ELSE \E salt \in todo.salts, backwards \in todo.backwards, bug_detection \in todo.bug_detection :
                table' = prepare_insert(table, k, salt, backwards, bug_detection)
    /\ elems' = elems \cup {k}

erase(k) ==
    /\ table' = IF find(table, k) = -1 THEN table ELSE EraseMetaOnly(table, find(table, k))
    /\ elems' = elems \ {k}

(* A small array is used again, one of 128 slots and more is not. *)
clear ==
    /\ table' = ResetCtrl(IF table.capacity < 128 THEN table.capacity ELSE 0, table.salt, 0)
    /\ elems' = {}

(* The bitor of the code is a max before NormalizeCapacity. *)
rehash(n) ==
    LET m == NormalizeCapacity(Max({n, GrowthToLowerboundCapacity(table.size)}))
    IN  /\ \/ n = 0 /\ table.capacity = 0 /\ UNCHANGED table
           \/ n = 0 /\ table.capacity > 0 /\ table.size = 0 /\ table' = ResetCtrl(0, 0, 0)
           \/ /\ n > 0 \/ table.size > 0
              /\ IF n = 0 \/ m > table.capacity
                 THEN \E salt \in todo.salts, backwards \in todo.backwards :
                          table' = resize(table, m, salt, backwards)
                 ELSE UNCHANGED table
        /\ UNCHANGED elems

reserve(n) ==
    /\ IF n > table.size + table.growth_left
       THEN \E salt \in todo.salts, backwards \in todo.backwards :
                table' = resize(table, NormalizeCapacity(GrowthToLowerboundCapacity(n)), salt, backwards)
       ELSE UNCHANGED table
    /\ UNCHANGED elems

(* The calls a program starts with, and then any calls with its keys *)
Prologue ==
    /\ todo.first # <<>>
    /\ insert(Head(todo.first))
    /\ todo' = [todo EXCEPT !.first = Tail(@)]

Call ==
    /\ todo.first = <<>> /\ todo.calls > 0
    /\ \/ \E k \in todo.keys : insert(k) \/ erase(k)
       \/ clear
       \/ \E n \in todo.sizes : rehash(n) \/ reserve(n)
    /\ todo' = [todo EXCEPT !.calls = @ - 1]

Next == Prologue \/ Call

Spec == Init /\ [][Next]_vars

-----------------------------------------------------------------------------
Deleted(s) == {i \in 0..(s.capacity - 1) : s.ctrl[i] = kDeleted}

(* Every key that was inserted and not erased is found, in the slot that   *)
(* holds it, and no other key is: an element is never behind an empty slot *)
(* of its probe sequence, and no probe is endless ("full table!").         *)
LookupExact ==
    \A k \in Keys :
        LET i == find(table, k)
        IN  IF k \in elems THEN i >= 0 /\ table.slots[i] = k ELSE i = -1

(* The control bytes, the slots and the counters agree: clones repeat the  *)
(* head of the array, each slot marked full holds another element, and     *)
(* growth_left, which never wraps below 0, is what elements and tombstones *)
(* leave of the growth.                                                    *)
TableConsistent ==
    LET s == table
        full == {i \in 0..(s.capacity - 1) : IsFull(s.ctrl[i])}
    IN  /\ \A i \in 0..(NumClonedBytes - 1) : i < s.capacity => s.ctrl[s.capacity + 1 + i] = s.ctrl[i]
        /\ s.ctrl[s.capacity] = kSentinel
        /\ \A i \in full : s.slots[i] \in elems /\ s.ctrl[i] = H2(s.slots[i])
        /\ Cardinality(full) = s.size /\ s.size = Cardinality(elems)
        /\ s.growth_left >= 0
        /\ s.capacity > 0 =>
              s.growth_left = CapacityToGrowth(s.capacity) - s.size - Cardinality(Deleted(s))
=============================================================================
