----------------------------- MODULE Dictionary -----------------------------
(***************************************************************************)
(* The linear-probing tables of design_patterns/dictionary, versions v3    *)
(* and v4: the constructor, which inserts the words one after the other,   *)
(* and in_dictionary.  A step is one look at a cell.  The hash function is *)
(* any function, so every pattern of collisions occurs.                    *)
(***************************************************************************)
EXTENDS Integers, Sequences, SequencesExt

CONSTANTS
    Words,      \* the words there are
    Hashes,     \* the hashes they may have, below 2^Width
    Width,      \* the width of std::size_t
    MaxWords,   \* bound: the words given to the constructor
    NoWord      \* nullptr

VARIABLES
    version,      \* which Dictionary this is
    hash,         \* std::hash<string_view>
    words,        \* the constructor's argument
    hashTable_,   \* the string of each cell; its hash goes with it
    size_,
    pc,           \* where the program is
    inserted,     \* words inserted so far
    idx, attempts, word,   \* locals of insert and in_dictionary
    asked, found  \* the last lookup and its answer

given == <<version, hash, words>>
lookupVars == <<attempts, word, asked, found>>
vars == <<given, hashTable_, size_, pc, inserted, idx, lookupVars>>

(* The bitwise and of two unsigned integers. *)
And[a \in Nat, b \in Nat] ==
    IF a = 0 \/ b = 0 THEN 0
    ELSE 2 * And[a \div 2, b \div 2] + (a % 2) * (b % 2)

(* n - 1 in a std::size_t *)
Minus1(n) == (n - 1) % 2^Width

-----------------------------------------------------------------------------
(* The size of the table. *)

GrownTooLittle(n) ==
    LET grow[h \in Nat] == IF 2 * h <= n THEN grow[2 * h] ELSE h IN grow[1]

(* while (hashSize <= words.size()) hashSize <<= 1; *)
Grown(n) ==
    LET grow[h \in Nat] == IF h <= n THEN grow[2 * h] ELSE h IN grow[1]

(* v4 takes a power of two, and zero, apart. *)
hashSize(v, n) ==
    IF v = "v4" /\ And[n, Minus1(n)] = 0 THEN n * 2 ELSE Grown(n)

capacity == Cardinality(DOMAIN hashTable_)

(* index and next: the remainder in v3, the mask in v4 *)
Reduce(n) ==
    IF version = "v3" THEN n % capacity ELSE And[n, Minus1(capacity)]

index(w) == Reduce(hash[w])

next_Strided(i) == Reduce(i + 3)

next(i) == Reduce(i + 1)

Init ==
    /\ version \in {"v3", "v4"}
    /\ hash \in [Words -> Hashes]
    /\ words \in BoundedSeq(Words, MaxWords)
    /\ hashTable_ = [i \in 0 .. hashSize(version, Len(words)) - 1 |-> NoWord]
    /\ size_ = 0
    /\ pc = "construct"
    /\ inserted = 0
    /\ idx = 0
    /\ attempts = 0
    /\ word = NoWord
    /\ asked = NoWord
    /\ found = FALSE

-----------------------------------------------------------------------------
(* The constructor. *)

(* insert: the cell to start from *)
insert_begin ==
    /\ pc = "construct"
    /\ inserted < Len(words)
    /\ idx' = index(words[inserted + 1])
    /\ pc' = "insert"
    /\ UNCHANGED <<given, hashTable_, size_, inserted, lookupVars>>

(* insert: a taken cell *)
insert_next ==
    /\ pc = "insert"
    /\ hashTable_[idx] # NoWord
    /\ idx' = next(idx)
    /\ UNCHANGED <<given, hashTable_, size_, pc, inserted, lookupVars>>

(* insert: a free cell *)
insert_store ==
    /\ pc = "insert"
    /\ hashTable_[idx] = NoWord
    /\ hashTable_' = [hashTable_ EXCEPT ![idx] = words[inserted + 1]]
    /\ inserted' = inserted + 1
    /\ pc' = "construct"
    /\ UNCHANGED <<given, size_, idx, lookupVars>>

construct_end ==
    /\ pc = "construct"
    /\ inserted = Len(words)
    /\ size_' = Len(words)
    /\ pc' = "ready"
    /\ UNCHANGED <<given, hashTable_, inserted, idx, lookupVars>>

-----------------------------------------------------------------------------
(* in_dictionary *)

lookup_begin(w) ==
    /\ pc = "ready"
    /\ word' = w
    /\ idx' = index(w)
    /\ attempts' = 0
    /\ pc' = "lookup"
    /\ UNCHANGED <<given, hashTable_, size_, inserted, asked, found>>

Return(answer) ==
    /\ asked' = word
    /\ found' = answer
    /\ pc' = "ready"
    /\ UNCHANGED <<given, hashTable_, size_, inserted, idx, attempts, word>>

MoreAttempts_Always == TRUE

(* while (attempts < size_) *)
MoreAttempts == attempts < size_

Matches_HashOnly(w) == hash[w] = hash[word]

(* entry.hash == hash && *entry.string == word *)
Matches(w) == hash[w] = hash[word] /\ w = word

lookup_next ==
    /\ pc = "lookup"
    /\ MoreAttempts
    /\ hashTable_[idx] # NoWord
    /\ ~Matches(hashTable_[idx])
    /\ idx' = next(idx)
    /\ attempts' = attempts + 1
    /\ UNCHANGED <<given, hashTable_, size_, pc, inserted, word, asked, found>>

lookup_found ==
    /\ pc = "lookup"
    /\ MoreAttempts
    /\ hashTable_[idx] # NoWord
    /\ Matches(hashTable_[idx])
    /\ Return(TRUE)

lookup_absent ==
    /\ pc = "lookup"
    /\ MoreAttempts => hashTable_[idx] = NoWord
    /\ Return(FALSE)

Construct == insert_begin \/ insert_next \/ insert_store \/ construct_end

Lookup == lookup_next \/ lookup_found \/ lookup_absent

Next == Construct \/ Lookup \/ \E w \in Words : lookup_begin(w)

Spec == Init /\ [][Next]_vars

(* Calls run; nobody has to make one. *)
FairSpec == Spec /\ WF_vars(Construct) /\ WF_vars(Lookup)

-----------------------------------------------------------------------------
(***************************************************************************)
(* No cell outside the table is looked at.  The case to fear is v4 made    *)
(* from no words: its table is empty and its mask all ones, so index is    *)
(* the hash itself; only size_ = 0 keeps in_dictionary from using it.      *)
(***************************************************************************)
InBounds ==
    pc = "insert" \/ (pc = "lookup" /\ MoreAttempts) => idx \in DOMAIN hashTable_

(* How many calls of next lead from cell i to cell j. *)
Distance(i, j) == (j - i + capacity) % capacity

(***************************************************************************)
(* Every word that has been inserted can be reached: it lies fewer than    *)
(* words.size() cells after its own index, and no cell on the way is free. *)
(* That is what entitles in_dictionary to stop at a free cell, and after   *)
(* size_ attempts.                                                         *)
(***************************************************************************)
NoGaps ==
    \A k \in 1 .. inserted : \E j \in DOMAIN hashTable_ :
        /\ hashTable_[j] = words[k]
        /\ Distance(index(words[k]), j) < Len(words)
        /\ \A i \in DOMAIN hashTable_ :
             Distance(index(words[k]), i) < Distance(index(words[k]), j)
                => hashTable_[i] # NoWord

(***************************************************************************)
(* The table implements the set of its words, whatever the hash function,  *)
(* the number of words and their repetitions: in_dictionary finds all the  *)
(* words that were given to the constructor and no other.  InDictionary    *)
(* and NotInDictionary of dictionary.cc test this.                         *)
(***************************************************************************)
Set == INSTANCE WordSet WITH container <- ToSet(words)

ImplementsSet == Set!Spec

(***************************************************************************)
(* Every call returns: insert's endless loop meets a free cell, and        *)
(* in_dictionary's gives up.                                               *)
(***************************************************************************)
CallsReturn == []<>(pc = "ready")
=============================================================================
