------------------------------ MODULE WordSet ------------------------------
(***************************************************************************)
(* A dictionary as the versions v0, v1, v2 and v5 have it: a library set   *)
(* filled by the constructor, and in_dictionary, which looks a word up.    *)
(* The hand-written tables of v3 and v4 promise the same.                  *)
(***************************************************************************)
CONSTANTS
    Words,   \* the words there are
    NoWord   \* no word has been looked up yet

VARIABLES
    container,   \* _container, or _index
    asked,       \* the word last looked up
    found        \* the answer

vars == <<container, asked, found>>

Init ==
    /\ container \in SUBSET Words
    /\ asked = NoWord
    /\ found = FALSE

in_dictionary(w) ==
    /\ asked' = w
    /\ found' = (w \in container)
    /\ UNCHANGED container

Next == \E w \in Words : in_dictionary(w)

Spec == Init /\ [][Next]_vars
=============================================================================
