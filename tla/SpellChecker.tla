---------------------------- MODULE SpellChecker ----------------------------
(***************************************************************************)
(* The spell checker: Tokenizer::get_next, one step per character, the     *)
(* lookup with its second try in lower case, and the Statistics.  Of a     *)
(* character it matters whether it is a delimiter, a capital, a small      *)
(* letter, or a byte above 127, which as a char is negative and makes      *)
(* is_dropped[*next] a read outside the array: it yields anything, and     *)
(* something else the next time.                                           *)
(***************************************************************************)
EXTENDS Integers, Sequences, SequencesExt, FiniteSets, Bags

CONSTANTS
    Entries,   \* the lines that the dictionary may have
    MaxText    \* bound: characters in the text

Chars == {"delimiter", "A", "a", "high"}

VARIABLES
    dict,    \* the words of the v0::Dictionary
    text,    \* the lines of the input file
    lineNo,  \* lines read so far
    pc,      \* where main is
    next,    \* Tokenizer::next, a position in the line
    start,   \* local of get_next
    errors,  \* Statistics::_errors
    num_errors

vars == <<dict, text, lineNo, pc, next, start, errors, num_errors>>

(* Up to two lines. *)
Texts ==
    {t \in BoundedSeq(BoundedSeq(Chars, MaxText), 2) : Len(FlattenSeq(t)) <= MaxText}

Init ==
    /\ dict \in SUBSET Entries
    /\ text \in Texts
    /\ lineNo = 0
    /\ pc = "getline"
    /\ next = 1
    /\ start = 1
    /\ errors = EmptyBag
    /\ num_errors = 0

line == text[lineNo]

(* The values that a read of is_dropped[c] may have. *)
is_dropped(c) == IF c = "high" THEN BOOLEAN ELSE {c = "delimiter"}

AtEnd == next = Len(line) + 1

(* The values that next != end && is_dropped[*next] == d may have. *)
Continues(d) == IF AtEnd THEN {FALSE} ELSE {r = d : r \in is_dropped(line[next])}

ToLower(w) == [i \in DOMAIN w |-> IF w[i] = "A" THEN "a" ELSE w[i]]

Misspelled_NoRetry(w) == w \notin dict

(* Not in the dictionary, neither as it stands nor in lower case. *)
Misspelled(w) == w \notin dict /\ ToLower(w) \notin dict

-----------------------------------------------------------------------------
getline ==
    /\ pc = "getline"
    /\ IF lineNo < Len(text)
       THEN lineNo' = lineNo + 1 /\ next' = 1 /\ pc' = "skip"
       ELSE pc' = "print_stats" /\ UNCHANGED <<lineNo, next>>
    /\ UNCHANGED <<dict, text, start, errors, num_errors>>

(* get_next, first loop: delimiters are dropped *)
skip ==
    /\ pc = "skip"
    /\ \E more \in Continues(TRUE) :
         IF more THEN next' = next + 1 /\ UNCHANGED <<pc, start>>
                 ELSE pc' = "take" /\ start' = next /\ UNCHANGED next
    /\ UNCHANGED <<dict, text, lineNo, errors, num_errors>>

(* get_next, second loop: the word *)
take ==
    /\ pc = "take"
    /\ \E more \in Continues(FALSE) :
         IF more THEN next' = next + 1 /\ UNCHANGED pc
                 ELSE pc' = "check" /\ UNCHANGED next
    /\ UNCHANGED <<dict, text, lineNo, start, errors, num_errors>>

word == SubSeq(line, start, next - 1)

(* Statistics::add_error *)
add_error(w) ==
    /\ errors' = errors (+) SetToBag({w})
    /\ num_errors' = num_errors + 1

(* main: an empty word ends the line; a misspelled one is counted *)
check ==
    /\ pc = "check"
    /\ pc' = IF word = <<>> THEN "getline" ELSE "skip"
    /\ IF word # <<>> /\ Misspelled(word) THEN add_error(word)
                                          ELSE UNCHANGED <<errors, num_errors>>
    /\ UNCHANGED <<dict, text, lineNo, next, start>>

Step == getline \/ skip \/ take \/ check

(* Statistics::print_stats changes nothing, and main ends. *)
Next == Step \/ (pc = "print_stats" /\ UNCHANGED vars)

Spec == Init /\ [][Next]_vars

FairSpec == Spec /\ WF_vars(Step)

-----------------------------------------------------------------------------
Delimiter(t, k, i) == i \notin DOMAIN t[k] \/ t[k][i] = "delimiter"

(* The words of a text, as line, first and last character: the longest     *)
(* stretches without a delimiter.                                          *)
Stretches(t) ==
    {s \in (1 .. Len(t)) \X (1 .. MaxText) \X (1 .. MaxText) :
        /\ s[2] <= s[3]
        /\ \A i \in s[2] .. s[3] : ~Delimiter(t, s[1], i)
        /\ Delimiter(t, s[1], s[2] - 1)
        /\ Delimiter(t, s[1], s[3] + 1)}

WordAt(t, s) == SubSeq(t[s[1]], s[2], s[3])

(***************************************************************************)
(* The statistics of a text of ASCII characters are exact: every word of   *)
(* the text that is neither in the dictionary nor in it in lower case is   *)
(* counted, as often as it occurs, and nothing else is.                    *)
(***************************************************************************)
ErrorsExact ==
    pc = "print_stats" /\ (\A k \in DOMAIN text : "high" \notin ToSet(text[k])) =>
        LET wrong == {s \in Stretches(text) :
                        {WordAt(text, s), ToLower(WordAt(text, s))} \cap dict = {}}
        IN  /\ num_errors = Cardinality(wrong)
            /\ BagToSet(errors) = {WordAt(text, s) : s \in wrong}
            /\ \A w \in BagToSet(errors) :
                 CopiesIn(w, errors) = Cardinality({s \in wrong : WordAt(text, s) = w})

(***************************************************************************)
(* Whatever the bytes: an error is a word that is not in the dictionary,   *)
(* has no delimiter in it, and is a piece of a line; and the total is the  *)
(* sum of the counts.                                                      *)
(***************************************************************************)
ErrorsAreMisspelled ==
    /\ num_errors = BagCardinality(errors)
    /\ \A w \in BagToSet(errors) :
         /\ w # <<>>
         /\ w \notin dict
         /\ "delimiter" \notin ToSet(w)
         /\ \E k \in 1 .. lineNo : \E i, j \in DOMAIN text[k] :
              w = SubSeq(text[k], i, j)

(* Every text is read to its end: both loops of get_next stop, and so does *)
(* the loop over the words of a line.                                      *)
Finishes == <>(pc = "print_stats")
=============================================================================
