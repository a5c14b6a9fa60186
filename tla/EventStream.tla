---------------------------- MODULE EventStream ----------------------------
(***************************************************************************)
(* What a Disruptor with one producer and fewer events than slots promises *)
(* its consumers: a one-place register that is claimed, then filled, over  *)
(* and over.  Each consumer takes one value per claimed event: the latest  *)
(* one while the register is full; the one before it, or a torn one, while *)
(* the register is being filled.  Payload k is the k-th event, from 0, and *)
(* -1 is the content of the fresh register.                                *)
(***************************************************************************)
EXTENDS Integers, Sequences

CONSTANTS Consumers, Torn

VARIABLES
    claimed,   \* number of events claimed
    filled,    \* number of events whose payload is in place
    taken      \* what each consumer has taken so far

vars == <<claimed, filled, taken>>

Init ==
    /\ claimed = 0
    /\ filled = 0
    /\ taken = [c \in Consumers |-> <<>>]

Claim ==
    /\ filled = claimed
    /\ claimed' = claimed + 1
    /\ UNCHANGED <<filled, taken>>

Fill ==
    /\ filled < claimed
    /\ filled' = claimed
    /\ UNCHANGED <<claimed, taken>>

(* What a consumer may see now. *)
Visible == IF filled = claimed THEN {claimed - 1} ELSE {claimed - 2, Torn}

Take(c) ==
    /\ Len(taken[c]) < claimed
    /\ \E v \in Visible : taken' = [taken EXCEPT ![c] = Append(@, v)]
    /\ UNCHANGED <<claimed, filled>>

Next == Claim \/ Fill \/ \E c \in Consumers : Take(c)

Spec == Init /\ [][Next]_vars
=============================================================================
