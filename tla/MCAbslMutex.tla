----------------------------- MODULE MCAbslMutex ----------------------------
(***************************************************************************)
(* absl::Mutex and absl::CondVar for TLC: the programs the threads run.    *)
(***************************************************************************)
EXTENDS AbslMutex, TLC

CONSTANTS t1, t2, t3, c, d

Call(name, mode, condition, timeout, value) ==
    [name |-> name, how |-> mode, cond |-> condition, timed |-> timeout,
     value |-> value]

Lk == Call("Lock", "Exclusive", NoCond, FALSE, FALSE)
Rd == Call("Lock", "Shared", NoCond, FALSE, FALSE)
When(x) == Call("Lock", "Exclusive", x, FALSE, FALSE)
WhenTimed(x) == Call("Lock", "Exclusive", x, TRUE, FALSE)
RdWhen(x) == Call("Lock", "Shared", x, FALSE, FALSE)
RdWhenTimed(x) == Call("Lock", "Shared", x, TRUE, FALSE)
Try == Call("TryLock", "Exclusive", NoCond, FALSE, FALSE)
RdTry == Call("TryLock", "Shared", NoCond, FALSE, FALSE)
Un == Call("Unlock", "", NoCond, FALSE, FALSE)
Aw(x) == Call("Await", "", x, FALSE, FALSE)
AwTimed(x) == Call("Await", "", x, TRUE, FALSE)
Cv(x) == Call("CvWhile", "", x, FALSE, FALSE)
CvTimed(x) == Call("CvWhile", "", x, TRUE, FALSE)
Set(x, v) == Call("Set", "", x, FALSE, v)
Sig == Call("Signal", "", NoCond, FALSE, FALSE)
SigAll == Call("SignalAll", "", NoCond, FALSE, FALSE)

Run(p1, p2, p3) == (t1 :> p1) @@ (t2 :> p2) @@ (t3 :> p3)

MCPriority == (t1 :> 0) @@ (t2 :> 0) @@ (t3 :> 1)

Setter(x) == <<Lk, Set(x, TRUE), Un>>

Scenarios == <<
    \* readers and writers, trying and blocking
    Run(<<Lk, Un, Lk, Un>>, <<Rd, Un>>, <<Rd, Un>>),
    Run(<<Lk, Un>>, <<Lk, Un>>, <<Lk, Un>>),
    Run(<<Try, Un>>, <<RdTry, Un, Lk, Un>>, <<Rd, Un>>),
    \* conditions
    Run(<<WhenTimed(c), Un>>, <<When(c), Un>>, Setter(c)),
    Run(<<When(c), Un>>, <<WhenTimed(c), Un>>, <<WhenTimed(d), Set(c, TRUE), Un>>),
    Run(<<RdWhen(c), Un>>, <<RdWhenTimed(c), Un>>, Setter(c)),
    Run(<<Lk, Aw(c), Un>>, <<WhenTimed(d), Un>>, Setter(c)),
    Run(<<Rd, AwTimed(c), Un>>, <<Rd, Un>>, Setter(c)),
    Run(<<RdWhenTimed(c), Un>>, <<When(c), Set(c, FALSE), Un>>, Setter(c)),
    \* condition variables
    Run(<<Lk, Cv(c), Un>>, <<Lk, Cv(c), Un>>, <<Lk, Set(c, TRUE), SigAll, Un>>),
    Run(<<Rd, Cv(c), Un>>, <<Lk, CvTimed(c), Un>>, <<Lk, Set(c, TRUE), Un, SigAll>>),
    Run(<<Lk, CvTimed(c), Un>>, <<Rd, Un>>, <<Lk, Set(c, TRUE), Sig, Un>>) >>

MCPrograms == {Scenarios[i] : i \in DOMAIN Scenarios}
=============================================================================
