\* One producer and two consumers, as in the SPMC test, with no more events
\* than slots.
CONSTANTS
    Producers = {p1}
    Consumers = {c1, c2}
    N = 4
    MaxEvents = 3
    MaxStarts = 1
SPECIFICATION Spec
SYMMETRY ConsumerSymmetry
INVARIANTS
    SingleProducerInv
    AtMostOneBehind
PROPERTIES
    ExactWhenCaughtUp
    ImplementsStream
