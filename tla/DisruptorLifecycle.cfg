\* Two sessions: start, halt, start again, halt again.  No symmetry: liveness.
CONSTANTS
    Producers = {p1}
    Consumers = {c1, c2}
    N = 2
    MaxEvents = 2
    MaxStarts = 2
SPECIFICATION FairSpec
PROPERTIES
    NoDeliveryAfterRestart
    HaltReturns
    EventuallyConsumed
