\* One producer, one consumer: main.cpp in small.
CONSTANTS
    Producers = {p1}
    Consumers = {c1}
    N = 4
    MaxEvents = 1
    MaxStarts = 1
SPECIFICATION Spec
INVARIANT
    ReadsOnlyCommitted
