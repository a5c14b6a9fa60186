\* Two producers.
CONSTANTS
    Producers = {p1, p2}
    Consumers = {c1}
    N = 4
    MaxEvents = 2
    MaxStarts = 1
SPECIFICATION Spec
PROPERTY
    CursorNeverGoesBack
