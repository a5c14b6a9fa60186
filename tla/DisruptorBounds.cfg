\* One event more than there are slots.
CONSTANTS
    Producers = {p1}
    Consumers = {c1}
    N = 2
    MaxEvents = 3
    MaxStarts = 1
SPECIFICATION Spec
INVARIANT
    SlotInBounds
