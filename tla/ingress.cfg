CONSTANTS
    Streams = {s1, s2}
    MaxBuffered = 3
    MaxPayload = 2
    MaxShares = 2
    NoItem = NoItem
SPECIFICATION Spec
SYMMETRY Symmetry
CHECK_DEADLOCK FALSE
INVARIANTS IngressAccounting OneOutcome QueueIsFenced
