SPECIFICATION Spec
CONSTANTS
    Senders = {s1, s2}
    MaxStanzas = 1
    MaxFlushes = 1
INVARIANTS
    TailStaysQueued
CHECK_DEADLOCK FALSE
