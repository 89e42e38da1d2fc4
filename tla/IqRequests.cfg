SPECIFICATION IqFairSpec
CONSTANTS
    Calls = {c1, c2}
    Messages = {c2}
    Asks = {q}
    Streams = {s1, s2}
    None = none
    MaxAttempts = 1
    MaxRedials = 2
INVARIANTS
    OnlyRegisteredIsOpen
    LostPeerIsRedialled
    ClosedNodeIsQuiet
    PendingIsTimed
    ShownHasStream
PROPERTIES
    RedialIsTried
    CallsSettle
CHECK_DEADLOCK FALSE
