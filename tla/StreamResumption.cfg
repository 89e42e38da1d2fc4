SPECIFICATION FairSpec
CONSTANTS
    AckInterval = 2
    Diallers = {"a"}
    MaxStanzas = 2
    MaxLinks = 2
INVARIANTS
    LostOnlyWithItsSession
PROPERTIES
    ResentIsDelivered
CHECK_DEADLOCK FALSE
