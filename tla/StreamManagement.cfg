SPECIFICATION FairSpec
CONSTANTS
    AckInterval = 2
    MaxStanzas = 2
PROPERTIES
    ImplementsReliableStream
    SentIsDelivered
    AckTrafficDiesOut
CHECK_DEADLOCK FALSE
