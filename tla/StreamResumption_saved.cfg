SPECIFICATION FairSpec
CONSTANTS
    AckInterval = 2
    Diallers = {"a"}
    MaxStanzas = 1
    MaxLinks = 3
PROPERTIES
    AgreedSessionIsSaved
CHECK_DEADLOCK FALSE
