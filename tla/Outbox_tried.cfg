SPECIFICATION FairSpec
CONSTANTS
    Tabs = {t1}
    Messages = {m1, m2}
    MaxFaults = 1
PROPERTIES
    QueuedIsTried
CHECK_DEADLOCK FALSE
