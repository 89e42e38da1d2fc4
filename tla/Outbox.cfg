SPECIFICATION InterfaceFairSpec
CONSTANTS
    Tabs = {t1, t2}
    Messages = {m1, m2}
    MaxFaults = 1
    Runs = {r1, r2}
    Nodes = {1, 2}
    ShellMaxActs = 3
    ShellMaxFails = 1
INVARIANTS
    AcceptedIsKeptOrSent
    SentOncePerTab
    OneNodeAtATime
    NodeFollowsSettings
PROPERTIES
    FailedIsTriedAgain
CHECK_DEADLOCK FALSE
