SPECIFICATION FairSpec
CONSTANTS
    Users = {"a"}
    MaxActs = 2
    MaxDrops = 0
INVARIANTS
    UnsubscribeIsHonoured
CHECK_DEADLOCK FALSE
