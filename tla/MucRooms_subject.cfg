SPECIFICATION MucSpec
CONSTANTS
    Members = {"a", "b"}
    MucMaxActs = 4
    MucMaxLosses = 0
INVARIANTS
    MessageReachesRoom
CHECK_DEADLOCK FALSE
