SPECIFICATION PresenceFairSpec
CONSTANTS
    Users = {"a", "b"}
    MaxActs = 1
    MaxDrops = 1
    Members = {"a", "b"}
    MucMaxActs = 4
    MucMaxLosses = 1
    Hosts = {h1, h2}
    Browsers = {w}
    MaxMembers = 4
    UploadMaxActs = 1
    UploadMaxFails = 1
INVARIANTS
    GrantedOnlyToWhoAsked
    MemberHearsRoom
    ListsMatchCopies
PROPERTIES
    AskIsSettled
    MembersMeet
    LeaverIsForgotten
CHECK_DEADLOCK FALSE
