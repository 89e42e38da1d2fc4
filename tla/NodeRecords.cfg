SPECIFICATION RecordsFairSpec
CONSTANTS
    Senders = {s1}
    MaxStanzas = 3
    MaxFlushes = 2
    ChatIds = {1, 2, 3}
    Stamped = {2}
    ChatLimit = 2
    ChatMaxActs = 3
    ChatMaxFails = 1
    Msgs = {"m", "c", "d", "e", "x"}
    NoMsg = "none"
    Fix <- CorrectionOf
    HistoryLimit = 3
    Feeds = {f, g}
    FollowLimit = 1
    TopicMaxActs = 4
    Connects = {1, 2}
    Disconnects = {d1}
    Clients = {1, 2}
    NoClient = none
    Services = 2
    Queries = {q}
    BridgeMaxDrops = 1
    Mine = {m}
    Theirs = {p}
    Corrected = {}
    Attempts = {1, 2}
    PageMaxRefusals = 1
    Slots = {1, 2}
    Window = 2
    ItemLimit = 2
    MaxVersion = 3
    RssMaxActs = 2
    RssMaxFails = 1
INVARIANTS
    RecordsTypeOK
    TailStaysQueued
    HeldOnce
    CloseWaitsForSaves
    ArchiveHoldsOneVersion
    PageShowsArchive
    FollowedIsHeard
    
    OneClientAndItsStatus
    PageShowsConversation
    TagIsHonest
PROPERTIES
    OnlyAnOlderFlushLoses
    FlushEnds
    RecordedIsStored
CHECK_DEADLOCK FALSE
