SPECIFICATION HistSpec
CONSTANTS
    Msgs = {"m", "c"}
    NoMsg = "none"
    Fix <- CorrectionOf
    HistoryLimit = 3
INVARIANTS
    CorrectedIsArchived
CHECK_DEADLOCK FALSE
