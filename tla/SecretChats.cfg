SPECIFICATION FairSpec
CONSTANTS
    MaxTexts = 1
    MaxRequests = 1
    Faults = {"discard", "twice", "error", "unready", "crash", "timeout", "late", "weak"}
    MaxFaults = 1
INVARIANTS
    KeysAgree
    Unread
    Gone
PROPERTIES
    AllTold
    ExchangeEnds
CHECK_DEADLOCK FALSE
